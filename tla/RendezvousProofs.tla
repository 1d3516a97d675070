-------------------------- MODULE RendezvousProofs --------------------------
(***************************************************************************)
(* Proofs about Rendezvous and the codecs it rests on, for every chosen    *)
(* key, every command line of a server and every text of a host: what one  *)
(* end writes the other reads, so a server's string leads to it, its       *)
(* record is agreed on, and only its key opens it.                         *)
(*                                                                         *)
(* The codecs come first.  z32: after each byte the decoder, given the     *)
(* letters that the byte completed, holds the bits that the encoder holds  *)
(* (JoinedN); only the last twelve of an accumulator matter, so where it   *)
(* wraps around does not.  The record: reading is shown along the text     *)
(* that was written (At), one escaped character, one string, one member    *)
(* after the other.  Then the command line, from which a server gets only  *)
(* what stood on it, and last the invariant of the three steps             *)
(* (RendezvousInv).                                                        *)
(*                                                                         *)
(* The loops are recursive functions.  That they do what their definitions *)
(* say is shown by induction over the natural numbers as sets (Induction). *)
(***************************************************************************)
EXTENDS Rendezvous, NaturalsInduction, SequenceTheorems, WellFoundedInduction,
        TLAPS

---------------------------------------------------------------------------
(* Induction, as a fact about sets of natural numbers.                     *)

LEMMA Least ==
    ASSUME NEW T \in SUBSET Nat, T # {}
    PROVE  \E m \in T : \A k \in T : m <= k
<1>1. \E m \in T : \A k \in T : ~(<<k, m>> \in OpToRel(<, Nat))
  BY NatLessThanWellFounded, WFMin
<1>2. PICK m \in T : \A k \in T : ~(<<k, m>> \in OpToRel(<, Nat))
  BY <1>1
<1>3. \A k \in T : ~(k < m)
  BY <1>2 DEF OpToRel
<1> QED
  BY <1>3

LEMMA Induction ==
    ASSUME NEW S \in SUBSET Nat, 0 \in S, \A n \in S : n + 1 \in S
    PROVE  S = Nat
<1> SUFFICES ASSUME S # Nat PROVE FALSE
  OBVIOUS
<1>1. PICK m \in Nat \ S : \A k \in Nat \ S : m <= k
  BY Least
<1>2. m - 1 \in Nat /\ m - 1 \notin Nat \ S
  BY <1>1
<1> QED
  BY <1>1, <1>2

-----------------------------------------------------------------------------
(* The bits of a letter and of a byte.  Only the last twelve bits of an    *)
(* accumulator matter, and wrapping around keeps those.                    *)

SameBits(x, y) == x % 4096 = y % 4096

\* The accumulator a with one more byte, and d with one more letter.
ByteAdded(x, a, b)   == SameBits(x, a * 256 + b)
LetterAdded(x, d, l) == SameBits(x, d * 32 + l)

\* What comes out of one.
LetterAt(x, n) == (x \div n) % 32
ByteAt(x, n)   == (x \div n) % 256
Put(out, c)    == Append(out, c)

LEMMA LowBits ==
    ASSUME NEW x \in Nat
    PROVE  x % AccSize \in Nat /\ SameBits(x % AccSize, x)
<1>0. AccSize \in Nat \ {0} /\ AccSize % 4096 = 0
  BY KeysAssumption DEF KeysAssumption
<1> DEFINE q == x \div AccSize
           r == x % AccSize
           k == AccSize \div 4096
           m == k * q
<1>1. q \in Nat /\ r \in Nat /\ x = AccSize * q + r
  BY <1>0
<1>2. k \in Nat /\ AccSize = 4096 * k
  BY <1>0
<1> HIDE DEF q, r, k
<1>3. AccSize * q = 4096 * m /\ m \in Nat
  BY <1>1, <1>2
<1> HIDE DEF m
<1>4. x = 4096 * m + r
  BY <1>1, <1>3
<1>5. x % 4096 = r % 4096
  BY <1>1, <1>3, <1>4
<1> QED
  BY <1>1, <1>5 DEF r, SameBits

LEMMA ByteIn ==
    ASSUME NEW a \in Nat, NEW b \in Byte, NEW x \in Nat, ByteAdded(x, a, b)
    PROVE  /\ (x \div 8) % 32 = b \div 8
           /\ (x \div 16) % 32 = (a % 2) * 16 + (b \div 16)
           /\ (x \div 32) % 32 = (a % 4) * 8 + (b \div 32)
           /\ (x \div 64) % 32 = (a % 8) * 4 + (b \div 64)
           /\ (x \div 128) % 32 = (a % 16) * 2 + (b \div 128)
           /\ x % 256 = b
<1> DEFINE q == x \div 4096
           p == a \div 16
           e == a % 16
<1>1. x = 4096 * q + (x % 4096)
  OBVIOUS
<1>q. q \in Nat
  OBVIOUS
<1>2. p \in Nat /\ a = 16 * p + e
  OBVIOUS
<1>e. e \in 0..15
  OBVIOUS
<1>3. x % 4096 = e * 256 + b
  BY DEF Byte, SameBits, ByteAdded
<1> HIDE DEF q, p, e
<1>4. x = 4096 * q + (e * 256 + b)
  BY <1>1, <1>3
<1>5. (x \div 16) % 32 = (a % 2) * 16 + (b \div 16)
  <2>1. x \div 16 = 256 * q + (e * 16 + (b \div 16))
    BY <1>q, <1>e, <1>4 DEF Byte
  <2>2. a % 2 = e % 2
    BY <1>2, <1>e
  <2>3. b \div 16 \in 0..15
    BY DEF Byte
  <2>4. \A u \in Nat, f \in 0..15, g \in 0..15 :
           (256 * u + (f * 16 + g)) % 32 = (f % 2) * 16 + g
    OBVIOUS
  <2>5. (256 * q + (e * 16 + (b \div 16))) % 32 = (e % 2) * 16 + (b \div 16)
    BY <1>q, <1>e, <2>3, <2>4, Zenon
  <2> QED
    BY <2>1, <2>2, <2>5, Zenon
<1>6. (x \div 32) % 32 = (a % 4) * 8 + (b \div 32)
  <2>1. x \div 32 = 128 * q + (e * 8 + (b \div 32))
    BY <1>q, <1>e, <1>4 DEF Byte
  <2>2. a % 4 = e % 4
    BY <1>2, <1>e
  <2>3. b \div 32 \in 0..7
    BY DEF Byte
  <2>4. \A u \in Nat, f \in 0..15, g \in 0..7 :
           (128 * u + (f * 8 + g)) % 32 = (f % 4) * 8 + g
    OBVIOUS
  <2>5. (128 * q + (e * 8 + (b \div 32))) % 32 = (e % 4) * 8 + (b \div 32)
    BY <1>q, <1>e, <2>3, <2>4, Zenon
  <2> QED
    BY <2>1, <2>2, <2>5, Zenon
<1>7. (x \div 64) % 32 = (a % 8) * 4 + (b \div 64)
  <2>1. x \div 64 = 64 * q + (e * 4 + (b \div 64))
    BY <1>q, <1>e, <1>4 DEF Byte
  <2>2. a % 8 = e % 8
    BY <1>2, <1>e
  <2>3. b \div 64 \in 0..3
    BY DEF Byte
  <2>4. \A u \in Nat, f \in 0..15, g \in 0..3 :
           (64 * u + (f * 4 + g)) % 32 = (f % 8) * 4 + g
    OBVIOUS
  <2>5. (64 * q + (e * 4 + (b \div 64))) % 32 = (e % 8) * 4 + (b \div 64)
    BY <1>q, <1>e, <2>3, <2>4, Zenon
  <2> QED
    BY <2>1, <2>2, <2>5, Zenon
<1>8. (x \div 128) % 32 = (a % 16) * 2 + (b \div 128)
  <2>1. x \div 128 = 32 * q + (e * 2 + (b \div 128))
    BY <1>q, <1>e, <1>4 DEF Byte
  <2>2. a % 16 = e % 16
    BY <1>2, <1>e
  <2>3. b \div 128 \in 0..1
    BY DEF Byte
  <2>4. \A u \in Nat, f \in 0..15, g \in 0..1 :
           (32 * u + (f * 2 + g)) % 32 = (f % 16) * 2 + g
    OBVIOUS
  <2>5. (32 * q + (e * 2 + (b \div 128))) % 32 = (e % 16) * 2 + (b \div 128)
    BY <1>q, <1>e, <2>3, <2>4, Zenon
  <2> QED
    BY <2>1, <2>2, <2>5, Zenon
<1>9. (x \div 8) % 32 = b \div 8
  BY <1>q, <1>e, <1>4 DEF Byte
<1>10. x % 256 = b
  BY <1>q, <1>e, <1>4 DEF Byte
<1> QED
  BY <1>5, <1>6, <1>7, <1>8, <1>9, <1>10

LEMMA LetterIn ==
    ASSUME NEW d \in Nat, NEW l \in Letter, NEW x \in Nat, LetterAdded(x, d, l)
    PROVE  /\ (x \div 2) % 256 = (d % 16) * 16 + (l \div 2)
           /\ (x \div 4) % 256 = (d % 32) * 8 + (l \div 4)
           /\ (x \div 8) % 256 = (d % 64) * 4 + (l \div 8)
           /\ (x \div 16) % 256 = (d % 128) * 2 + (l \div 16)
           /\ x % 256 = (d % 8) * 32 + l
<1> DEFINE q == x \div 4096
           p == d \div 128
           e == d % 128
<1>1. x = 4096 * q + (x % 4096)
  OBVIOUS
<1>q. q \in Nat
  OBVIOUS
<1>2. p \in Nat /\ d = 128 * p + e
  OBVIOUS
<1>e. e \in 0..127
  OBVIOUS
<1>3. x % 4096 = e * 32 + l
  BY DEF Letter, SameBits, LetterAdded
<1> HIDE DEF q, p, e
<1>4. x = 4096 * q + (e * 32 + l)
  BY <1>1, <1>3
<1>5. (x \div 2) % 256 = (d % 16) * 16 + (l \div 2)
  <2>1. x \div 2 = 2048 * q + (e * 16 + (l \div 2))
    BY <1>q, <1>e, <1>4 DEF Letter
  <2>2. d % 16 = e % 16
    BY <1>2, <1>e
  <2>3. l \div 2 \in 0..15
    BY DEF Letter
  <2>4. \A u \in Nat, f \in 0..127, g \in 0..15 :
           (2048 * u + (f * 16 + g)) % 256 = (f % 16) * 16 + g
    OBVIOUS
  <2>5. (2048 * q + (e * 16 + (l \div 2))) % 256 = (e % 16) * 16 + (l \div 2)
    BY <1>q, <1>e, <2>3, <2>4
  <2> QED
    BY <2>1, <2>2, <2>5
<1>6. (x \div 4) % 256 = (d % 32) * 8 + (l \div 4)
  <2>1. x \div 4 = 1024 * q + (e * 8 + (l \div 4))
    BY <1>q, <1>e, <1>4 DEF Letter
  <2>2. d % 32 = e % 32
    BY <1>2, <1>e
  <2>3. l \div 4 \in 0..7
    BY DEF Letter
  <2>4. \A u \in Nat, f \in 0..127, g \in 0..7 :
           (1024 * u + (f * 8 + g)) % 256 = (f % 32) * 8 + g
    OBVIOUS
  <2>5. (1024 * q + (e * 8 + (l \div 4))) % 256 = (e % 32) * 8 + (l \div 4)
    BY <1>q, <1>e, <2>3, <2>4
  <2> QED
    BY <2>1, <2>2, <2>5
<1>7. (x \div 8) % 256 = (d % 64) * 4 + (l \div 8)
  <2>1. x \div 8 = 512 * q + (e * 4 + (l \div 8))
    BY <1>q, <1>e, <1>4 DEF Letter
  <2>2. d % 64 = e % 64
    BY <1>2, <1>e
  <2>3. l \div 8 \in 0..3
    BY DEF Letter
  <2>4. \A u \in Nat, f \in 0..127, g \in 0..3 :
           (512 * u + (f * 4 + g)) % 256 = (f % 64) * 4 + g
    OBVIOUS
  <2>5. (512 * q + (e * 4 + (l \div 8))) % 256 = (e % 64) * 4 + (l \div 8)
    BY <1>q, <1>e, <2>3, <2>4
  <2> QED
    BY <2>1, <2>2, <2>5
<1>8. (x \div 16) % 256 = (d % 128) * 2 + (l \div 16)
  <2>1. x \div 16 = 256 * q + (e * 2 + (l \div 16))
    BY <1>q, <1>e, <1>4 DEF Letter
  <2>2. d % 128 = e % 128
    BY <1>2, <1>e
  <2>3. l \div 16 \in 0..1
    BY DEF Letter
  <2>4. \A u \in Nat, f \in 0..127, g \in 0..1 :
           (256 * u + (f * 2 + g)) % 256 = (f % 128) * 2 + g
    OBVIOUS
  <2>5. (256 * q + (e * 2 + (l \div 16))) % 256 = (e % 128) * 2 + (l \div 16)
    BY <1>q, <1>e, <2>3, <2>4
  <2> QED
    BY <2>1, <2>2, <2>5
<1>9. x % 256 = (d % 8) * 32 + l
  <2>1. d % 8 = e % 8
    BY <1>2, <1>e
  <2> QED
    BY <1>q, <1>e, <1>4, <2>1 DEF Letter
<1> QED
  BY <1>5, <1>6, <1>7, <1>8, <1>9
LEMMA ByteLast ==
    ASSUME NEW a \in Nat, NEW b \in Byte, NEW x \in Nat, ByteAdded(x, a, b)
    PROVE  /\ x % 2 = b % 2
           /\ x % 4 = b % 4
           /\ x % 8 = b % 8
           /\ x % 16 = b % 16
           /\ x % 32 = b % 32
           /\ (x \div 2) % 32 = (b \div 2) % 32
           /\ (x \div 4) % 32 = (b \div 4) % 32
<1>1. x % 256 = b
  BY ByteIn
<1>2. x % 2 = b % 2 /\ x % 4 = b % 4 /\ x % 8 = b % 8
  BY <1>1
<1>3. x % 16 = b % 16 /\ x % 32 = b % 32
  BY <1>1
<1>4. (x \div 2) % 32 = (b \div 2) % 32
  BY <1>1
<1>5. (x \div 4) % 32 = (b \div 4) % 32
  BY <1>1
<1> QED
  BY <1>2, <1>3, <1>4, <1>5

LEMMA LetterLast ==
    ASSUME NEW d \in Nat, NEW l \in Letter, NEW x \in Nat, LetterAdded(x, d, l)
    PROVE  x % 2 = l % 2 /\ x % 4 = l % 4 /\ x % 8 = l % 8 /\ x % 16 = l % 16
<1>1. x % 256 = (d % 8) * 32 + l
  BY LetterIn
<1>2. x % 2 = l % 2 /\ x % 4 = l % 4
  BY <1>1 DEF Letter
<1>3. x % 8 = l % 8 /\ x % 16 = l % 16
  BY <1>1 DEF Letter
<1> QED
  BY <1>2, <1>3

LEMMA Powers ==
    /\ 2^0 = 1 /\ 2^1 = 2 /\ 2^2 = 4 /\ 2^3 = 8 /\ 2^4 = 16 /\ 2^5 = 32
    /\ 2^6 = 64 /\ 2^7 = 128 /\ 2^8 = 256
OBVIOUS

\* What the loop of z32_encode keeps between two bytes.
EncoderState(st) ==
    /\ st.acc \in Nat
    /\ st.bits \in 0..4
    /\ st.out \in Seq(Letter)

\* The letters that a byte completes, after r bits left over from before it.
NewLetters(a, r) ==
    CASE r = 0 -> <<(a \div 8) % 32>>
      [] r = 1 -> <<(a \div 16) % 32>>
      [] r = 2 -> <<(a \div 32) % 32, a % 32>>
      [] r = 3 -> <<(a \div 64) % 32, (a \div 2) % 32>>
      [] r = 4 -> <<(a \div 128) % 32, (a \div 4) % 32>>

LEMMA EncodeByteDoes ==
    ASSUME NEW st, EncoderState(st), NEW b \in Byte,
           NEW new, new = EncodeByte(st, b)
    PROVE  /\ new.acc \in Nat /\ ByteAdded(new.acc, st.acc, b)
           /\ new.bits = (st.bits + 8) % 5
           /\ new.out = st.out \o NewLetters(new.acc, st.bits)
<1> DEFINE a == (st.acc * 2^8 + b) % AccSize
           o(n) == [k \in 1..(n \div 5) |-> (a \div 2^(n - 5 * k)) % 32]
<1>1. /\ new.acc = a
      /\ new.bits = (st.bits + 8) % 5
      /\ new.out = st.out \o o(st.bits + 8)
  BY DEF EncodeByte
<1>2. a \in Nat /\ ByteAdded(a, st.acc, b)
  <2> DEFINE x == st.acc * 256 + b
  <2>1. a = x % AccSize
    BY Powers
  <2>2. x \in Nat
    <3>1. st.acc \in Nat /\ b \in Nat
      BY DEF EncoderState, Byte
    <3> QED
      BY <3>1
  <2> HIDE DEF x, a
  <2>3. a \in Nat /\ SameBits(a, x)
    BY <2>1, <2>2, LowBits
  <2> QED
    BY <2>3 DEF x, ByteAdded
<1> HIDE DEF a
<1>3. o(8) = <<(a \div 8) % 32>>
  <2>1. 8 \div 5 = 1 /\ 8 - 5 * 1 = 3
    OBVIOUS
  <2> QED
    BY <2>1, Powers
<1>4. o(9) = <<(a \div 16) % 32>>
  <2>1. 9 \div 5 = 1 /\ 9 - 5 * 1 = 4
    OBVIOUS
  <2> QED
    BY <2>1, Powers
<1>5. o(10) = <<(a \div 32) % 32, a % 32>>
  <2>1. 10 \div 5 = 2 /\ 10 - 5 * 1 = 5 /\ 10 - 5 * 2 = 0 /\ a \div 1 = a
    BY <1>2
  <2> QED
    BY <2>1, Powers
<1>6. o(11) = <<(a \div 64) % 32, (a \div 2) % 32>>
  <2>1. 11 \div 5 = 2 /\ 11 - 5 * 1 = 6 /\ 11 - 5 * 2 = 1
    OBVIOUS
  <2> QED
    BY <2>1, Powers
<1>7. o(12) = <<(a \div 128) % 32, (a \div 4) % 32>>
  <2>1. 12 \div 5 = 2 /\ 12 - 5 * 1 = 7 /\ 12 - 5 * 2 = 2
    OBVIOUS
  <2> QED
    BY <2>1, Powers
<1>8. o(st.bits + 8) = NewLetters(a, st.bits)
  <2> DEFINE r == st.bits
  <2>1. r \in 0..4
    BY DEF EncoderState
  <2> HIDE DEF r, o
  <2>2. o(r + 8) = NewLetters(a, r)
    <3>1. CASE r = 0
      <4>1. r + 8 = 8
        BY <3>1
      <4>2. NewLetters(a, r) = <<(a \div 8) % 32>>
        BY <3>1 DEF NewLetters
      <4> QED
        BY <4>1, <4>2, <1>3
    <3>2. CASE r = 1
      <4>1. r + 8 = 9
        BY <3>2
      <4>2. NewLetters(a, r) = <<(a \div 16) % 32>>
        BY <3>2 DEF NewLetters
      <4> QED
        BY <4>1, <4>2, <1>4
    <3>3. CASE r = 2
      <4>1. r + 8 = 10
        BY <3>3
      <4>2. NewLetters(a, r) = <<(a \div 32) % 32, a % 32>>
        BY <3>3 DEF NewLetters
      <4> QED
        BY <4>1, <4>2, <1>5
    <3>4. CASE r = 3
      <4>1. r + 8 = 11
        BY <3>4
      <4>2. NewLetters(a, r) = <<(a \div 64) % 32, (a \div 2) % 32>>
        BY <3>4 DEF NewLetters
      <4> QED
        BY <4>1, <4>2, <1>6
    <3>5. CASE r = 4
      <4>1. r + 8 = 12
        BY <3>5
      <4>2. NewLetters(a, r) = <<(a \div 128) % 32, (a \div 4) % 32>>
        BY <3>5 DEF NewLetters
      <4> QED
        BY <4>1, <4>2, <1>7
    <3>6. r = 0 \/ r = 1 \/ r = 2 \/ r = 3 \/ r = 4
      BY <2>1
    <3> QED
      BY <3>1, <3>2, <3>3, <3>4, <3>5, <3>6
  <2> QED
    BY <2>2 DEF r
<1> HIDE DEF o
<1> QED
  BY <1>1, <1>2, <1>8, Zenon

LEMMA NewLettersType ==
    ASSUME NEW a \in Nat, NEW r \in 0..4
    PROVE  NewLetters(a, r) \in Seq(Letter)
<1>1. \A n \in Nat \ {0} : (a \div n) % 32 \in Letter /\ a % 32 \in Letter
  BY DEF Letter
<1>2. \A l, m \in Letter : <<l>> \in Seq(Letter) /\ <<l, m>> \in Seq(Letter)
  OBVIOUS
<1>3. CASE r = 0
  BY <1>1, <1>2, <1>3 DEF NewLetters
<1>4. CASE r = 1
  BY <1>1, <1>2, <1>4 DEF NewLetters
<1>5. CASE r = 2
  BY <1>1, <1>2, <1>5 DEF NewLetters
<1>6. CASE r = 3
  BY <1>1, <1>2, <1>6 DEF NewLetters
<1>7. CASE r = 4
  BY <1>1, <1>2, <1>7 DEF NewLetters
<1> QED
  BY <1>3, <1>4, <1>5, <1>6, <1>7

LEMMA EncodeByteType ==
    ASSUME NEW st, EncoderState(st), NEW b \in Byte
    PROVE  EncoderState(EncodeByte(st, b))
<1> DEFINE new == EncodeByte(st, b)
<1>0. new = EncodeByte(st, b)
  OBVIOUS
<1> HIDE DEF new
<1>1. /\ new.acc \in Nat
      /\ new.bits = (st.bits + 8) % 5
      /\ new.out = st.out \o NewLetters(new.acc, st.bits)
  BY <1>0, EncodeByteDoes
<1>2. NewLetters(new.acc, st.bits) \in Seq(Letter)
  BY <1>1, NewLettersType DEF EncoderState
<1>3. new.out \in Seq(Letter)
  <2>1. \A s, t \in Seq(Letter) : s \o t \in Seq(Letter)
    OBVIOUS
  <2> QED
    BY <1>1, <1>2, <2>1 DEF EncoderState
<1>4. new.bits \in 0..4
  BY <1>1 DEF EncoderState
<1> QED
  BY <1>1, <1>3, <1>4 DEF EncoderState, new

\* What a letter does, by the number of bits left over from those before.
LEMMA DecodeLetterDoes ==
    ASSUME NEW st, st.acc \in Nat, st.bits \in 0..7, NEW l \in Letter,
           NEW new, new = DecodeLetter(st, l)
    PROVE  /\ new.acc \in Nat /\ LetterAdded(new.acc, st.acc, l)
           /\ st.bits < 3 => new.bits = st.bits + 5 /\ new.out = st.out
           /\ st.bits >= 3 => new.bits = st.bits - 3
           /\ st.bits = 3 => new.out = Append(st.out, new.acc % 256)
           /\ st.bits = 4 => new.out = Append(st.out, (new.acc \div 2) % 256)
           /\ st.bits = 5 => new.out = Append(st.out, (new.acc \div 4) % 256)
           /\ st.bits = 6 => new.out = Append(st.out, (new.acc \div 8) % 256)
           /\ st.bits = 7 => new.out = Append(st.out, (new.acc \div 16) % 256)
<1> DEFINE a == (st.acc * 2^5 + l) % AccSize
           q == st.bits
           o(n) == Append(st.out, (a \div 2^n) % 256)
<1>1. a \in Nat /\ LetterAdded(a, st.acc, l)
  <2> DEFINE x == st.acc * 32 + l
  <2>1. a = x % AccSize
    BY Powers
  <2>2. x \in Nat
    BY DEF Letter
  <2> HIDE DEF x, a
  <2>3. a \in Nat /\ SameBits(a, x)
    BY <2>1, <2>2, LowBits
  <2> QED
    BY <2>3 DEF x, LetterAdded
<1>2. q \in 0..7
  OBVIOUS
<1>3. /\ q + 5 < 8 => new = [acc |-> a, bits |-> q + 5, out |-> st.out]
      /\ ~(q + 5 < 8) =>
            new = [acc |-> a, bits |-> (q + 5) - 8, out |-> o((q + 5) - 8)]
  <2>1. CASE q + 5 < 8
    BY <2>1 DEF DecodeLetter
  <2>2. CASE ~(q + 5 < 8)
    BY <2>2 DEF DecodeLetter
  <2> QED
    BY <2>1, <2>2
<1> HIDE DEF a
<1>4. /\ o(0) = Append(st.out, a % 256)
      /\ o(1) = Append(st.out, (a \div 2) % 256)
      /\ o(2) = Append(st.out, (a \div 4) % 256)
      /\ o(3) = Append(st.out, (a \div 8) % 256)
      /\ o(4) = Append(st.out, (a \div 16) % 256)
  <2>1. a \div 1 = a
    BY <1>1
  <2> QED
    BY <2>1, Powers
<1> HIDE DEF o
<1>5. ASSUME q < 3
      PROVE  new.acc = a /\ new.bits = q + 5 /\ new.out = st.out
  BY <1>2, <1>3, <1>5
<1>6. ASSUME q >= 3
      PROVE  new.acc = a /\ new.bits = q - 3 /\ new.out = o(q - 3)
  <2>1. ~(q + 5 < 8) /\ (q + 5) - 8 = q - 3
    BY <1>2, <1>6
  <2> QED
    BY <1>3, <2>1
<1> HIDE DEF q
<1>7. new.acc = a
  BY <1>2, <1>5, <1>6
<1>8. /\ q = 3 => q >= 3 /\ q - 3 = 0
      /\ q = 4 => q >= 3 /\ q - 3 = 1
      /\ q = 5 => q >= 3 /\ q - 3 = 2
      /\ q = 6 => q >= 3 /\ q - 3 = 3
      /\ q = 7 => q >= 3 /\ q - 3 = 4
  BY <1>2
<1>9. /\ q = 3 => new.out = Append(st.out, new.acc % 256)
      /\ q = 4 => new.out = Append(st.out, (new.acc \div 2) % 256)
      /\ q = 5 => new.out = Append(st.out, (new.acc \div 4) % 256)
      /\ q = 6 => new.out = Append(st.out, (new.acc \div 8) % 256)
      /\ q = 7 => new.out = Append(st.out, (new.acc \div 16) % 256)
  <2>1. \A n : q >= 3 /\ q - 3 = n => new.out = o(n)
    BY <1>6, Zenon
  <2> QED
    BY <1>4, <1>7, <1>8, <2>1
<1> QED
  BY <1>1, <1>5, <1>6, <1>7, <1>9, Zenon DEF q

\* The first bits of y are the last of d, its other r bits the last of a.
Split(r, y, d, a) ==
    \/ r = 1 /\ y = (d % 128) * 2 + (a % 2)
    \/ r = 2 /\ y = (d % 64) * 4 + (a % 4)
    \/ r = 3 /\ y = (d % 32) * 8 + (a % 8)
    \/ r = 4 /\ y = (d % 16) * 16 + (a % 16)

\* How a byte that the encoder has not written yet in full is put together
\* again, by the number of its bits that are left over: from what the encoder
\* and the decoder have of it (a and d), when a byte b has been encoded in
\* between (x) and its letters decoded (z, then w).
LEMMA Joined0 ==
    ASSUME NEW a \in Nat, NEW b \in Byte, NEW d \in Nat,
           NEW x \in Nat, ByteAdded(x, a, b),
           NEW l, l = (x \div 8) % 32, NEW z \in Nat, LetterAdded(z, d, l)
    PROVE  Split(3, b, z, x)
<1>1. l \in Letter
  BY DEF Letter
<1>2. l = b \div 8 /\ x % 256 = b
  BY ByteIn
<1>3. z % 256 = (d % 8) * 32 + l
  BY <1>1, LetterIn
<1>4. x % 8 = b % 8
  BY ByteLast
<1>5. z % 32 = l
  BY <1>1, <1>3 DEF Letter
<1> QED
  BY <1>2, <1>4, <1>5 DEF Byte, Split, ByteAt

LEMMA Joined1 ==
    ASSUME NEW a \in Nat, NEW b \in Byte, NEW d \in Nat, NEW y \in Byte,
           NEW x \in Nat, ByteAdded(x, a, b),
           NEW l, l = (x \div 16) % 32, NEW z \in Nat, LetterAdded(z, d, l),
           Split(1, y, d, a)
    PROVE  ByteAt(z, 16) = y /\ Split(4, b, z, x)
<1>1. l \in Letter
  BY DEF Letter
<1>2. l = (a % 2) * 16 + (b \div 16) /\ x % 256 = b
  BY ByteIn
<1>3. z % 256 = (d % 8) * 32 + l
  BY <1>1, LetterIn
<1>z. (z \div 16) % 256 = (d % 128) * 2 + (l \div 16)
  BY <1>1, LetterIn
<1>4. x % 16 = b % 16
  BY ByteLast
<1>5. z % 16 = l % 16
  BY <1>1, LetterLast
<1>6. l \div 16 = a % 2 /\ l % 16 = b \div 16
  BY <1>2 DEF Byte
<1> QED
  BY <1>4, <1>5, <1>6, <1>z DEF Byte, Split, ByteAt

LEMMA Joined2 ==
    ASSUME NEW a \in Nat, NEW b \in Byte, NEW d \in Nat, NEW y \in Byte,
           NEW x \in Nat, ByteAdded(x, a, b),
           NEW l, l = LetterAt(x, 32), NEW z \in Nat, LetterAdded(z, d, l),
           NEW m, m = LetterAt(x, 1), NEW w \in Nat, LetterAdded(w, z, m),
           Split(2, y, d, a)
    PROVE  ByteAt(z, 8) = y /\ ByteAt(w, 1) = b
<1>1. l \in Letter /\ m \in Letter
  BY DEF Letter, LetterAt
<1>2. l = (a % 4) * 8 + (b \div 32) /\ x % 256 = b
  BY ByteIn DEF LetterAt
<1>3. m = b % 32
  BY ByteLast DEF LetterAt
<1>4. z % 256 = (d % 8) * 32 + l
  BY <1>1, LetterIn
<1>z. (z \div 8) % 256 = (d % 64) * 4 + (l \div 8)
  BY <1>1, LetterIn
<1>5. w % 256 = (z % 8) * 32 + m
  BY <1>1, LetterIn
<1>6. z % 8 = l % 8
  BY <1>1, LetterLast
<1>7. l \div 8 = a % 4 /\ l % 8 = b \div 32
  BY <1>2 DEF Byte
<1> QED
  BY <1>3, <1>5, <1>6, <1>7, <1>z DEF Byte, Split, ByteAt

LEMMA Joined3 ==
    ASSUME NEW a \in Nat, NEW b \in Byte, NEW d \in Nat, NEW y \in Byte,
           NEW x \in Nat, ByteAdded(x, a, b),
           NEW l, l = (x \div 64) % 32, NEW z \in Nat, LetterAdded(z, d, l),
           NEW m, m = (x \div 2) % 32, NEW w \in Nat, LetterAdded(w, z, m),
           Split(3, y, d, a)
    PROVE  ByteAt(z, 4) = y /\ Split(1, b, w, x)
<1>1. l \in Letter /\ m \in Letter
  BY DEF Letter
<1>2. l = (a % 8) * 4 + (b \div 64) /\ x % 256 = b
  BY ByteIn
<1>3. m = (b \div 2) % 32
  BY ByteLast
<1>y. x % 2 = b % 2
  BY ByteLast
<1>4. z % 256 = (d % 8) * 32 + l
  BY <1>1, LetterIn
<1>z. (z \div 4) % 256 = (d % 32) * 8 + (l \div 4)
  BY <1>1, LetterIn
<1>5. w % 256 = (z % 8) * 32 + m
  BY <1>1, LetterIn
<1>6. z % 4 = l % 4
  BY <1>1, LetterLast
<1>7. l \div 4 = a % 8 /\ l % 4 = b \div 64
  BY <1>2 DEF Byte
<1>8. w % 128 = (z % 4) * 32 + m
  BY <1>1, <1>5 DEF Letter
<1> QED
  BY <1>3, <1>6, <1>7, <1>8, <1>z, <1>y DEF Byte, Split, ByteAt

LEMMA Joined4 ==
    ASSUME NEW a \in Nat, NEW b \in Byte, NEW d \in Nat, NEW y \in Byte,
           NEW x \in Nat, ByteAdded(x, a, b),
           NEW l, l = (x \div 128) % 32, NEW z \in Nat, LetterAdded(z, d, l),
           NEW m, m = (x \div 4) % 32, NEW w \in Nat, LetterAdded(w, z, m),
           Split(4, y, d, a)
    PROVE  ByteAt(z, 2) = y /\ Split(2, b, w, x)
<1>1. l \in Letter /\ m \in Letter
  BY DEF Letter
<1>2. l = (a % 16) * 2 + (b \div 128) /\ x % 256 = b
  BY ByteIn
<1>3. m = (b \div 4) % 32
  BY ByteLast
<1>y. x % 4 = b % 4
  BY ByteLast
<1>4. z % 256 = (d % 8) * 32 + l
  BY <1>1, LetterIn
<1>z. (z \div 2) % 256 = (d % 16) * 16 + (l \div 2)
  BY <1>1, LetterIn
<1>5. w % 256 = (z % 8) * 32 + m
  BY <1>1, LetterIn
<1>6. z % 2 = l % 2
  BY <1>1, LetterLast
<1>7. l \div 2 = a % 16 /\ l % 2 = b \div 128
  BY <1>2 DEF Byte
<1>8. w % 64 = (z % 2) * 32 + m
  BY <1>1, <1>5 DEF Letter
<1> QED
  BY <1>3, <1>6, <1>7, <1>8, <1>z, <1>y DEF Byte, Split, ByteAt

\* The last letter holds what is left over, from the top.
LEMMA JoinedLast ==
    ASSUME NEW a \in Nat, NEW d \in Nat, NEW y \in Byte, NEW z \in Nat
    PROVE  /\ Split(1, y, d, a) /\ LetterAdded(z, d, (a * 16) % 32)
              => ByteAt(z, 16) = y
           /\ Split(2, y, d, a) /\ LetterAdded(z, d, (a * 8) % 32)
              => ByteAt(z, 8) = y
           /\ Split(3, y, d, a) /\ LetterAdded(z, d, (a * 4) % 32)
              => ByteAt(z, 4) = y
           /\ Split(4, y, d, a) /\ LetterAdded(z, d, (a * 2) % 32)
              => ByteAt(z, 2) = y
<1>1. \A n \in Nat : n % 32 \in Letter
  BY DEF Letter
<1>2. ASSUME Split(1, y, d, a), LetterAdded(z, d, (a * 16) % 32)
      PROVE  ByteAt(z, 16) = y
  <2> DEFINE l == (a * 16) % 32
  <2>0. l \in Letter
    BY <1>1
  <2>s. LetterAdded(z, d, l)
    BY <1>2
  <2> HIDE DEF l
  <2>1. (z \div 16) % 256 = (d % 128) * 2 + (l \div 16)
    BY <2>0, <2>s, LetterIn
  <2>2. l \div 16 = a % 2
    BY DEF l
  <2> QED
    BY <1>2, <2>1, <2>2 DEF Split, ByteAt
<1>3. ASSUME Split(2, y, d, a), LetterAdded(z, d, (a * 8) % 32)
      PROVE  ByteAt(z, 8) = y
  <2> DEFINE l == (a * 8) % 32
  <2>0. l \in Letter
    BY <1>1
  <2>s. LetterAdded(z, d, l)
    BY <1>3
  <2> HIDE DEF l
  <2>1. (z \div 8) % 256 = (d % 64) * 4 + (l \div 8)
    BY <2>0, <2>s, LetterIn
  <2>2. l \div 8 = a % 4
    BY DEF l
  <2> QED
    BY <1>3, <2>1, <2>2 DEF Split, ByteAt
<1>4. ASSUME Split(3, y, d, a), LetterAdded(z, d, (a * 4) % 32)
      PROVE  ByteAt(z, 4) = y
  <2> DEFINE l == (a * 4) % 32
  <2>0. l \in Letter
    BY <1>1
  <2>s. LetterAdded(z, d, l)
    BY <1>4
  <2> HIDE DEF l
  <2>1. (z \div 4) % 256 = (d % 32) * 8 + (l \div 4)
    BY <2>0, <2>s, LetterIn
  <2>2. l \div 4 = a % 8
    BY DEF l
  <2> QED
    BY <1>4, <2>1, <2>2 DEF Split, ByteAt
<1>5. ASSUME Split(4, y, d, a), LetterAdded(z, d, (a * 2) % 32)
      PROVE  ByteAt(z, 2) = y
  <2> DEFINE l == (a * 2) % 32
  <2>0. l \in Letter
    BY <1>1
  <2>s. LetterAdded(z, d, l)
    BY <1>5
  <2> HIDE DEF l
  <2>1. (z \div 2) % 256 = (d % 16) * 16 + (l \div 2)
    BY <2>0, <2>s, LetterIn
  <2>2. l \div 2 = a % 16
    BY DEF l
  <2> QED
    BY <1>5, <2>1, <2>2 DEF Split, ByteAt
<1> QED
  BY <1>2, <1>3, <1>4, <1>5

\* The same, one lemma for each number of bits left over.
LEMMA Letter0 ==
    ASSUME NEW st, NEW d \in Nat, st.acc = d, st.bits = 0, NEW l \in Letter,
           NEW new, new = DecodeLetter(st, l), NEW u, u = new.acc
    PROVE  u \in Nat /\ LetterAdded(u, d, l) /\ new.bits = 5 /\ new.out = st.out
BY DecodeLetterDoes DEF Put, ByteAt

LEMMA Letter1 ==
    ASSUME NEW st, NEW d \in Nat, st.acc = d, st.bits = 1, NEW l \in Letter,
           NEW new, new = DecodeLetter(st, l), NEW u, u = new.acc
    PROVE  u \in Nat /\ LetterAdded(u, d, l) /\ new.bits = 6 /\ new.out = st.out
BY DecodeLetterDoes DEF Put, ByteAt

LEMMA Letter2 ==
    ASSUME NEW st, NEW d \in Nat, st.acc = d, st.bits = 2, NEW l \in Letter,
           NEW new, new = DecodeLetter(st, l), NEW u, u = new.acc
    PROVE  u \in Nat /\ LetterAdded(u, d, l) /\ new.bits = 7 /\ new.out = st.out
BY DecodeLetterDoes DEF Put, ByteAt

LEMMA Letter3 ==
    ASSUME NEW st, NEW d \in Nat, st.acc = d, st.bits = 3, NEW l \in Letter,
           NEW new, new = DecodeLetter(st, l), NEW u, u = new.acc
    PROVE  u \in Nat /\ LetterAdded(u, d, l) /\ new.bits = 0 /\ new.out = Put(st.out, ByteAt(u, 1))
BY DecodeLetterDoes DEF Put, ByteAt

LEMMA Letter4 ==
    ASSUME NEW st, NEW d \in Nat, st.acc = d, st.bits = 4, NEW l \in Letter,
           NEW new, new = DecodeLetter(st, l), NEW u, u = new.acc
    PROVE  u \in Nat /\ LetterAdded(u, d, l) /\ new.bits = 1 /\ new.out = Put(st.out, ByteAt(u, 2))
BY DecodeLetterDoes DEF Put, ByteAt

LEMMA Letter5 ==
    ASSUME NEW st, NEW d \in Nat, st.acc = d, st.bits = 5, NEW l \in Letter,
           NEW new, new = DecodeLetter(st, l), NEW u, u = new.acc
    PROVE  u \in Nat /\ LetterAdded(u, d, l) /\ new.bits = 2 /\ new.out = Put(st.out, ByteAt(u, 4))
BY DecodeLetterDoes DEF Put, ByteAt

LEMMA Letter6 ==
    ASSUME NEW st, NEW d \in Nat, st.acc = d, st.bits = 6, NEW l \in Letter,
           NEW new, new = DecodeLetter(st, l), NEW u, u = new.acc
    PROVE  u \in Nat /\ LetterAdded(u, d, l) /\ new.bits = 3 /\ new.out = Put(st.out, ByteAt(u, 8))
BY DecodeLetterDoes DEF Put, ByteAt

LEMMA Letter7 ==
    ASSUME NEW st, NEW d \in Nat, st.acc = d, st.bits = 7, NEW l \in Letter,
           NEW new, new = DecodeLetter(st, l), NEW u, u = new.acc
    PROVE  u \in Nat /\ LetterAdded(u, d, l) /\ new.bits = 4 /\ new.out = Put(st.out, ByteAt(u, 16))
BY DecodeLetterDoes DEF Put, ByteAt


-----------------------------------------------------------------------------
(* The decoder goes in step with the encoder.                              *)

\* What has been read when n bytes have.
First(data, n) == SubSeq(data, 1, n)

\* After k bytes of the data, what the decoder has of them from the letters
\* that were written: all, or all but the last, whose first bits it has read
\* and whose other bits the encoder still keeps.
InStep(data, k, st, de) ==
    /\ de.acc \in Nat
    /\ st.bits = 0 => de.bits = 0 /\ de.out = First(data, k)
    /\ st.bits # 0 => /\ k # 0
                      /\ de.bits = 8 - st.bits
                      /\ de.out = First(data, k - 1)
                      /\ Split(st.bits, data[k], de.acc, st.acc)

LEMMA OneMore ==
    ASSUME NEW data \in Seq(Byte), NEW k \in 1..Len(data)
    PROVE  Put(First(data, k - 1), data[k]) = First(data, k)
BY DEF Put, First

LEMMA LetterOf ==
    ASSUME NEW x \in Nat
    PROVE  \A n \in Nat \ {0} : (x \div n) % 32 \in Letter /\ x % 32 \in Letter
BY DEF Letter

LEMMA ByteInStep ==
    ASSUME NEW data \in Seq(Byte), NEW k \in 0..(Len(data) - 1),
           NEW st, EncoderState(st),
           NEW new, new = EncodeByte(st, data[k + 1]),
           NEW L, L = NewLetters(new.acc, st.bits),
           NEW de, InStep(data, k, st, de),
           NEW z, z = DecodeLetter(de, L[1]),
           NEW w, w = DecodeLetter(z, L[2])
    PROVE  /\ Len(L) = 1 => InStep(data, k + 1, new, z)
           /\ Len(L) = 2 => InStep(data, k + 1, new, w)
           /\ Len(L) \in {1, 2}
<1> DEFINE b == data[k + 1]
           a == st.acc
           x == new.acc
           d == de.acc
           u == z.acc
           v == w.acc
<1>0. k \in Nat /\ k + 1 \in 1..Len(data) /\ (k + 1) - 1 = k /\ Len(data) \in Nat
  OBVIOUS
<1>1. b \in Byte
  BY <1>0
<1>2. a \in Nat /\ st.bits \in 0..4
  BY DEF EncoderState
<1>3. x \in Nat /\ ByteAdded(x, a, b)
  BY <1>1, EncodeByteDoes
<1>b. new.bits = (st.bits + 8) % 5
  BY <1>1, EncodeByteDoes
<1>4. d \in Nat /\ de.acc \in Nat
  BY DEF InStep
<1>5. k # 0 => /\ k \in 1..Len(data) /\ data[k] \in Byte
               /\ Put(First(data, k - 1), data[k]) = First(data, k)
  <2> SUFFICES ASSUME k # 0
               PROVE /\ k \in 1..Len(data) /\ data[k] \in Byte
                     /\ Put(First(data, k - 1), data[k]) = First(data, k)
    OBVIOUS
  <2>1. k \in 1..Len(data)
    BY <1>0
  <2> QED
    BY <2>1, OneMore
<1>6. Put(First(data, k), b) = First(data, k + 1)
  BY <1>0, OneMore
<1>7. \A n \in Nat \ {0} : (x \div n) % 32 \in Letter /\ x % 32 \in Letter
  <2> HIDE DEF x
  <2> QED
    BY <1>3, LetterOf
<1>8. CASE st.bits = 0
  <2>1. L = <<(x \div 8) % 32>> /\ new.bits = 3
    BY <1>b, <1>8 DEF NewLetters
  <2> DEFINE l == (x \div 8) % 32
  <2>2. L[1] = l /\ Len(L) = 1
    BY <2>1
  <2>3. l \in Letter
    BY <1>7
  <2> HIDE DEF l
  <2>4. de.out = First(data, k)
    BY <1>8 DEF InStep
  <2>b. de.bits = 0
    BY <1>8 DEF InStep
  <2>5. u \in Nat /\ LetterAdded(u, d, l) /\ z.bits = 5 /\ z.out = de.out
    <3>1. z = DecodeLetter(de, l) /\ de.acc = d /\ u = z.acc
      BY <2>2
    <3> HIDE DEF d, u
    <3> QED
      BY <1>4, <2>3, <2>b, <3>1, Letter0
  <2>6. Split(3, b, u, x)
    <3>2. l = (x \div 8) % 32
      BY DEF l
    <3> HIDE DEF b, a, x, d, u, v
    <3> QED
      BY <1>1, <1>2, <1>3, <1>4, <2>5, <3>2, Joined0
  <2>7. InStep(data, k + 1, new, z)
    BY <1>0, <2>1, <2>4, <2>5, <2>6 DEF InStep
  <2> QED
    BY <2>2, <2>7
<1>9. CASE st.bits = 1
  <2>1. L = <<(x \div 16) % 32>> /\ new.bits = 4
    BY <1>b, <1>9 DEF NewLetters
  <2> DEFINE l == (x \div 16) % 32
  <2>2. L[1] = l /\ Len(L) = 1
    BY <2>1
  <2>3. l \in Letter
    BY <1>7
  <2> HIDE DEF l
  <2>4. k # 0 /\ de.out = First(data, k - 1)
    BY <1>9 DEF InStep
  <2>b. de.bits = 7
    BY <1>9 DEF InStep
  <2>s. Split(1, data[k], d, a)
    BY <1>9 DEF InStep
  <2>5. /\ u \in Nat /\ LetterAdded(u, d, l)
        /\ z.bits = 4 /\ z.out = Put(de.out, ByteAt(u, 16))
    <3>1. z = DecodeLetter(de, l) /\ de.acc = d /\ u = z.acc
      BY <2>2
    <3> HIDE DEF d, u
    <3> QED
      BY <1>4, <2>3, <2>b, <3>1, Letter7
  <2>6. ByteAt(u, 16) = data[k] /\ Split(4, b, u, x)
    <3> DEFINE y == data[k]
    <3>1. y \in Byte
      BY <1>5, <2>4
    <3>2. l = (x \div 16) % 32
      BY DEF l
    <3>3. data[k] = y
      OBVIOUS
    <3> HIDE DEF b, a, x, d, u, v, y
    <3> QED
      BY <1>1, <1>2, <1>3, <1>4, <2>s, <2>5, <3>1, <3>2, <3>3, Joined1
  <2>7. InStep(data, k + 1, new, z)
    BY <1>0, <1>5, <2>1, <2>4, <2>5, <2>6 DEF InStep
  <2> QED
    BY <2>2, <2>7
<1>10. CASE st.bits = 2
  <2>1. L = <<(x \div 32) % 32, x % 32>> /\ new.bits = 0
    BY <1>b, <1>10 DEF NewLetters
  <2> DEFINE l == (x \div 32) % 32
             m == x % 32
  <2>2. L[1] = l /\ L[2] = m /\ Len(L) = 2
    BY <2>1
  <2>3. l \in Letter /\ m \in Letter
    BY <1>7
  <2> HIDE DEF l, m
  <2>4. k # 0 /\ de.out = First(data, k - 1)
    BY <1>10 DEF InStep
  <2>b. de.bits = 6
    BY <1>10 DEF InStep
  <2>s. Split(2, data[k], d, a)
    BY <1>10 DEF InStep
  <2>5. /\ u \in Nat /\ LetterAdded(u, d, l)
        /\ z.bits = 3 /\ z.out = Put(de.out, ByteAt(u, 8))
    <3>1. z = DecodeLetter(de, l) /\ de.acc = d /\ u = z.acc
      BY <2>2
    <3> HIDE DEF d, u
    <3> QED
      BY <1>4, <2>3, <2>b, <3>1, Letter6
  <2>6. /\ v \in Nat /\ LetterAdded(v, u, m)
        /\ w.bits = 0 /\ w.out = Put(z.out, ByteAt(v, 1))
    <3>1. w = DecodeLetter(z, m) /\ z.acc = u /\ v = w.acc
      BY <2>2
    <3> HIDE DEF u, v
    <3> QED
      BY <2>3, <2>5, <3>1, Letter3
  <2>7. ByteAt(u, 8) = data[k] /\ ByteAt(v, 1) = b
    <3> DEFINE y == data[k]
    <3>1. y \in Byte
      BY <1>5, <2>4
    <3>2. l = LetterAt(x, 32) /\ m = LetterAt(x, 1)
      BY <1>3 DEF l, m, LetterAt
    <3>3. data[k] = y
      OBVIOUS
    <3> HIDE DEF b, a, x, d, u, v, y
    <3>4. ByteAt(u, 8) = y
      BY <1>1, <1>2, <1>3, <1>4, <2>s, <2>5, <2>6, <3>1, <3>2, <3>3, Joined2
    <3>5. ByteAt(v, 1) = b
      BY <1>1, <1>2, <1>3, <1>4, <2>s, <2>5, <2>6, <3>1, <3>2, <3>3, Joined2
    <3> QED
      BY <3>3, <3>4, <3>5
  <2>8. InStep(data, k + 1, new, w)
    BY <1>0, <1>5, <1>6, <2>1, <2>4, <2>5, <2>6, <2>7 DEF InStep
  <2> QED
    BY <2>2, <2>8
<1>11. CASE st.bits = 3
  <2>1. L = <<(x \div 64) % 32, (x \div 2) % 32>> /\ new.bits = 1
    BY <1>b, <1>11 DEF NewLetters
  <2> DEFINE l == (x \div 64) % 32
             m == (x \div 2) % 32
  <2>2. L[1] = l /\ L[2] = m /\ Len(L) = 2
    BY <2>1
  <2>3. l \in Letter /\ m \in Letter
    BY <1>7
  <2> HIDE DEF l, m
  <2>4. k # 0 /\ de.out = First(data, k - 1)
    BY <1>11 DEF InStep
  <2>b. de.bits = 5
    BY <1>11 DEF InStep
  <2>s. Split(3, data[k], d, a)
    BY <1>11 DEF InStep
  <2>5. /\ u \in Nat /\ LetterAdded(u, d, l)
        /\ z.bits = 2 /\ z.out = Put(de.out, ByteAt(u, 4))
    <3>1. z = DecodeLetter(de, l) /\ de.acc = d /\ u = z.acc
      BY <2>2
    <3> HIDE DEF d, u
    <3> QED
      BY <1>4, <2>3, <2>b, <3>1, Letter5
  <2>6. /\ v \in Nat /\ LetterAdded(v, u, m)
        /\ w.bits = 7 /\ w.out = z.out
    <3>1. w = DecodeLetter(z, m) /\ z.acc = u /\ v = w.acc
      BY <2>2
    <3> HIDE DEF u, v
    <3> QED
      BY <2>3, <2>5, <3>1, Letter2
  <2>7. ByteAt(u, 4) = data[k] /\ Split(1, b, v, x)
    <3> DEFINE y == data[k]
    <3>1. y \in Byte
      BY <1>5, <2>4
    <3>2. l = (x \div 64) % 32 /\ m = (x \div 2) % 32
      BY DEF l, m
    <3>3. data[k] = y
      OBVIOUS
    <3> HIDE DEF b, a, x, d, u, v, y
    <3> QED
      BY <1>1, <1>2, <1>3, <1>4, <2>s, <2>5, <2>6, <3>1, <3>2, <3>3, Joined3
  <2>8. InStep(data, k + 1, new, w)
    BY <1>0, <1>5, <2>1, <2>4, <2>5, <2>6, <2>7 DEF InStep
  <2> QED
    BY <2>2, <2>8
<1>12. CASE st.bits = 4
  <2>1. L = <<(x \div 128) % 32, (x \div 4) % 32>> /\ new.bits = 2
    BY <1>b, <1>12 DEF NewLetters
  <2> DEFINE l == (x \div 128) % 32
             m == (x \div 4) % 32
  <2>2. L[1] = l /\ L[2] = m /\ Len(L) = 2
    BY <2>1
  <2>3. l \in Letter /\ m \in Letter
    BY <1>7
  <2> HIDE DEF l, m
  <2>4. k # 0 /\ de.out = First(data, k - 1)
    BY <1>12 DEF InStep
  <2>b. de.bits = 4
    BY <1>12 DEF InStep
  <2>s. Split(4, data[k], d, a)
    BY <1>12 DEF InStep
  <2>5. /\ u \in Nat /\ LetterAdded(u, d, l)
        /\ z.bits = 1 /\ z.out = Put(de.out, ByteAt(u, 2))
    <3>1. z = DecodeLetter(de, l) /\ de.acc = d /\ u = z.acc
      BY <2>2
    <3> HIDE DEF d, u
    <3> QED
      BY <1>4, <2>3, <2>b, <3>1, Letter4
  <2>6. /\ v \in Nat /\ LetterAdded(v, u, m)
        /\ w.bits = 6 /\ w.out = z.out
    <3>1. w = DecodeLetter(z, m) /\ z.acc = u /\ v = w.acc
      BY <2>2
    <3> HIDE DEF u, v
    <3> QED
      BY <2>3, <2>5, <3>1, Letter1
  <2>7. ByteAt(u, 2) = data[k] /\ Split(2, b, v, x)
    <3> DEFINE y == data[k]
    <3>1. y \in Byte
      BY <1>5, <2>4
    <3>2. l = (x \div 128) % 32 /\ m = (x \div 4) % 32
      BY DEF l, m
    <3>3. data[k] = y
      OBVIOUS
    <3> HIDE DEF b, a, x, d, u, v, y
    <3> QED
      BY <1>1, <1>2, <1>3, <1>4, <2>s, <2>5, <2>6, <3>1, <3>2, <3>3, Joined4
  <2>8. InStep(data, k + 1, new, w)
    BY <1>0, <1>5, <2>1, <2>4, <2>5, <2>6, <2>7 DEF InStep
  <2> QED
    BY <2>2, <2>8
<1> QED
  BY <1>2, <1>8, <1>9, <1>10, <1>11, <1>12

-----------------------------------------------------------------------------
(* The loops of the two, and what they do with what the other writes.      *)

LEMMA EncoderRun ==
    ASSUME NEW data \in Seq(Byte)
    PROVE  \E e : /\ e[0] = NoBits
                  /\ \A k \in 1..Len(data) : e[k] = EncodeByte(e[k - 1], data[k])
                  /\ Encoded(data) = e[Len(data)]
<1> DEFINE Def(f, m) == f = [k \in 0..m |-> IF k = 0 THEN NoBits
                                            ELSE EncodeByte(f[k - 1], data[k])]
           S == {m \in Nat : \E f : Def(f, m)}
<1>1. 0 \in S
  <2>1. Def([k \in 0..0 |-> NoBits], 0)
    OBVIOUS
  <2> QED
    BY <2>1
<1>2. ASSUME NEW m \in S PROVE m + 1 \in S
  <2>1. m \in Nat
    OBVIOUS
  <2>2. PICK f : Def(f, m)
    OBVIOUS
  <2> DEFINE g == [k \in 0..(m + 1) |-> IF k = 0 THEN NoBits
                                        ELSE EncodeByte(f[k - 1], data[k])]
  <2>3. \A k \in 0..m : g[k] = f[k]
    BY <2>1, <2>2
  <2>4. \A k \in 0..(m + 1) : k # 0 => k - 1 \in 0..m
    BY <2>1
  <2>5. Def(g, m + 1)
    BY <2>3, <2>4
  <2>6. m + 1 \in Nat
    BY <2>1
  <2> QED
    BY <2>5, <2>6
<1>3. S = Nat
  <2> HIDE DEF S
  <2>1. S \in SUBSET Nat
    BY DEF S
  <2> QED
    BY <1>1, <1>2, <2>1, Induction
<1> DEFINE n == Len(data)
           e == CHOOSE f : Def(f, n)
<1>4. n \in Nat
  OBVIOUS
<1>5. Def(e, n)
  <2>1. \E f : Def(f, n)
    BY <1>3, <1>4
  <2> HIDE DEF Def, n
  <2> QED
    BY <2>1
<1>6. Encoded(data) = e[n]
  BY DEF Encoded
<1> HIDE DEF e, n
<1>7. e[0] = NoBits /\ \A k \in 1..n : e[k] = EncodeByte(e[k - 1], data[k])
  BY <1>4, <1>5
<1> QED
  BY <1>6, <1>7 DEF n

LEMMA DecoderRun ==
    ASSUME NEW text \in Seq(Letter)
    PROVE  \E d : /\ d[0] = NoBits
                  /\ \A k \in 1..Len(text) : d[k] = DecodeLetter(d[k - 1], text[k])
                  /\ Decoded(text) = d[Len(text)]
<1> DEFINE Def(f, m) == f = [k \in 0..m |-> IF k = 0 THEN NoBits
                                            ELSE DecodeLetter(f[k - 1], text[k])]
           S == {m \in Nat : \E f : Def(f, m)}
<1>1. 0 \in S
  <2>1. Def([k \in 0..0 |-> NoBits], 0)
    OBVIOUS
  <2> QED
    BY <2>1
<1>2. ASSUME NEW m \in S PROVE m + 1 \in S
  <2>1. m \in Nat
    OBVIOUS
  <2>2. PICK f : Def(f, m)
    OBVIOUS
  <2> DEFINE g == [k \in 0..(m + 1) |-> IF k = 0 THEN NoBits
                                        ELSE DecodeLetter(f[k - 1], text[k])]
  <2>3. \A k \in 0..m : g[k] = f[k]
    BY <2>1, <2>2
  <2>4. \A k \in 0..(m + 1) : k # 0 => k - 1 \in 0..m
    BY <2>1
  <2>5. Def(g, m + 1)
    BY <2>3, <2>4
  <2>6. m + 1 \in Nat
    BY <2>1
  <2> QED
    BY <2>5, <2>6
<1>3. S = Nat
  <2> HIDE DEF S
  <2>1. S \in SUBSET Nat
    BY DEF S
  <2> QED
    BY <1>1, <1>2, <2>1, Induction
<1> DEFINE n == Len(text)
           d == CHOOSE f : Def(f, n)
<1>4. n \in Nat
  OBVIOUS
<1>5. Def(d, n)
  <2>1. \E f : Def(f, n)
    BY <1>3, <1>4
  <2> HIDE DEF Def, n
  <2> QED
    BY <2>1
<1>6. Decoded(text) = d[n]
  BY DEF Decoded
<1> HIDE DEF d, n
<1>7. d[0] = NoBits /\ \A k \in 1..n : d[k] = DecodeLetter(d[k - 1], text[k])
  BY <1>4, <1>5
<1> QED
  BY <1>6, <1>7 DEF n

\* A text begins with another one.
BeginsWith(t, s) == Len(s) <= Len(t) /\ \A i \in 1..Len(s) : t[i] = s[i]

LEMMA EncoderKeeps ==
    ASSUME NEW data \in Seq(Byte), NEW e, e[0] = NoBits,
           \A k \in 1..Len(data) : e[k] = EncodeByte(e[k - 1], data[k])
    PROVE  \A k \in 0..Len(data) :
              EncoderState(e[k]) /\ \A j \in 0..k : BeginsWith(e[k].out, e[j].out)
<1> DEFINE n == Len(data)
           Kept(k) == \A j \in 0..k : EncoderState(e[j]) /\ BeginsWith(e[k].out, e[j].out)
           S == {k \in Nat : k <= n => Kept(k)}
<1>0. n \in Nat
  OBVIOUS
<1>1. 0 \in S
  <2>1. EncoderState(e[0])
    BY DEF EncoderState, NoBits
  <2>2. BeginsWith(e[0].out, e[0].out)
    BY DEF BeginsWith, NoBits
  <2> QED
    BY <2>1, <2>2
<1>2. ASSUME NEW k \in S PROVE k + 1 \in S
  <2>1. k \in Nat /\ k + 1 \in Nat
    OBVIOUS
  <2> SUFFICES ASSUME k + 1 <= n
               PROVE  Kept(k + 1)
    BY <2>1
  <2>k. Kept(k)
    BY <1>0, <2>1
  <2>2. EncoderState(e[k])
    BY <2>1, <2>k
  <2>3. k + 1 \in 1..n /\ (k + 1) - 1 = k
    BY <1>0, <2>1
  <2>4. data[k + 1] \in Byte
    BY <2>3
  <2>5. e[k + 1] = EncodeByte(e[k], data[k + 1])
    BY <2>3
  <2>6. EncoderState(e[k + 1])
    BY <2>2, <2>4, <2>5, EncodeByteType
  <2> DEFINE L == NewLetters(e[k + 1].acc, e[k].bits)
  <2>7. e[k + 1].out = e[k].out \o L
    BY <2>2, <2>4, <2>5, EncodeByteDoes
  <2>8. L \in Seq(Letter)
    BY <2>2, <2>6, NewLettersType DEF EncoderState
  <2>9. BeginsWith(e[k + 1].out, e[k].out)
    <3> DEFINE s == e[k].out
    <3>1. s \in Seq(Letter)
      BY <2>2 DEF EncoderState
    <3> HIDE DEF L, s
    <3>2. BeginsWith(s \o L, s)
      BY <2>8, <3>1 DEF BeginsWith
    <3> QED
      BY <2>7, <3>2 DEF s
  <2>10. ASSUME NEW j \in 0..(k + 1)
         PROVE  EncoderState(e[j]) /\ BeginsWith(e[k + 1].out, e[j].out)
    <3>1. CASE j = k + 1
      <4>1. Len(e[k + 1].out) \in Nat
        BY <2>6 DEF EncoderState
      <4> QED
        BY <2>6, <3>1, <4>1 DEF BeginsWith
    <3>2. CASE j # k + 1
      <4>1. j \in 0..k
        BY <2>1, <3>2
      <4>2. EncoderState(e[j]) /\ BeginsWith(e[k].out, e[j].out)
        BY <2>k, <4>1
      <4> DEFINE s == e[j].out
                 t == e[k].out
                 u == e[k + 1].out
      <4>3. BeginsWith(t, s) /\ BeginsWith(u, t)
        BY <2>9, <4>2
      <4>4. Len(s) \in Nat /\ Len(t) \in Nat /\ Len(u) \in Nat
        BY <2>2, <2>6, <4>2 DEF EncoderState
      <4> HIDE DEF s, t, u
      <4>6. BeginsWith(u, s)
        BY <4>3, <4>4 DEF BeginsWith
      <4> QED
        BY <4>2, <4>6 DEF s, u
    <3> QED
      BY <3>1, <3>2
  <2> QED
    BY <2>10
<1>3. S = Nat
  <2> HIDE DEF S
  <2>1. S \in SUBSET Nat
    BY DEF S
  <2> QED
    BY <1>1, <1>2, <2>1, Induction
<1> QED
  BY <1>0, <1>3

LEMMA Z32EncodeType ==
    ASSUME NEW data \in Seq(Byte)
    PROVE  Z32Encode(data) \in Seq(Letter)
<1>1. PICK e : /\ e[0] = NoBits
               /\ \A k \in 1..Len(data) : e[k] = EncodeByte(e[k - 1], data[k])
               /\ Encoded(data) = e[Len(data)]
  BY EncoderRun
<1> DEFINE end == Encoded(data)
           l   == (end.acc * 2^(5 - end.bits)) % 32
<1>2. EncoderState(end)
  <2>1. Len(data) \in 0..Len(data)
    OBVIOUS
  <2> QED
    BY <1>1, <2>1, EncoderKeeps
<1>3. ASSUME end.bits > 0 PROVE l \in Letter
  <2>1. 5 - end.bits \in {1, 2, 3, 4}
    BY <1>2, <1>3 DEF EncoderState
  <2>2. 2^(5 - end.bits) \in {2, 4, 8, 16}
    BY <2>1, Powers
  <2> DEFINE a == end.acc
             p == 2^(5 - end.bits)
  <2>3. a \in Nat /\ p \in Nat
    BY <1>2, <2>2 DEF EncoderState
  <2> HIDE DEF a, p
  <2>n. \A k \in Nat : k % 32 \in Letter
    BY DEF Letter
  <2> DEFINE c == a * p
  <2>4. c \in Nat
    BY <2>3
  <2>5. c % 32 \in Letter
    <3> HIDE DEF c
    <3> QED
      BY <2>4, <2>n
  <2> QED
    BY <2>5 DEF a, p
<1> HIDE DEF l
<1>4. Z32Encode(data) = IF end.bits > 0 THEN Append(end.out, l) ELSE end.out
  BY DEF Z32Encode, l
<1>5. end.out \in Seq(Letter)
  BY <1>2 DEF EncoderState
<1> HIDE DEF end
<1>6. \A s \in Seq(Letter), c \in Letter : Append(s, c) \in Seq(Letter)
  OBVIOUS
<1> QED
  BY <1>3, <1>4, <1>5, <1>6

\* What is decoded of the text of some bytes is those bytes.
LEMMA TextDecoded ==
    ASSUME NEW data \in Seq(Byte)
    PROVE  Decoded(Z32Encode(data)).out = data
<1> DEFINE n == Len(data)
           T == Z32Encode(data)
<1>0. n \in Nat /\ T \in Seq(Letter) /\ Len(T) \in Nat
  BY Z32EncodeType
<1>1. PICK e : /\ e[0] = NoBits
               /\ \A k \in 1..n : e[k] = EncodeByte(e[k - 1], data[k])
               /\ Encoded(data) = e[n]
  BY EncoderRun
<1>2. PICK d : /\ d[0] = NoBits
               /\ \A k \in 1..Len(T) : d[k] = DecodeLetter(d[k - 1], T[k])
               /\ Decoded(T) = d[Len(T)]
  <2> HIDE DEF T
  <2> QED
    BY <1>0, DecoderRun
<1>3. \A k \in 0..n : EncoderState(e[k]) /\ \A j \in 0..k : BeginsWith(e[k].out, e[j].out)
  BY <1>1, EncoderKeeps
<1>4. n \in 0..n
  BY <1>0
<1> DEFINE a == e[n].acc
           r == e[n].bits
           l == (a * 2^(5 - r)) % 32
<1>5. T = IF r > 0 THEN Append(e[n].out, l) ELSE e[n].out
  BY <1>1 DEF Z32Encode
<1>6. EncoderState(e[n])
  BY <1>3, <1>4
<1> HIDE DEF T, l
<1>7. BeginsWith(T, e[n].out)
  <2> DEFINE s == e[n].out
  <2>1. s \in Seq(Letter)
    BY <1>6 DEF EncoderState
  <2> HIDE DEF s
  <2>2. BeginsWith(Append(s, l), s) /\ BeginsWith(s, s)
    BY <2>1 DEF BeginsWith
  <2> QED
    BY <1>5, <2>2 DEF s
<1>8. \A k \in 0..n : BeginsWith(T, e[k].out)
  <2> TAKE k \in 0..n
  <2> DEFINE s == e[k].out
             t == e[n].out
  <2>1. BeginsWith(t, s) /\ BeginsWith(T, t)
    BY <1>3, <1>4, <1>7
  <2>2. Len(s) \in Nat /\ Len(t) \in Nat
    BY <1>3, <1>6 DEF EncoderState
  <2> HIDE DEF s, t
  <2>3. BeginsWith(T, s)
    BY <1>0, <2>1, <2>2 DEF BeginsWith
  <2> QED
    BY <2>3 DEF s
<1> DEFINE P(k) == InStep(data, k, e[k], d[Len(e[k].out)])
           S == {k \in Nat : k <= n => P(k)}
<1>9. 0 \in S
  <2>1. e[0].out = <<>> /\ Len(e[0].out) = 0 /\ d[0].out = <<>>
    BY <1>1, <1>2 DEF NoBits
  <2>2. e[0].bits = 0 /\ d[0].bits = 0 /\ d[0].acc \in Nat
    BY <1>1, <1>2 DEF NoBits
  <2>3. First(data, 0) = <<>>
    BY DEF First
  <2>4. P(0)
    BY <2>1, <2>2, <2>3 DEF InStep
  <2> QED
    BY <2>4
<1>10. ASSUME NEW k \in S PROVE k + 1 \in S
  <2>1. k \in Nat /\ k + 1 \in Nat
    OBVIOUS
  <2> SUFFICES ASSUME k + 1 <= n PROVE P(k + 1)
    BY <2>1
  <2>2. k \in 0..(n - 1) /\ k \in 0..n /\ k + 1 \in 0..n /\ k + 1 \in 1..n /\ (k + 1) - 1 = k
    BY <1>0, <2>1
  <2>3. P(k)
    BY <2>2
  <2> DEFINE st  == e[k]
             new == e[k + 1]
             L   == NewLetters(new.acc, st.bits)
             m   == Len(st.out)
             de  == d[m]
             z   == DecodeLetter(de, L[1])
             w   == DecodeLetter(z, L[2])
  <2>4. EncoderState(st) /\ EncoderState(new) /\ data[k + 1] \in Byte
    BY <1>3, <2>2
  <2>5. new = EncodeByte(st, data[k + 1])
    BY <1>1, <2>2
  <2>6. /\ Len(L) = 1 => InStep(data, k + 1, new, z)
        /\ Len(L) = 2 => InStep(data, k + 1, new, w)
        /\ Len(L) \in {1, 2}
    <3> HIDE DEF st, new, L, de, z, w
    <3>1. L = NewLetters(new.acc, st.bits) /\ z = DecodeLetter(de, L[1]) /\ w = DecodeLetter(z, L[2])
      BY DEF L, z, w
    <3>2. InStep(data, k, st, de)
      BY <2>3 DEF st, de
    <3> QED
      BY <2>2, <2>4, <2>5, <3>1, <3>2, ByteInStep
  <2>7. new.out = st.out \o L
    BY <2>4, <2>5, EncodeByteDoes
  <2>8. L \in Seq(Letter)
    BY <2>4, NewLettersType DEF EncoderState
  <2>9. BeginsWith(T, new.out)
    BY <1>8, <2>2
  <2>10. st.out \in Seq(Letter) /\ m \in Nat
    BY <2>4 DEF EncoderState
  <2>11. /\ Len(new.out) = m + Len(L) /\ m + Len(L) <= Len(T)
         /\ \A i \in 1..Len(L) : T[m + i] = L[i]
    <3> DEFINE s == st.out
               u == new.out
    <3>1. u = s \o L /\ m = Len(s) /\ s \in Seq(Letter) /\ BeginsWith(T, u)
      BY <2>7, <2>9, <2>10
    <3> HIDE DEF s, u, L, m
    <3>2. Len(u) = m + Len(L) /\ \A i \in 1..Len(L) : u[m + i] = L[i]
      BY <2>8, <3>1
    <3>3. \A i \in 1..Len(L) : m + i \in 1..Len(u)
      BY <2>8, <2>10, <3>2
    <3> QED
      BY <3>1, <3>2, <3>3 DEF BeginsWith, u
  <2>12. CASE Len(L) = 1
    <3>1. m + 1 \in 1..Len(T) /\ (m + 1) - 1 = m
      BY <1>0, <2>10, <2>11, <2>12
    <3>2. T[m + 1] = L[1]
      BY <2>11, <2>12
    <3>3. d[m + 1] = z
      BY <1>2, <3>1, <3>2
    <3> QED
      BY <2>6, <2>11, <2>12, <3>3
  <2>13. CASE Len(L) = 2
    <3>1. /\ m + 1 \in 1..Len(T) /\ (m + 1) - 1 = m
          /\ m + 2 \in 1..Len(T) /\ (m + 2) - 1 = m + 1
      BY <1>0, <2>10, <2>11, <2>13
    <3>2. T[m + 1] = L[1] /\ T[m + 2] = L[2]
      BY <2>11, <2>13
    <3>3. d[m + 1] = z
      BY <1>2, <3>1, <3>2
    <3>4. d[m + 2] = w
      BY <1>2, <3>1, <3>2, <3>3
    <3> QED
      BY <2>6, <2>11, <2>13, <3>4
  <2> QED
    BY <2>6, <2>12, <2>13
<1>11. S = Nat
  <2> HIDE DEF S
  <2>1. S \in SUBSET Nat
    BY DEF S
  <2> QED
    BY <1>9, <1>10, <2>1, Induction
<1>12. P(n)
  BY <1>0, <1>11
<1>13. First(data, n) = data
  BY DEF First
<1>14. CASE r = 0
  <2>1. T = e[n].out
    BY <1>5, <1>14
  <2> QED
    BY <1>2, <1>12, <1>13, <1>14, <2>1 DEF InStep, T
<1>15. CASE r # 0
  <2> DEFINE m  == Len(e[n].out)
             de == d[m]
             q  == de.acc
             z  == d[m + 1]
             u  == z.acc
             y  == data[n]
  <2>1. r \in {1, 2, 3, 4} /\ a \in Nat /\ e[n].out \in Seq(Letter)
    BY <1>6, <1>15 DEF EncoderState
  <2>2. T = Append(e[n].out, l)
    BY <1>5, <2>1
  <2>3. Len(T) = m + 1 /\ T[m + 1] = l /\ m \in Nat
    BY <2>1, <2>2
  <2>4. l \in Letter
    BY <1>0, <2>3
  <2>5. z = DecodeLetter(de, l)
    <3>1. m + 1 \in 1..Len(T) /\ (m + 1) - 1 = m
      BY <2>3
    <3> QED
      BY <1>2, <2>3, <3>1
  <2>6. n # 0 /\ de.out = First(data, n - 1)
    BY <1>12, <1>15 DEF InStep
  <2>7. de.bits = 8 - r
    BY <1>12, <1>15 DEF InStep
  <2>8. q \in Nat /\ Split(r, y, q, a)
    BY <1>12, <1>15 DEF InStep
  <2>9. n \in 1..Len(data)
    BY <1>0, <2>6
  <2>10. y \in Byte
    BY <2>9
  <2>11. Put(de.out, y) = data
    BY <1>13, <2>6, <2>9, OneMore
  <2>e. de.acc = q /\ u = z.acc
    OBVIOUS
  <2> HIDE DEF a, q, u, y
  <2>12. z.out = Put(de.out, y)
    <3>1. CASE r = 1
      <4>1. 5 - r = 4 /\ de.bits = 7
        BY <2>7, <3>1
      <4>2. l = (a * 16) % 32
        BY <4>1, Powers DEF l
      <4>3. u \in Nat /\ LetterAdded(u, q, l) /\ z.out = Put(de.out, ByteAt(u, 16))
        BY <2>4, <2>5, <2>8, <2>e, <4>1, Letter7
      <4>4. ByteAt(u, 16) = y
        BY <2>1, <2>8, <2>10, <3>1, <4>2, <4>3, JoinedLast
      <4> QED
        BY <4>3, <4>4
    <3>2. CASE r = 2
      <4>1. 5 - r = 3 /\ de.bits = 6
        BY <2>7, <3>2
      <4>2. l = (a * 8) % 32
        BY <4>1, Powers DEF l
      <4>3. u \in Nat /\ LetterAdded(u, q, l) /\ z.out = Put(de.out, ByteAt(u, 8))
        BY <2>4, <2>5, <2>8, <2>e, <4>1, Letter6
      <4>4. ByteAt(u, 8) = y
        BY <2>1, <2>8, <2>10, <3>2, <4>2, <4>3, JoinedLast
      <4> QED
        BY <4>3, <4>4
    <3>3. CASE r = 3
      <4>1. 5 - r = 2 /\ de.bits = 5
        BY <2>7, <3>3
      <4>2. l = (a * 4) % 32
        BY <4>1, Powers DEF l
      <4>3. u \in Nat /\ LetterAdded(u, q, l) /\ z.out = Put(de.out, ByteAt(u, 4))
        BY <2>4, <2>5, <2>8, <2>e, <4>1, Letter5
      <4>4. ByteAt(u, 4) = y
        BY <2>1, <2>8, <2>10, <3>3, <4>2, <4>3, JoinedLast
      <4> QED
        BY <4>3, <4>4
    <3>4. CASE r = 4
      <4>1. 5 - r = 1 /\ de.bits = 4
        BY <2>7, <3>4
      <4>2. l = (a * 2) % 32
        BY <4>1, Powers DEF l
      <4>3. u \in Nat /\ LetterAdded(u, q, l) /\ z.out = Put(de.out, ByteAt(u, 2))
        BY <2>4, <2>5, <2>8, <2>e, <4>1, Letter4
      <4>4. ByteAt(u, 2) = y
        BY <2>1, <2>8, <2>10, <3>4, <4>2, <4>3, JoinedLast
      <4> QED
        BY <4>3, <4>4
    <3> QED
      BY <2>1, <3>1, <3>2, <3>3, <3>4
  <2>13. Decoded(T) = z
    BY <1>2, <2>3
  <2> QED
    BY <2>11, <2>12, <2>13 DEF T
<1> QED
  BY <1>14, <1>15

\* z32_decode reads the bytes that z32_encode wrote, however many they are and
\* wherever the last letter is cut, although both keep their bits in an
\* accumulator that wraps around (keys.cpp:27-64).
THEOREM Z32RoundTrip ==
    ASSUME NEW data \in Seq(Byte)
    PROVE  Z32Decode(Z32Encode(data)) = {data}
<1> DEFINE text == Z32Encode(data)
<1>1. text \in Seq(Letter) /\ Decoded(text).out = data
  BY Z32EncodeType, TextDecoded
<1>2. text \notin Chosen
  BY <1>1, KeysAssumption DEF KeysAssumption
<1> HIDE DEF text
<1>3. Z32Decode(text) = {data}
  BY <1>1, <1>2 DEF Z32Decode
<1> QED
  BY <1>3 DEF text

\* from_hex reads the bytes that to_hex wrote: the seed that derive writes
\* down is the seed the server takes (keys.cpp:73-94; holesail.cpp:86;
\* server.cpp:111-114).
THEOREM HexRoundTrip ==
    ASSUME NEW data \in Seq(Byte)
    PROVE  FromHex(ToHex(data)) = {data}
<1> DEFINE n == Len(data)
           h == ToHex(data)
<1>1. n \in Nat
  OBVIOUS
<1>2. h = [k \in 1..(2 * n) |-> IF k % 2 = 1 THEN data[(k + 1) \div 2] \div 16
                                             ELSE data[k \div 2] % 16]
  BY DEF ToHex
<1> HIDE DEF h
<1>3. Len(h) = 2 * n
  <2>1. 2 * n \in Nat /\ DOMAIN h = 1..(2 * n)
    BY <1>1, <1>2
  <2>2. h \in Seq({h[k] : k \in 1..(2 * n)})
    <3>1. h \in [1..(2 * n) -> {h[k] : k \in 1..(2 * n)}]
      BY <1>2, <2>1
    <3> QED
      BY <2>1, <3>1
  <2> QED
    BY <2>1, <2>2
<1>4. (2 * n) % 2 = 0 /\ (2 * n) \div 2 = n
  BY <1>1
<1>5. ASSUME NEW k \in 1..n
      PROVE  h[2 * k - 1] * 16 + h[2 * k] = data[k]
  <2>1. /\ 2 * k \in 1..(2 * n) /\ 2 * k - 1 \in 1..(2 * n)
        /\ (2 * k - 1) % 2 = 1 /\ (2 * k) % 2 = 0
        /\ ((2 * k - 1) + 1) \div 2 = k /\ (2 * k) \div 2 = k
    BY <1>1
  <2>2. h[2 * k - 1] = data[k] \div 16 /\ h[2 * k] = data[k] % 16
    BY <1>2, <2>1
  <2>3. data[k] \in 0..255
    <3>1. data[k] \in Byte
      OBVIOUS
    <3> QED
      BY <3>1 DEF Byte
  <2>4. \A b \in 0..255 : (b \div 16) * 16 + (b % 16) = b
    OBVIOUS
  <2> QED
    BY <2>2, <2>3, <2>4
<1>6. FromHex(h) = {[k \in 1..n |-> h[2 * k - 1] * 16 + h[2 * k]]}
  BY <1>3, <1>4 DEF FromHex
<1>7. [k \in 1..n |-> h[2 * k - 1] * 16 + h[2 * k]] = data
  BY <1>1, <1>5
<1> QED
  BY <1>6, <1>7 DEF h

LEMMA RawKeyFacts ==
    ASSUME NEW raw \in RawKeys
    PROVE  /\ raw \in Seq(Byte) /\ Len(raw) = KeyBytes /\ raw # <<>>
           /\ Z32Encode(raw) \in Seq(Letter) \ {<<>>}
           /\ Z32Encode(raw) \notin Chosen
           /\ {r \in Z32Decode(Z32Encode(raw)) : Len(r) = KeyBytes} = {raw}
<1>0. KeyBytes \in Nat \ {0} /\ \A k \in Chosen : k \notin Seq(Letter)
  BY KeysAssumption DEF KeysAssumption
<1>1. raw \in Seq(Byte) /\ Len(raw) = KeyBytes /\ raw # <<>>
  BY <1>0 DEF RawKeys
<1> DEFINE text == Z32Encode(raw)
<1>2. text \in Seq(Letter) /\ Decoded(text).out = raw
  BY <1>1, Z32EncodeType, TextDecoded
<1>3. text \notin Chosen
  BY <1>0, <1>2
<1>4. Z32Decode(text) = {raw}
  BY <1>2, <1>3 DEF Z32Decode
<1>5. text # <<>>
  <2>1. <<>> \in Seq(Byte) /\ <<>> \in Seq(Letter) /\ Len(<<>>) = 0
    OBVIOUS
  <2>2. PICK d : d[0] = NoBits /\ Decoded(<<>>) = d[Len(<<>>)]
    BY <2>1, DecoderRun
  <2>3. Decoded(<<>>).out = <<>>
    BY <2>1, <2>2 DEF NoBits
  <2> QED
    BY <1>1, <1>2, <2>3
<1> HIDE DEF text
<1> QED
  BY <1>1, <1>2, <1>3, <1>4, <1>5 DEF text

\* A digest and a public key are bytes, whosever they are.
LEMMA DigestType ==
    ASSUME NEW key
    PROVE  Sha256(key) \in RawKeys /\ KeyPair(key) \in RawKeys
<1>1. /\ Digest \in [Chosen -> RawKeys]
      /\ PublicKey \in [DOMAIN PublicKey -> RawKeys]
      /\ Nobody \in RawKeys
  BY KeysAssumption DEF KeysAssumption
<1> QED
  BY <1>1 DEF Sha256, KeyPair

-----------------------------------------------------------------------------
(* The record: what it writes of a host is read again.                     *)

\* What read_string makes of the text from j on, when f is what it makes of
\* the text from each later place on.
ReadBody(s, f, j) ==
    IF j > Len(s) THEN [text |-> <<>>, next |-> 0]
    ELSE IF s[j] = Quote THEN [text |-> <<>>, next |-> j + 1]
    ELSE IF s[j] # Backslash
         THEN [text |-> <<s[j]>> \o f[j + 1].text, next |-> f[j + 1].next]
    ELSE IF j = Len(s) THEN [text |-> <<>>, next |-> 0]
    ELSE IF s[j + 1] \in DOMAIN UnescapeLetter
         THEN [text |-> <<UnescapeLetter[s[j + 1]]>> \o f[j + 2].text,
               next |-> f[j + 2].next]
    ELSE IF s[j + 1] = "u" /\ j + 5 <= Len(s)
         THEN [text |-> <<CodePoint(<<s[j + 2], s[j + 3], s[j + 4], s[j + 5]>>)>> \o f[j + 6].text,
               next |-> f[j + 6].next]
    ELSE [text |-> <<>>, next |-> 0]

LEMMA ReadBodyLater ==
    ASSUME NEW s, Len(s) \in Nat, NEW f, NEW g, NEW j \in 1..(Len(s) + 7),
           j <= Len(s) => f[j + 1] = g[j + 1] /\ f[j + 2] = g[j + 2] /\ f[j + 6] = g[j + 6]
    PROVE  ReadBody(s, f, j) = ReadBody(s, g, j)
<1>1. CASE j > Len(s)
  BY <1>1 DEF ReadBody
<1>2. CASE j <= Len(s)
  BY <1>2, Zenon DEF ReadBody
<1> QED
  BY <1>1, <1>2

LEMMA ReaderDefined ==
    ASSUME NEW s, Len(s) \in Nat
    PROVE  \E f : /\ \A j \in 1..(Len(s) + 7) : f[j] = ReadBody(s, f, j)
                  /\ \A i : ReadString(s, i) = IF i <= Len(s) /\ s[i] = Quote THEN f[i + 1]
                                               ELSE [text |-> <<>>, next |-> 0]
<1> DEFINE l == Len(s)
           Def(f) == f = [j \in 1..(l + 7) |-> ReadBody(s, f, j)]
           From(f, m) == \A j \in 1..(l + 7) : j > l - m => f[j] = ReadBody(s, f, j)
           S == {m \in Nat : m <= l => \E f : f = [j \in 1..(l + 7) |-> f[j]] /\ From(f, m)}
<1>1. 0 \in S
  <2> DEFINE f == [j \in 1..(l + 7) |-> [text |-> <<>>, next |-> 0]]
  <2>1. \A j \in 1..(l + 7) : j > l => ReadBody(s, f, j) = [text |-> <<>>, next |-> 0]
    BY DEF ReadBody
  <2>2. f = [j \in 1..(l + 7) |-> f[j]] /\ From(f, 0)
    BY <2>1
  <2> QED
    BY <2>2
<1>2. ASSUME NEW m \in S PROVE m + 1 \in S
  <2>1. m \in Nat /\ m + 1 \in Nat
    OBVIOUS
  <2> SUFFICES ASSUME m + 1 <= l
               PROVE  \E f : f = [j \in 1..(l + 7) |-> f[j]] /\ From(f, m + 1)
    BY <2>1
  <2>2. PICK f : f = [j \in 1..(l + 7) |-> f[j]] /\ From(f, m)
    BY <2>1
  <2> DEFINE g == [j \in 1..(l + 7) |-> IF j = l - m THEN ReadBody(s, f, j) ELSE f[j]]
  <2>3. g = [j \in 1..(l + 7) |-> g[j]]
    OBVIOUS
  <2>4. \A j \in 1..(l + 7) : j > l - m => g[j] = f[j]
    BY <2>1
  <2>5. l - m \in 1..(l + 7) /\ g[l - m] = ReadBody(s, f, l - m)
    BY <2>1
  <2>6. \A j \in 1..(l + 7) : j > l - (m + 1) => j = l - m \/ j > l - m
    BY <2>1
  <2> HIDE DEF g
  <2>7. ASSUME NEW j \in 1..(l + 7), j > l - (m + 1)
        PROVE  ReadBody(s, f, j) = ReadBody(s, g, j)
    <3>1. j <= l => /\ j + 1 \in 1..(l + 7) /\ j + 1 > l - m
                    /\ j + 2 \in 1..(l + 7) /\ j + 2 > l - m
                    /\ j + 6 \in 1..(l + 7) /\ j + 6 > l - m
      BY <2>1, <2>7
    <3>2. j <= l => f[j + 1] = g[j + 1] /\ f[j + 2] = g[j + 2] /\ f[j + 6] = g[j + 6]
      BY <2>4, <3>1
    <3> QED
      BY <3>2, ReadBodyLater
  <2>8. From(g, m + 1)
    <3> SUFFICES ASSUME NEW j \in 1..(l + 7), j > l - (m + 1)
                 PROVE  g[j] = ReadBody(s, g, j)
      OBVIOUS
    <3>1. CASE j = l - m
      BY <2>5, <2>7, <3>1
    <3>2. CASE j > l - m
      BY <2>2, <2>4, <2>7, <3>2
    <3> QED
      BY <2>6, <3>1, <3>2
  <2> QED
    BY <2>3, <2>8
<1>3. S = Nat
  <2> HIDE DEF S
  <2>1. S \in SUBSET Nat
    BY DEF S
  <2> QED
    BY <1>1, <1>2, <2>1, Induction
<1>4. \E f : Def(f)
  <2>1. l \in S
    BY <1>3
  <2>2. PICK f : f = [j \in 1..(l + 7) |-> f[j]] /\ From(f, l)
    BY <2>1
  <2>3. \A j \in 1..(l + 7) : j > l - l
    OBVIOUS
  <2>4. \A j \in 1..(l + 7) : f[j] = ReadBody(s, f, j)
    BY <2>2, <2>3
  <2>5. Def(f)
    BY <2>2, <2>4
  <2> QED
    BY <2>5
<1> DEFINE h == CHOOSE f : Def(f)
<1>5. Def(h)
  <2> HIDE DEF Def
  <2> QED
    BY <1>4
<1>6. \A i : ReadString(s, i) = IF i <= Len(s) /\ s[i] = Quote THEN h[i + 1]
                                ELSE [text |-> <<>>, next |-> 0]
  BY DEF ReadString, ReadBody
<1> HIDE DEF h
<1>7. \A j \in 1..(l + 7) : h[j] = ReadBody(s, h, j)
  BY <1>5
<1> QED
  BY <1>6, <1>7

LEMMA ReadBodyNext ==
    ASSUME NEW s, Len(s) \in Nat, NEW f, NEW j \in 1..(Len(s) + 7),
           NEW n, n = ReadBody(s, f, j).next
    PROVE  /\ j > Len(s) => n = 0
           /\ j <= Len(s) => \/ n = 0 \/ n = j + 1 \/ n = f[j + 1].next
                            \/ n = f[j + 2].next \/ n = f[j + 6].next
<1>1. CASE j > Len(s)
  BY <1>1 DEF ReadBody
<1>2. CASE j <= Len(s) /\ (s[j] = Quote \/ s[j] # Backslash)
  BY <1>2 DEF ReadBody
<1>3. CASE j <= Len(s) /\ ~(s[j] = Quote \/ s[j] # Backslash)
  <2> DEFINE Bad == [text |-> <<>>, next |-> 0]
             A == s[j + 1] \in DOMAIN UnescapeLetter
             B == s[j + 1] = "u" /\ j + 5 <= Len(s)
             x == [text |-> <<UnescapeLetter[s[j + 1]]>> \o f[j + 2].text,
                   next |-> f[j + 2].next]
             y == [text |-> <<CodePoint(<<s[j + 2], s[j + 3], s[j + 4], s[j + 5]>>)>> \o f[j + 6].text,
                   next |-> f[j + 6].next]
  <2>1. ReadBody(s, f, j) = IF j = Len(s) THEN Bad ELSE IF A THEN x ELSE IF B THEN y ELSE Bad
    <3>1. ~(j > Len(s)) /\ s[j] # Quote /\ ~(s[j] # Backslash)
      BY <1>3
    <3> QED
      BY <3>1, Zenon DEF ReadBody
  <2>2. Bad.next = 0 /\ x.next = f[j + 2].next /\ y.next = f[j + 6].next
    OBVIOUS
  <2> HIDE DEF Bad, A, B, x, y
  <2>3. n = 0 \/ n = f[j + 2].next \/ n = f[j + 6].next
    BY <2>1, <2>2
  <2> QED
    BY <1>3, <2>3
<1> QED
  BY <1>1, <1>2, <1>3

\* Reading goes forward, and not beyond the end.
LEMMA ReadForward ==
    ASSUME NEW s, Len(s) \in Nat, NEW i \in Nat
    PROVE  LET r == ReadString(s, i)
           IN  r.next = 0 \/ r.next \in (i + 2)..(Len(s) + 1)
<1> DEFINE l == Len(s)
<1>1. PICK f : /\ \A j \in 1..(l + 7) : f[j] = ReadBody(s, f, j)
               /\ \A k : ReadString(s, k) = IF k <= Len(s) /\ s[k] = Quote THEN f[k + 1]
                                            ELSE [text |-> <<>>, next |-> 0]
  BY ReaderDefined
<1> DEFINE P(j) == f[j].next = 0 \/ f[j].next \in (j + 1)..(l + 1)
           S == {m \in Nat : \A j \in 1..(l + 7) : j > l - m => P(j)}
<1>2. 0 \in S
  <2>1. \A j \in 1..(l + 7) : j > l => f[j].next = 0
    BY <1>1, ReadBodyNext
  <2> QED
    BY <2>1
<1>3. ASSUME NEW m \in S PROVE m + 1 \in S
  <2>1. m \in Nat /\ m + 1 \in Nat
    OBVIOUS
  <2> SUFFICES ASSUME NEW j \in 1..(l + 7), j > l - (m + 1)
               PROVE  P(j)
    BY <2>1
  <2>2. CASE j > l - m
    BY <2>2
  <2>3. CASE ~(j > l - m)
    <3>1. j = l - m /\ j <= l
      BY <2>1, <2>3
    <3>2. /\ j + 1 \in 1..(l + 7) /\ j + 1 > l - m
          /\ j + 2 \in 1..(l + 7) /\ j + 2 > l - m
          /\ j + 6 \in 1..(l + 7) /\ j + 6 > l - m
      BY <2>1, <3>1
    <3>3. P(j + 1) /\ P(j + 2) /\ P(j + 6)
      BY <3>2
    <3>4. \/ f[j].next = 0 \/ f[j].next = j + 1 \/ f[j].next = f[j + 1].next
          \/ f[j].next = f[j + 2].next \/ f[j].next = f[j + 6].next
      <4>1. f[j] = ReadBody(s, f, j)
        BY <1>1
      <4> DEFINE n == f[j].next
      <4>2. n = ReadBody(s, f, j).next
        BY <4>1
      <4> HIDE DEF n
      <4>3. n = 0 \/ n = j + 1 \/ n = f[j + 1].next \/ n = f[j + 2].next \/ n = f[j + 6].next
        BY <3>1, <4>2, ReadBodyNext
      <4> QED
        BY <4>3 DEF n
    <3> DEFINE n == f[j].next
               a == f[j + 1].next
               b == f[j + 2].next
               c == f[j + 6].next
    <3>5. /\ a = 0 \/ a \in ((j + 1) + 1)..(l + 1)
          /\ b = 0 \/ b \in ((j + 2) + 1)..(l + 1)
          /\ c = 0 \/ c \in ((j + 6) + 1)..(l + 1)
      BY <3>3
    <3>6. n = 0 \/ n = j + 1 \/ n = a \/ n = b \/ n = c
      BY <3>4
    <3> HIDE DEF n, a, b, c
    <3>7. n = 0 \/ n \in (j + 1)..(l + 1)
      BY <3>1, <3>5, <3>6
    <3> QED
      BY <3>7 DEF n
  <2> QED
    BY <2>2, <2>3
<1>4. S = Nat
  <2> HIDE DEF S
  <2>1. S \in SUBSET Nat
    BY DEF S
  <2> QED
    BY <1>2, <1>3, <2>1, Induction
<1>5. \A j \in 1..(l + 7) : P(j)
  <2>1. l \in S
    BY <1>4
  <2>2. \A j \in 1..(l + 7) : j > l - l
    OBVIOUS
  <2> QED
    BY <2>1, <2>2
<1>6. CASE i <= l /\ s[i] = Quote
  <2>1. ReadString(s, i) = f[i + 1] /\ i + 1 \in 1..(l + 7)
    BY <1>1, <1>6
  <2> QED
    BY <1>5, <2>1
<1>7. CASE ~(i <= l /\ s[i] = Quote)
  <2>1. ReadString(s, i) = [text |-> <<>>, next |-> 0]
    BY <1>1, <1>7
  <2> QED
    BY <2>1
<1> QED
  BY <1>6, <1>7

\* The text t lies in s, from the place i on.
At(s, i, t) == i + Len(t) <= Len(s) + 1 /\ \A k \in 1..Len(t) : s[(i + k) - 1] = t[k]

LEMMA AtConcat ==
    ASSUME NEW s, Len(s) \in Nat, NEW i \in Nat \ {0},
           NEW t \in Seq(Character), NEW u \in Seq(Character), At(s, i, t \o u)
    PROVE  /\ At(s, i, t) /\ At(s, i + Len(t), u)
           /\ Len(t \o u) = Len(t) + Len(u) /\ t \o u \in Seq(Character)
           /\ i + Len(t) \in Nat \ {0}
<1>1. /\ t \o u \in Seq(Character) /\ Len(t \o u) = Len(t) + Len(u)
      /\ Len(t) \in Nat /\ Len(u) \in Nat
      /\ \A k \in 1..Len(t) : (t \o u)[k] = t[k]
      /\ \A k \in 1..Len(u) : (t \o u)[Len(t) + k] = u[k]
  OBVIOUS
<1> DEFINE v == t \o u
           a == Len(t)
           b == Len(u)
<1>2. /\ Len(v) = a + b /\ a \in Nat /\ b \in Nat /\ At(s, i, v)
      /\ \A k \in 1..a : v[k] = t[k]
      /\ \A k \in 1..b : v[a + k] = u[k]
  BY <1>1
<1> HIDE DEF v, a, b
<1>3. i + a <= Len(s) + 1 /\ (i + a) + b <= Len(s) + 1
  BY <1>2 DEF At
<1>4. \A k \in 1..a : s[(i + k) - 1] = t[k]
  <2>1. \A k \in 1..a : k \in 1..Len(v)
    BY <1>2
  <2> QED
    BY <1>2, <2>1 DEF At
<1>5. \A k \in 1..b : s[((i + a) + k) - 1] = u[k]
  <2>1. \A k \in 1..b : a + k \in 1..Len(v) /\ (i + (a + k)) - 1 = ((i + a) + k) - 1
    BY <1>2
  <2>2. \A k \in 1..b : s[(i + (a + k)) - 1] = v[a + k]
    BY <1>2, <2>1 DEF At
  <2> QED
    BY <1>2, <2>1, <2>2
<1>6. At(s, i, t) /\ At(s, i + a, u)
  BY <1>3, <1>4, <1>5 DEF At, a, b
<1> QED
  BY <1>1, <1>6 DEF a

LEMMA AtOne ==
    ASSUME NEW s, Len(s) \in Nat, NEW i \in Nat \ {0}, NEW c, At(s, i, <<c>>)
    PROVE  i \in 1..Len(s) /\ s[i] = c
<1>1. Len(<<c>>) = 1 /\ <<c>>[1] = c /\ (i + 1) - 1 = i
  OBVIOUS
<1> DEFINE t == <<c>>
<1> HIDE DEF t
<1>2. Len(t) = 1 /\ t[1] = c /\ At(s, i, t)
  BY <1>1 DEF t
<1>3. i + 1 <= Len(s) + 1 /\ s[(i + 1) - 1] = t[1]
  BY <1>2 DEF At
<1> QED
  BY <1>1, <1>2, <1>3

LEMMA Characters ==
    /\ Quote \in Character /\ Backslash \in Character
    /\ "{" \in Character /\ "}" \in Character /\ ":" \in Character /\ "," \in Character
    /\ "host" \in Character /\ "udp" \in Character /\ "port" \in Character
    /\ "true" \in Character /\ "false" \in Character
    /\ "n" \in Character /\ "r" \in Character /\ "t" \in Character
    /\ "u" \in Character /\ "0" \in Character
<1>1. Marks \cup Words \cup {"n", "r", "t", "u", "0"} \subseteq Character
  BY CharacterAssumption DEF CharacterAssumption
<1> QED
  BY <1>1, Zenon DEF Marks, Words

LEMMA EscapedType ==
    ASSUME NEW c \in Character
    PROVE  Escaped(c) \in Seq(Character) /\ Len(Escaped(c)) \in {1, 2, 6}
<1> DEFINE e == Escaped(c)
<1>1. CASE c \in DOMAIN EscapeLetter
  <2> DEFINE x == EscapeLetter[c]
  <2>1. e = <<Backslash, x>>
    BY <1>1 DEF Escaped
  <2>2. x \in Character /\ Backslash \in Character
    <3>1. x \in {Quote, Backslash, "n", "r", "t"}
      BY <1>1 DEF EscapeLetter, Quote, Backslash
    <3> QED
      BY <3>1, Characters
  <2> HIDE DEF x, e
  <2>3. <<Backslash, x>> \in Seq(Character) /\ Len(<<Backslash, x>>) = 2
    BY <2>2
  <2> QED
    BY <2>1, <2>3 DEF e
<1>2. CASE c \notin DOMAIN EscapeLetter /\ c \in DOMAIN Control
  <2> DEFINE x == Control[c][1]
             y == Control[c][2]
  <2>1. e = <<Backslash, "u", "0", "0", x, y>>
    BY <1>2, Zenon DEF Escaped
  <2>2. x \in Character /\ y \in Character /\ Backslash \in Character
        /\ "u" \in Character /\ "0" \in Character
    <3>1. Control[c] \in Character \X Character
      BY <1>2, CharacterAssumption DEF CharacterAssumption
    <3> QED
      BY <3>1, Characters
  <2> HIDE DEF x, y, e
  <2>3. /\ <<Backslash, "u", "0", "0", x, y>> \in Seq(Character)
        /\ Len(<<Backslash, "u", "0", "0", x, y>>) = 6
    BY <2>2
  <2> QED
    BY <2>1, <2>3 DEF e
<1>3. CASE c \notin DOMAIN EscapeLetter /\ c \notin DOMAIN Control
  <2>1. e = <<c>>
    BY <1>3, Zenon DEF Escaped
  <2> HIDE DEF e
  <2>3. <<c>> \in Seq(Character) /\ Len(<<c>>) = 1
    OBVIOUS
  <2> QED
    BY <2>1, <2>3 DEF e
<1> QED
  BY <1>1, <1>2, <1>3

\* From j on read_string reads the character c, and goes on at k.
Reads(s, f, j, c, k) ==
    ReadBody(s, f, j) = [text |-> <<c>> \o f[k].text, next |-> f[k].next]

\* read_string takes back what append_escaped did to one character.
LEMMA ReadEscaped ==
    ASSUME NEW s, Len(s) \in Nat, NEW f, NEW j \in Nat \ {0}, NEW c \in Character,
           At(s, j, Escaped(c)), NEW k, k = j + Len(Escaped(c))
    PROVE  Reads(s, f, j, c, k)
<1> USE DEF Reads
<1>1. CASE c \in DOMAIN EscapeLetter
  <2>1. Escaped(c) = <<Backslash, EscapeLetter[c]>>
    BY <1>1 DEF Escaped
  <2>2. /\ EscapeLetter[c] \in DOMAIN UnescapeLetter
        /\ UnescapeLetter[EscapeLetter[c]] = c
    BY <1>1 DEF EscapeLetter, UnescapeLetter, Quote, Backslash
  <2> DEFINE x == EscapeLetter[c]
  <2>3. At(s, j, <<Backslash, x>>) /\ k = j + 2
    BY <2>1
  <2> HIDE DEF x
  <2>4. j + 1 <= Len(s) /\ s[j] = Backslash /\ s[j + 1] = x
    <3> DEFINE t == <<Backslash, x>>
    <3>1. Len(t) = 2 /\ t[1] = Backslash /\ t[2] = x
      OBVIOUS
    <3>2. j + Len(t) <= Len(s) + 1 /\ \A n \in 1..Len(t) : s[(j + n) - 1] = t[n]
      BY <2>3 DEF At
    <3> HIDE DEF t
    <3>3. s[(j + 1) - 1] = t[1] /\ s[(j + 2) - 1] = t[2]
      BY <3>1, <3>2
    <3>4. (j + 1) - 1 = j /\ (j + 2) - 1 = j + 1
      OBVIOUS
    <3> QED
      BY <3>1, <3>2, <3>3, <3>4
  <2>5. ~(j > Len(s)) /\ s[j] # Quote /\ ~(s[j] # Backslash) /\ j # Len(s)
        /\ s[j + 1] \in DOMAIN UnescapeLetter /\ UnescapeLetter[s[j + 1]] = c
    BY <2>2, <2>4 DEF Quote, Backslash, x
  <2> QED
    BY <2>3, <2>5, Zenon DEF ReadBody
<1>2. CASE c \notin DOMAIN EscapeLetter /\ c \in DOMAIN Control
  <2> DEFINE x == Control[c][1]
             y == Control[c][2]
  <2>3. Escaped(c) = <<Backslash, "u", "0", "0", x, y>>
    BY <1>2, Zenon DEF Escaped
  <2> HIDE DEF x, y
  <2> DEFINE t == <<Backslash, "u", "0", "0", x, y>>
  <2>4. /\ Len(t) = 6 /\ t[1] = Backslash /\ t[2] = "u" /\ t[3] = "0"
        /\ t[4] = "0" /\ t[5] = x /\ t[6] = y
    OBVIOUS
  <2>5. At(s, j, t) /\ k = j + Len(t)
    BY <2>3
  <2> HIDE DEF t
  <2>6. j + 6 <= Len(s) + 1 /\ \A n \in 1..6 : s[(j + n) - 1] = t[n]
    BY <2>4, <2>5 DEF At
  <2>7. /\ s[j] = Backslash /\ s[j + 1] = "u" /\ s[j + 2] = "0"
        /\ s[j + 3] = "0" /\ s[j + 4] = x /\ s[j + 5] = y
    <3>1. /\ (j + 1) - 1 = j /\ (j + 2) - 1 = j + 1 /\ (j + 3) - 1 = j + 2
          /\ (j + 4) - 1 = j + 3 /\ (j + 5) - 1 = j + 4 /\ (j + 6) - 1 = j + 5
      OBVIOUS
    <3>2. /\ s[(j + 1) - 1] = t[1] /\ s[(j + 2) - 1] = t[2] /\ s[(j + 3) - 1] = t[3]
          /\ s[(j + 4) - 1] = t[4] /\ s[(j + 5) - 1] = t[5] /\ s[(j + 6) - 1] = t[6]
      BY <2>6
    <3> QED
      BY <2>4, <3>1, <3>2
  <2>8. <<s[j + 2], s[j + 3], s[j + 4], s[j + 5]>> = <<"0", "0", x, y>>
    BY <2>7
  <2>9. CodePoint(<<s[j + 2], s[j + 3], s[j + 4], s[j + 5]>>) = c
    <3> DEFINE of == {a \in DOMAIN Control :
                        <<"0", "0", x, y>> = <<"0", "0", Control[a][1], Control[a][2]>>}
    <3>1. of = {c}
      <4>1. \A a, b \in DOMAIN Control :
               Control[a] \in Character \X Character /\ (Control[a] = Control[b] => a = b)
        BY CharacterAssumption DEF CharacterAssumption
      <4>2. ASSUME NEW a \in DOMAIN Control,
                   <<"0", "0", x, y>> = <<"0", "0", Control[a][1], Control[a][2]>>
            PROVE  a = c
        <5>1. x = Control[a][1] /\ y = Control[a][2]
          BY <4>2
        <5>2. /\ Control[a] = <<Control[a][1], Control[a][2]>>
              /\ Control[c] = <<Control[c][1], Control[c][2]>>
          BY <1>2, <4>1
        <5>3. Control[a] = Control[c]
          BY <5>1, <5>2 DEF x, y
        <5> QED
          BY <1>2, <4>1, <5>3
      <4> QED
        BY <1>2, <4>2 DEF x, y
    <3>2. CodePoint(<<"0", "0", x, y>>) = IF of = {} THEN "?" ELSE CHOOSE a \in of : TRUE
      BY DEF CodePoint
    <3> QED
      BY <2>8, <3>1, <3>2
  <2>10. /\ ~(j > Len(s)) /\ s[j] # Quote /\ ~(s[j] # Backslash) /\ j # Len(s)
         /\ s[j + 1] \notin DOMAIN UnescapeLetter
         /\ s[j + 1] = "u" /\ j + 5 <= Len(s) /\ k = j + 6
    BY <2>4, <2>5, <2>6, <2>7 DEF Quote, Backslash, UnescapeLetter
  <2> QED
    BY <2>9, <2>10, Zenon DEF ReadBody
<1>3. CASE c \notin DOMAIN EscapeLetter /\ c \notin DOMAIN Control
  <2>1. Escaped(c) = <<c>>
    BY <1>3, Zenon DEF Escaped
  <2>2. j \in 1..Len(s) /\ s[j] = c
    BY <2>1, AtOne
  <2>3. c # Quote /\ c # Backslash
    BY <1>3 DEF EscapeLetter
  <2>k. k = j + 1
    <3>1. Len(<<c>>) = 1
      OBVIOUS
    <3> QED
      BY <2>1, <3>1
  <2>4. ~(j > Len(s)) /\ s[j] # Quote /\ s[j] # Backslash
    BY <2>2, <2>3
  <2> QED
    BY <2>2, <2>4, <2>k, Zenon DEF ReadBody
<1> QED
  BY <1>1, <1>2, <1>3

LEMMA One ==
    ASSUME NEW c \in Character
    PROVE  <<c>> \in Seq(Character) /\ Len(<<c>>) = 1
OBVIOUS

LEMMA Concat ==
    ASSUME NEW t \in Seq(Character), NEW u \in Seq(Character)
    PROVE  t \o u \in Seq(Character) /\ Len(t \o u) = Len(t) + Len(u)
OBVIOUS

LEMMA Length ==
    ASSUME NEW t \in Seq(Character)
    PROVE  Len(t) \in Nat
OBVIOUS

LEMMA FlattenRun ==
    ASSUME NEW text \in Seq(Character)
    PROVE  \E F : /\ F[0] = <<>>
                  /\ \A k \in 1..Len(text) : F[k] = F[k - 1] \o Escaped(text[k])
                  /\ \A k \in 0..Len(text) : F[k] \in Seq(Character)
                  /\ JsonString(text) = <<Quote>> \o F[Len(text)] \o <<Quote>>
<1> DEFINE n == Len(text)
           q == [k \in 1..n |-> Escaped(text[k])]
           Def(f, m) == f = [i \in 1..m |-> IF i = 1 THEN q[i] ELSE f[i - 1] \o q[i]]
           S == {m \in Nat : \E f : Def(f, m)}
<1>0. n \in Nat /\ \A k \in 1..n : q[k] = Escaped(text[k])
  OBVIOUS
<1>1. 0 \in S
  <2>1. Def([i \in 1..0 |-> <<>>], 0)
    OBVIOUS
  <2> QED
    BY <2>1
<1>2. ASSUME NEW m \in S PROVE m + 1 \in S
  <2>1. m \in Nat
    OBVIOUS
  <2>2. PICK f : Def(f, m)
    OBVIOUS
  <2> HIDE DEF q
  <2> DEFINE g == [i \in 1..(m + 1) |-> IF i = 1 THEN q[i] ELSE f[i - 1] \o q[i]]
  <2>3. ASSUME NEW k \in 1..m PROVE g[k] = f[k]
    <3>1. k \in 1..(m + 1)
      BY <2>1
    <3>2. g[k] = IF k = 1 THEN q[k] ELSE f[k - 1] \o q[k]
      BY <3>1, Zenon
    <3>3. f[k] = IF k = 1 THEN q[k] ELSE f[k - 1] \o q[k]
      BY <2>2, Zenon
    <3> QED
      BY <3>2, <3>3
  <2>4. \A k \in 1..(m + 1) : k # 1 => k - 1 \in 1..m
    BY <2>1
  <2>5. Def(g, m + 1)
    BY <2>3, <2>4
  <2>6. m + 1 \in Nat
    BY <2>1
  <2> QED
    BY <2>5, <2>6
<1>3. S = Nat
  <2> HIDE DEF S
  <2>1. S \in SUBSET Nat
    BY DEF S
  <2> QED
    BY <1>1, <1>2, <2>1, Induction
<1>4. PICK f : Def(f, n) /\ (n # 0 => FlattenSeq(q) = f[n])
  <2>1. \E f : Def(f, n)
    BY <1>0, <1>3
  <2>2. Len(q) = n
    BY <1>0
  <2> DEFINE h == CHOOSE f : Def(f, n)
  <2>3. Def(h, n)
    <3> HIDE DEF Def
    <3> QED
      BY <2>1
  <2>4. n # 0 => FlattenSeq(q) = h[n]
    <3> HIDE DEF q, n
    <3> QED
      BY <2>2, Zenon DEF FlattenSeq
  <2> HIDE DEF h
  <2> QED
    BY <2>3, <2>4
<1>5. n = 0 => FlattenSeq(q) = <<>>
  <2>1. n = 0 => Len(q) = 0 /\ q = <<>>
    BY <1>0
  <2> HIDE DEF q, n
  <2> QED
    BY <2>1, Zenon DEF FlattenSeq
<1> DEFINE F == [k \in 0..n |-> IF k = 0 THEN <<>> ELSE f[k]]
<1>6. \A k \in 1..n : Escaped(text[k]) \in Seq(Character)
  BY EscapedType
<1>7. F[0] = <<>> /\ F[n] = FlattenSeq(q)
  <2>1. 0 \in 0..n /\ n \in 0..n
    BY <1>0
  <2>2. F[0] = <<>> /\ F[n] = IF n = 0 THEN <<>> ELSE f[n]
    BY <2>1
  <2> HIDE DEF q, F
  <2> QED
    BY <1>4, <1>5, <2>2
<1>8. ASSUME NEW k \in 1..n PROVE F[k] = F[k - 1] \o Escaped(text[k])
  <2>1. CASE k = 1
    <3>1. F[k] = f[1] /\ f[1] = q[1] /\ k - 1 = 0
      BY <1>4, <2>1
    <3>2. F[k] = Escaped(text[k])
      BY <1>0, <2>1, <3>1
    <3>3. Escaped(text[k]) = <<>> \o Escaped(text[k])
      <4> DEFINE t == Escaped(text[k])
      <4>1. t \in Seq(Character)
        BY <1>6
      <4> HIDE DEF t
      <4>2. t = <<>> \o t
        BY <4>1
      <4> QED
        BY <4>2 DEF t
    <3> QED
      BY <1>7, <3>1, <3>2, <3>3
  <2>2. CASE k # 1
    <3>1. k - 1 \in 1..n /\ k - 1 \in 0..n /\ k \in 0..n /\ k # 0 /\ k - 1 # 0
      BY <1>0, <2>2
    <3>2. f[k] = f[k - 1] \o q[k]
      BY <1>4, <2>2
    <3>3. F[k] = f[k] /\ F[k - 1] = f[k - 1] /\ q[k] = Escaped(text[k])
      BY <1>0, <3>1
    <3> QED
      BY <3>2, <3>3
  <2> QED
    BY <2>1, <2>2
<1> HIDE DEF F
<1> DEFINE T == {k \in Nat : k <= n => F[k] \in Seq(Character)}
<1>9. 0 \in T
  <2>1. <<>> \in Seq(Character)
    OBVIOUS
  <2> HIDE DEF n
  <2> QED
    BY <1>7, <2>1
<1>10. ASSUME NEW k \in T PROVE k + 1 \in T
  <2>1. k \in Nat /\ k + 1 \in Nat
    OBVIOUS
  <2> SUFFICES ASSUME k + 1 <= n PROVE F[k + 1] \in Seq(Character)
    BY <2>1
  <2>2. k + 1 \in 1..n /\ (k + 1) - 1 = k /\ k <= n
    BY <1>0, <2>1
  <2>3. F[k] \in Seq(Character) /\ Escaped(text[k + 1]) \in Seq(Character)
    BY <1>6, <2>2
  <2>4. F[k + 1] = F[k] \o Escaped(text[k + 1])
    BY <1>8, <2>2
  <2>5. \A x, y \in Seq(Character) : x \o y \in Seq(Character)
    OBVIOUS
  <2> HIDE DEF T
  <2> QED
    BY <2>3, <2>4, <2>5
<1>11. T = Nat
  <2> HIDE DEF T
  <2>1. T \in SUBSET Nat
    BY DEF T
  <2> QED
    BY <1>9, <1>10, <2>1, Induction
<1>12. \A k \in 0..n : F[k] \in Seq(Character)
  BY <1>0, <1>11
<1>13. JsonString(text) = <<Quote>> \o F[n] \o <<Quote>>
  BY <1>7 DEF JsonString
<1> QED
  BY <1>7, <1>8, <1>12, <1>13

LEMMA JsonStringType ==
    ASSUME NEW text \in Seq(Character)
    PROVE  JsonString(text) \in Seq(Character)
<1>1. PICK F : /\ \A k \in 0..Len(text) : F[k] \in Seq(Character)
               /\ JsonString(text) = <<Quote>> \o F[Len(text)] \o <<Quote>>
  BY FlattenRun
<1>2. F[Len(text)] \in Seq(Character)
  BY <1>1
<1>3. <<Quote>> \in Seq(Character)
  BY Characters, One
<1> QED
  BY <1>1, <1>2, <1>3, Concat

LEMMA OneLess ==
    ASSUME NEW C, NEW text \in Seq(C), NEW k \in 1..Len(text)
    PROVE  <<text[k]>> \o SubSeq(text, k + 1, Len(text)) = SubSeq(text, k, Len(text))
OBVIOUS

\* read_string takes back what append_escaped did to a text, and stops
\* behind it.
LEMMA ReadJsonString ==
    ASSUME NEW s, Len(s) \in Nat, NEW i \in Nat \ {0}, NEW text \in Seq(Character),
           At(s, i, JsonString(text))
    PROVE  ReadString(s, i) = [text |-> text, next |-> i + Len(JsonString(text))]
<1>a. \A t, u \in Seq(Character) : At(s, i, t \o u) =>
         /\ At(s, i, t) /\ At(s, i + Len(t), u) /\ Len(t \o u) = Len(t) + Len(u)
  BY AtConcat
<1>b. ASSUME NEW f, NEW j \in Nat \ {0}, NEW c \in Character, NEW k,
             At(s, j, Escaped(c)), k = j + Len(Escaped(c))
      PROVE  Reads(s, f, j, c, k)
  BY <1>b, ReadEscaped
<1> DEFINE n == Len(text)
           p == i + 1
<1>0. n \in Nat /\ p \in Nat \ {0}
  OBVIOUS
<1>1. PICK F : /\ F[0] = <<>>
               /\ \A k \in 1..n : F[k] = F[k - 1] \o Escaped(text[k])
               /\ \A k \in 0..n : F[k] \in Seq(Character)
               /\ JsonString(text) = <<Quote>> \o F[n] \o <<Quote>>
  BY FlattenRun
<1>t. \A k \in 1..n : text[k] \in Character
  OBVIOUS
<1>u. SubSeq(text, 0 + 1, n) = text /\ SubSeq(text, n + 1, n) = <<>>
  OBVIOUS
<1>o. \A k \in 1..n : <<text[k]>> \o SubSeq(text, k + 1, n) = SubSeq(text, k, n)
  BY OneLess
<1> HIDE DEF n
<1> DEFINE L(k) == Len(F[k])
<1>l. \A k \in 0..n : L(k) \in Nat
  BY <1>1, Length
<1>m. n \in 0..n /\ 0 \in 0..n
  BY <1>0
<1> DEFINE e == p + L(n)
<1>4. /\ At(s, i, <<Quote>>) /\ At(s, p, F[n]) /\ At(s, e, <<Quote>>)
      /\ Len(JsonString(text)) = (1 + L(n)) + 1 /\ e \in Nat \ {0}
  <2> DEFINE a == <<Quote>>
             b == F[n]
             ab == a \o b
  <2>0. a \in Seq(Character) /\ Len(a) = 1
    BY Characters, One
  <2>1. b \in Seq(Character)
    BY <1>1, <1>m
  <2>2. JsonString(text) = ab \o a
    BY <1>1
  <2>3. L(n) = Len(b)
    OBVIOUS
  <2> HIDE DEF a, b, ab, L
  <2>4. ab \in Seq(Character) /\ Len(ab) = Len(a) + Len(b)
    BY <2>0, <2>1, Concat DEF ab
  <2>5. At(s, i, ab \o a)
    BY <2>2
  <2>6. At(s, i, ab) /\ At(s, i + Len(ab), a) /\ Len(ab \o a) = Len(ab) + Len(a)
    BY <1>a, <2>0, <2>4, <2>5
  <2>7. At(s, i, a) /\ At(s, i + Len(a), b)
    BY <2>0, <2>1, <2>6, AtConcat DEF ab
  <2>8. Len(b) \in Nat
    BY <2>1, Length
  <2>9. i + Len(ab) = (i + 1) + Len(b) /\ (i + 1) + Len(b) \in Nat \ {0}
    BY <2>0, <2>4, <2>8
  <2>10. Len(JsonString(text)) = (1 + Len(b)) + 1
    BY <2>0, <2>2, <2>4, <2>6, <2>8
  <2>11. i + Len(a) = i + 1
    BY <2>0
  <2> QED
    BY <2>3, <2>6, <2>7, <2>9, <2>10, <2>11 DEF a, b
<1>5. PICK f : /\ \A j \in 1..(Len(s) + 7) : f[j] = ReadBody(s, f, j)
               /\ \A k : ReadString(s, k) = IF k <= Len(s) /\ s[k] = Quote THEN f[k + 1]
                                            ELSE [text |-> <<>>, next |-> 0]
  BY ReaderDefined
<1> DEFINE Rest(k) == [text |-> SubSeq(text, k + 1, n), next |-> e + 1]
           Good(k) == At(s, p, F[k]) /\ f[p + L(k)] = Rest(k)
           S == {m \in Nat : m <= n => Good(n - m)}
<1>r. \A k : Rest(k).text = SubSeq(text, k + 1, n) /\ Rest(k).next = e + 1
  OBVIOUS
<1>6. Good(n)
  <2> HIDE DEF L, e, p
  <2>1. e \in 1..Len(s) /\ s[e] = Quote
    BY <1>4, AtOne
  <2>2. e \in 1..(Len(s) + 7) /\ ~(e > Len(s))
    BY <2>1
  <2>3. f[e] = ReadBody(s, f, e)
    BY <1>5, <2>2
  <2>4. f[e] = [text |-> <<>>, next |-> e + 1]
    BY <2>1, <2>2, <2>3, Zenon DEF ReadBody
  <2>5. Rest(n) = [text |-> <<>>, next |-> e + 1]
    BY <1>u
  <2>6. e = p + L(n)
    BY DEF e
  <2> QED
    BY <1>4, <2>4, <2>5, <2>6
<1> HIDE DEF Rest
<1>7. 0 \in S
  <2>1. n - 0 = n
    BY <1>0
  <2> HIDE DEF Good
  <2> QED
    BY <1>6, <2>1
<1>8. ASSUME NEW m \in S PROVE m + 1 \in S
  <2>1. m \in Nat /\ m + 1 \in Nat
    OBVIOUS
  <2> SUFFICES ASSUME m + 1 <= n PROVE Good(n - (m + 1))
    BY <2>1
  <2> DEFINE k == n - m
  <2>2. k \in 1..n /\ k \in 0..n /\ k - 1 \in 0..n /\ n - (m + 1) = k - 1 /\ (k - 1) + 1 = k
    BY <1>0, <2>1
  <2>3. Good(k)
    <3>1. m <= n
      BY <1>0, <2>1
    <3> HIDE DEF Good
    <3> QED
      BY <3>1
  <2> HIDE DEF k
  <2>3a. At(s, p, F[k]) /\ f[p + L(k)] = Rest(k)
    BY <2>3
  <2> DEFINE a == F[k - 1]
             c == text[k]
             b == Escaped(c)
             j == p + L(k - 1)
             z == j + Len(b)
  <2>4. F[k] = a \o b /\ a \in Seq(Character) /\ c \in Character
    <3>1. F[k] = a \o b
      BY <1>1, <2>2
    <3>2. a \in Seq(Character)
      BY <1>1, <2>2
    <3>3. c \in Character
      BY <1>t, <2>2
    <3> QED
      BY <3>1, <3>2, <3>3
  <2>5. b \in Seq(Character)
    BY <2>4, EscapedType
  <2>6. At(s, p, a \o b)
    BY <2>3a, <2>4
  <2>a. L(k - 1) = Len(a) /\ L(k) = Len(F[k])
    OBVIOUS
  <2> HIDE DEF L, a, p
  <2>7. /\ At(s, p, a) /\ At(s, p + Len(a), b) /\ Len(a \o b) = Len(a) + Len(b)
        /\ p + Len(a) \in Nat \ {0}
    <3> HIDE DEF b, c
    <3> QED
      BY <1>0, <2>4, <2>5, <2>6, AtConcat
  <2>8. j \in Nat \ {0} /\ At(s, j, b)
    BY <2>7, <2>a
  <2>9. z = p + L(k)
    <3>1. Len(a) \in Nat /\ Len(b) \in Nat /\ L(k) = Len(a) + Len(b)
      BY <2>4, <2>5, <2>7, <2>a, Length
    <3> HIDE DEF b
    <3> QED
      BY <1>0, <2>a, <3>1
  <2>10. f[z] = Rest(k)
    BY <2>3a, <2>9
  <2> HIDE DEF j
  <2>11. j \in 1..(Len(s) + 7)
    <3>1. j + Len(b) <= Len(s) + 1 /\ Len(b) \in Nat
      BY <2>5, <2>8, Length DEF At
    <3> HIDE DEF b
    <3> QED
      BY <2>8, <3>1
  <2>12. f[j] = ReadBody(s, f, j)
    BY <1>5, <2>11
  <2>13. z = j + Len(Escaped(c)) /\ At(s, j, Escaped(c))
    BY <2>8
  <2> HIDE DEF z, b, c
  <2>14. ReadBody(s, f, j) = [text |-> <<c>> \o f[z].text, next |-> f[z].next]
    BY <1>b, <2>4, <2>8, <2>13 DEF Reads
  <2>15. ReadBody(s, f, j) = [text |-> <<c>> \o SubSeq(text, k + 1, n), next |-> e + 1]
    <3> HIDE DEF e
    <3> QED
      BY <1>r, <2>10, <2>14
  <2>16. <<c>> \o SubSeq(text, k + 1, n) = SubSeq(text, (k - 1) + 1, n)
    BY <1>o, <2>2 DEF c
  <2>17. f[j] = Rest(k - 1)
    BY <2>12, <2>15, <2>16 DEF Rest
  <2>18. Good(k - 1)
    BY <2>7, <2>17 DEF a, j
  <2> HIDE DEF Good
  <2> QED
    BY <2>2, <2>18
<1>9. S = Nat
  <2> HIDE DEF S
  <2>1. S \in SUBSET Nat
    BY DEF S
  <2> QED
    BY <1>7, <1>8, <2>1, Induction
<1>10. Good(0)
  <2>1. n \in S
    BY <1>0, <1>9
  <2>2. n - n = 0 /\ n <= n
    BY <1>0
  <2> HIDE DEF Good
  <2> QED
    BY <2>1, <2>2
<1>11. f[p] = [text |-> text, next |-> e + 1]
  <2>1. L(0) = 0
    BY <1>1
  <2>2. p + L(0) = p
    BY <1>0, <2>1
  <2>3. f[p] = Rest(0)
    BY <1>10, <2>2
  <2> QED
    BY <1>u, <2>3 DEF Rest
<1>12. i \in 1..Len(s) /\ s[i] = Quote
  BY <1>4, AtOne
<1>13. ReadString(s, i) = f[p]
  BY <1>5, <1>12
<1>14. e + 1 = i + Len(JsonString(text))
  <2>1. L(n) \in Nat
    BY <1>l, <1>m
  <2> HIDE DEF L
  <2>2. (i + 1) + L(n) + 1 = i + ((1 + L(n)) + 1)
    BY <2>1
  <2> QED
    BY <1>4, <2>2
<1> QED
  BY <1>11, <1>13, <1>14

LEMMA JustOne ==
    ASSUME NEW C, NEW t \in Seq(C), NEW k \in 1..Len(t)
    PROVE  SubSeq(t, k, k) = <<t[k]>>
<1> DEFINE x == SubSeq(t, k, k)
           y == <<t[k]>>
<1>1. x \in Seq(C) /\ Len(x) = 1 /\ x[1] = t[k]
  OBVIOUS
<1>2. y \in Seq(C) /\ Len(y) = 1 /\ y[1] = t[k]
  OBVIOUS
<1> HIDE DEF x, y
<1>3. x = y
  <2>1. \A i \in 1..1 : i = 1
    OBVIOUS
  <2>2. \A i \in 1..Len(x) : x[i] = y[i]
    BY <1>1, <1>2, <2>1
  <2> QED
    BY <1>1, <1>2, <2>2, SeqEqual
<1> QED
  BY <1>3 DEF x, y

\* read_scalar of one character that is not an end, before an end.
LEMMA ReadOne ==
    ASSUME NEW s \in Seq(Character), NEW i \in Nat \ {0}, i + 1 <= Len(s),
           s[i] \notin Ends, s[i + 1] \in Ends
    PROVE  ReadScalar(s, i) = [text |-> <<s[i]>>, next |-> i + 1]
<1> DEFINE ends == {j \in i..Len(s) : s[j] \in Ends}
           stop == IF ends = {} THEN Len(s) + 1
                   ELSE CHOOSE j \in ends : \A k \in ends : j <= k
<1>1. Len(s) \in Nat
  OBVIOUS
<1>2. i + 1 \in ends
  BY <1>1
<1>3. \A k \in ends : k \in Nat /\ i + 1 <= k
  <2> SUFFICES ASSUME NEW k \in ends PROVE k \in Nat /\ i + 1 <= k
    OBVIOUS
  <2>1. k \in Nat /\ i <= k
    BY <1>1
  <2>2. k # i
    OBVIOUS
  <2> HIDE DEF ends
  <2> QED
    BY <2>1, <2>2
<1>4. stop = i + 1
  <2> HIDE DEF ends
  <2>1. \A k \in ends : (\A m \in ends : k <= m) => k = i + 1
    BY <1>2, <1>3
  <2> QED
    BY <1>2, <1>3, <2>1
<1>5. ReadScalar(s, i) = [text |-> SubSeq(s, i, stop - 1),
                          next |-> IF stop = i THEN 0 ELSE stop]
  BY DEF ReadScalar
<1> HIDE DEF stop, ends
<1>6. stop - 1 = i /\ stop # i
  BY <1>4
<1>7. SubSeq(s, i, i) = <<s[i]>>
  <2>1. i \in 1..Len(s)
    BY <1>1
  <2> QED
    BY <2>1, JustOne
<1> QED
  BY <1>4, <1>5, <1>6, <1>7

\* read_scalar goes forward when it stops at an end.
LEMMA ScalarForward ==
    ASSUME NEW s, Len(s) \in Nat, NEW i \in Nat \ {0},
           NEW n, n = ReadScalar(s, i).next, n \in 1..Len(s)
    PROVE  n > i
<1> DEFINE ends == {j \in i..Len(s) : s[j] \in Ends}
           stop == IF ends = {} THEN Len(s) + 1
                   ELSE CHOOSE j \in ends : \A k \in ends : j <= k
<1>1. n = IF stop = i THEN 0 ELSE stop
  BY DEF ReadScalar
<1>2. ends \in SUBSET Nat
  OBVIOUS
<1>3. ends # {} => stop \in ends
  <2> HIDE DEF ends
  <2>1. ends # {} => \E j \in ends : \A k \in ends : j <= k
    BY <1>2, Least
  <2> QED
    BY <2>1
<1>4. stop = Len(s) + 1 \/ stop \in i..Len(s)
  BY <1>3
<1> HIDE DEF stop, ends
<1>5. n # 0 /\ n <= Len(s)
  OBVIOUS
<1>6. n = stop /\ stop # i
  BY <1>1, <1>5
<1> QED
  BY <1>4, <1>5, <1>6

-----------------------------------------------------------------------------
(* What decode_record makes of the text from a member on.                  *)

ReadValue(s, i) == IF s[i] = Quote THEN ReadString(s, i) ELSE ReadScalar(s, i)

Quoted(s, i) == s[i] = Quote

\* The members from i on, when f has the members from each later place on.
ReadMembers(s, f, i) ==
    LET key    == ReadString(s, i)
        at     == key.next + 1
        value  == ReadValue(s, at)
        member == [name |-> key.text, quoted |-> Quoted(s, at), text |-> value.text]
        Bad    == [ok |-> FALSE, members |-> <<>>]
    IN  IF key.next = 0 \/ at > Len(s) THEN Bad
        ELSE IF s[key.next] # ":" THEN Bad
        ELSE IF value.next \notin 1..Len(s) THEN Bad
        ELSE IF s[value.next] = ","
             THEN [ok |-> f[value.next + 1].ok,
                   members |-> <<member>> \o f[value.next + 1].members]
        ELSE [ok |-> s[value.next] = "}", members |-> <<member>>]

\* The value of a member lies behind the member's beginning.
LEMMA ValueForward ==
    ASSUME NEW s, Len(s) \in Nat, NEW i \in Nat \ {0},
           NEW k, k = ReadString(s, i).next, k # 0, k + 1 <= Len(s),
           NEW n, n = ReadValue(s, k + 1).next, n \in 1..Len(s)
    PROVE  n > i
<1>1. k \in (i + 2)..(Len(s) + 1)
  BY ReadForward
<1>2. k + 1 \in Nat \ {0} /\ k + 1 > i
  BY <1>1
<1>3. CASE s[k + 1] = Quote
  <2>1. n = ReadString(s, k + 1).next
    BY <1>3, Zenon DEF ReadValue
  <2>2. n = 0 \/ n \in ((k + 1) + 2)..(Len(s) + 1)
    BY <1>2, <2>1, ReadForward
  <2> QED
    BY <1>2, <2>2
<1>4. CASE s[k + 1] # Quote
  <2>1. n = ReadScalar(s, k + 1).next
    BY <1>4, Zenon DEF ReadValue
  <2>2. n > k + 1
    BY <1>2, <2>1, ScalarForward
  <2> QED
    BY <1>2, <2>2
<1> QED
  BY <1>3, <1>4

LEMMA MembersLater ==
    ASSUME NEW s, Len(s) \in Nat, NEW i \in Nat \ {0}, NEW f, NEW g,
           \A n \in 1..(Len(s) + 1) : n > i => f[n] = g[n]
    PROVE  ReadMembers(s, f, i) = ReadMembers(s, g, i)
<1> DEFINE k == ReadString(s, i).next
           n == ReadValue(s, k + 1).next
<1>1. k # 0 /\ ~(k + 1 > Len(s)) /\ n \in 1..Len(s) => f[n + 1] = g[n + 1]
  <2> SUFFICES ASSUME k # 0, ~(k + 1 > Len(s)), n \in 1..Len(s)
               PROVE  f[n + 1] = g[n + 1]
    OBVIOUS
  <2>1. k \in (i + 2)..(Len(s) + 1)
    BY ReadForward
  <2>2. k + 1 <= Len(s)
    BY <2>1
  <2> DEFINE kk == k
             nn == n
  <2>3. kk = ReadString(s, i).next /\ nn = ReadValue(s, kk + 1).next /\ kk # 0
        /\ kk + 1 <= Len(s) /\ nn \in 1..Len(s)
    BY <2>2
  <2>4. nn > i
    <3> HIDE DEF k, n, kk, nn
    <3> QED
      BY <2>3, ValueForward
  <2> HIDE DEF nn
  <2>5. nn + 1 \in 1..(Len(s) + 1) /\ nn + 1 > i
    BY <2>3, <2>4
  <2> QED
    BY <2>5 DEF nn
<1> QED
  BY <1>1, Zenon DEF ReadMembers

LEMMA DecoderDefined ==
    ASSUME NEW s, Len(s) \in Nat
    PROVE  \E f : /\ \A i \in 1..(Len(s) + 1) : f[i] = ReadMembers(s, f, i)
                  /\ DecodeRecord(s) = IF s = <<>> THEN {}
                                       ELSE IF s[1] # "{" THEN {}
                                       ELSE IF Len(s) > 1 /\ s[2] = "}" THEN {NoRecord}
                                       ELSE IF f[2].ok THEN {AddMembers(f[2].members)}
                                       ELSE {}
<1> DEFINE l == Len(s) + 1
           Def(f) == f = [i \in 1..l |-> ReadMembers(s, f, i)]
           From(f, m) == \A i \in 1..l : i > l - m => f[i] = ReadMembers(s, f, i)
           S == {m \in Nat : m <= l => \E f : f = [i \in 1..l |-> f[i]] /\ From(f, m)}
<1>l. l \in Nat /\ Len(s) + 1 = l
  OBVIOUS
<1> HIDE DEF l
<1>1. 0 \in S
  <2> DEFINE f == [i \in 1..l |-> 0]
  <2>1. \A i \in 1..l : ~(i > l - 0)
    BY <1>l
  <2>2. f = [i \in 1..l |-> f[i]] /\ From(f, 0)
    BY <2>1
  <2> QED
    BY <2>2
<1>2. ASSUME NEW m \in S PROVE m + 1 \in S
  <2>1. m \in Nat /\ m + 1 \in Nat
    OBVIOUS
  <2> SUFFICES ASSUME m + 1 <= l
               PROVE  \E f : f = [i \in 1..l |-> f[i]] /\ From(f, m + 1)
    BY <2>1
  <2>2. PICK f : f = [i \in 1..l |-> f[i]] /\ From(f, m)
    BY <1>l, <2>1
  <2> DEFINE g == [i \in 1..l |-> IF i = l - m THEN ReadMembers(s, f, i) ELSE f[i]]
  <2>3. g = [i \in 1..l |-> g[i]]
    OBVIOUS
  <2>4. \A i \in 1..l : i > l - m => g[i] = f[i]
    BY <1>l, <2>1
  <2>5. l - m \in 1..l /\ g[l - m] = ReadMembers(s, f, l - m)
    BY <1>l, <2>1
  <2>6. \A i \in 1..l : i > l - (m + 1) => i = l - m \/ i > l - m
    BY <1>l, <2>1
  <2> HIDE DEF g
  <2>7. ASSUME NEW i \in 1..l, i > l - (m + 1)
        PROVE  ReadMembers(s, f, i) = ReadMembers(s, g, i)
    <3>1. \A n \in 1..l : n > i => n > l - m
      BY <1>l, <2>1, <2>7
    <3>2. \A n \in 1..(Len(s) + 1) : n > i => f[n] = g[n]
      BY <1>l, <2>4, <3>1
    <3>3. i \in Nat \ {0}
      BY <1>l
    <3> QED
      BY <3>2, <3>3, MembersLater
  <2>8. From(g, m + 1)
    <3> SUFFICES ASSUME NEW i \in 1..l, i > l - (m + 1)
                 PROVE  g[i] = ReadMembers(s, g, i)
      OBVIOUS
    <3>1. CASE i = l - m
      BY <2>5, <2>7, <3>1
    <3>2. CASE i > l - m
      BY <2>2, <2>4, <2>7, <3>2
    <3> QED
      BY <2>6, <3>1, <3>2
  <2> QED
    BY <2>3, <2>8
<1>3. S = Nat
  <2> HIDE DEF S
  <2>1. S \in SUBSET Nat
    BY DEF S
  <2> QED
    BY <1>1, <1>2, <2>1, Induction
<1>4. \E f : Def(f)
  <2>1. l \in S
    BY <1>l, <1>3
  <2>2. PICK f : f = [i \in 1..l |-> f[i]] /\ From(f, l)
    BY <1>l, <2>1
  <2>3. \A i \in 1..l : i > l - l
    BY <1>l
  <2>4. \A i \in 1..l : f[i] = ReadMembers(s, f, i)
    BY <2>2, <2>3
  <2>5. Def(f)
    BY <2>2, <2>4
  <2> QED
    BY <2>5
<1> DEFINE h == CHOOSE f : Def(f)
<1>5. Def(h)
  <2> HIDE DEF Def
  <2> QED
    BY <1>4
<1>6. DecodeRecord(s) = IF s = <<>> THEN {}
                        ELSE IF s[1] # "{" THEN {}
                        ELSE IF Len(s) > 1 /\ s[2] = "}" THEN {NoRecord}
                        ELSE IF h[2].ok THEN {AddMembers(h[2].members)}
                        ELSE {}
  BY Zenon DEF DecodeRecord, ReadMembers, ReadValue, Quoted, l
<1> HIDE DEF h
<1>7. \A i \in 1..l : h[i] = ReadMembers(s, h, i)
  BY <1>5
<1> QED
  BY <1>6, <1>7 DEF l

\* The values of the members, one after the other.
LEMMA AddMembersRun ==
    ASSUME NEW members, Len(members) \in Nat
    PROVE  \E u : /\ u[0] = NoRecord
                  /\ \A k \in 1..Len(members) : u[k] = AddMember(u[k - 1], members[k])
                  /\ AddMembers(members) = u[Len(members)]
<1> DEFINE n == Len(members)
           Def(f, m) == f = [k \in 0..m |-> IF k = 0 THEN NoRecord
                                            ELSE AddMember(f[k - 1], members[k])]
           S == {m \in Nat : \E f : Def(f, m)}
<1>1. 0 \in S
  <2>1. Def([k \in 0..0 |-> NoRecord], 0)
    OBVIOUS
  <2> QED
    BY <2>1
<1>2. ASSUME NEW m \in S PROVE m + 1 \in S
  <2>1. m \in Nat
    OBVIOUS
  <2>2. PICK f : Def(f, m)
    OBVIOUS
  <2> DEFINE g == [k \in 0..(m + 1) |-> IF k = 0 THEN NoRecord
                                        ELSE AddMember(f[k - 1], members[k])]
  <2>3. \A k \in 0..m : g[k] = f[k]
    BY <2>1, <2>2
  <2>4. \A k \in 0..(m + 1) : k # 0 => k - 1 \in 0..m
    BY <2>1
  <2>5. Def(g, m + 1)
    BY <2>3, <2>4
  <2>6. m + 1 \in Nat
    BY <2>1
  <2> QED
    BY <2>5, <2>6
<1>3. S = Nat
  <2> HIDE DEF S
  <2>1. S \in SUBSET Nat
    BY DEF S
  <2> QED
    BY <1>1, <1>2, <2>1, Induction
<1> DEFINE u == CHOOSE f : Def(f, n)
<1>4. n \in Nat
  OBVIOUS
<1>5. Def(u, n)
  <2>1. \E f : Def(f, n)
    BY <1>3, <1>4
  <2> HIDE DEF Def, n
  <2> QED
    BY <2>1
<1>6. AddMembers(members) = u[n]
  BY Zenon DEF AddMembers
<1> HIDE DEF u, n
<1>7. u[0] = NoRecord /\ \A k \in 1..n : u[k] = AddMember(u[k - 1], members[k])
  BY <1>4, <1>5
<1> QED
  BY <1>6, <1>7 DEF n

-----------------------------------------------------------------------------
(* A member that was written is read.                                      *)

\* The reader's result r is this text, and it went on to n.
Gives(r, text, n) == r = [text |-> text, next |-> n]

LEMMA MemberPlaces ==
    ASSUME NEW s, Len(s) \in Nat, NEW i \in Nat \ {0},
           NEW name \in Seq(Character), NEW v \in Seq(Character), At(s, i, Member(name, v)),
           NEW j, j = i + Len(JsonString(name)),
           NEW k, k = i + Len(Member(name, v))
    PROVE  /\ Gives(ReadString(s, i), name, j)
           /\ j \in 1..Len(s) /\ s[j] = ":" /\ At(s, j + 1, v)
           /\ k = (j + 1) + Len(v)
<1> DEFINE a == JsonString(name)
           b == <<":">>
           ab == a \o b
<1>1. a \in Seq(Character)
  BY JsonStringType
<1>2. b \in Seq(Character) /\ Len(b) = 1
  BY Characters, One
<1>3. Member(name, v) = ab \o v /\ j = i + Len(a)
  BY DEF Member
<1>0. \A t, u \in Seq(Character) : At(s, i, t \o u) =>
         /\ At(s, i, t) /\ At(s, i + Len(t), u) /\ Len(t \o u) = Len(t) + Len(u)
  BY AtConcat
<1> HIDE DEF ab, b
<1>4. ab \in Seq(Character) /\ Len(ab) = Len(a) + Len(b)
  BY <1>1, <1>2, Concat DEF ab
<1>5. At(s, i, ab \o v) /\ k = i + Len(ab \o v)
  BY <1>3
<1>6. At(s, i, ab) /\ At(s, i + Len(ab), v) /\ Len(ab \o v) = Len(ab) + Len(v)
  BY <1>0, <1>4, <1>5
<1>7. At(s, i, a) /\ At(s, i + Len(a), b)
  BY <1>0, <1>1, <1>2, <1>6 DEF ab
<1>8. Gives(ReadString(s, i), name, j)
  BY <1>3, <1>7, ReadJsonString DEF Gives
<1> HIDE DEF a
<1>9. Len(a) \in Nat /\ Len(v) \in Nat
  BY <1>1, Length
<1>10. j \in Nat \ {0} /\ i + Len(ab) = j + 1 /\ k = (j + 1) + Len(v)
  <2> DEFINE la == Len(a)
             lv == Len(v)
             lab == Len(ab)
             l == Len(ab \o v)
  <2>1. la \in Nat /\ lv \in Nat /\ lab = la + 1 /\ l = lab + lv
    BY <1>2, <1>4, <1>6, <1>9
  <2>2. j = i + la /\ k = i + l
    BY <1>3, <1>5
  <2> HIDE DEF la, lv, lab, l
  <2>3. j \in Nat \ {0} /\ i + lab = j + 1
    BY <2>1, <2>2
  <2>4. k = (j + 1) + lv
    BY <2>1, <2>2
  <2> QED
    BY <2>3, <2>4 DEF lab, lv
<1>11. At(s, j, b)
  BY <1>3, <1>7
<1>12. j \in 1..Len(s) /\ s[j] = ":"
  BY <1>10, <1>11, AtOne DEF b
<1>13. At(s, j + 1, v)
  BY <1>6, <1>10
<1> QED
  BY <1>8, <1>10, <1>12, <1>13

\* A member and what is read behind it, and the last member.
Before(m, r) == [ok |-> r.ok, members |-> <<m>> \o r.members]
Only(m)      == [ok |-> TRUE, members |-> <<m>>]

Mem(name, quoted, text) == [name |-> name, quoted |-> quoted, text |-> text]

\* The text from i on is the member m, up to k.
Leads(s, f, i, m, k) ==
    /\ s[k] = "," => ReadMembers(s, f, i) = Before(m, f[k + 1])
    /\ s[k] = "}" => ReadMembers(s, f, i) = Only(m)

LEMMA MemberRead ==
    ASSUME NEW s, NEW i, NEW f, NEW name, NEW text, NEW quoted, NEW j, NEW k,
           Gives(ReadString(s, i), name, j), j # 0, ~(j + 1 > Len(s)),
           s[j] = ":", Quoted(s, j + 1) = quoted,
           Gives(ReadValue(s, j + 1), text, k), k \in 1..Len(s)
    PROVE  Leads(s, f, i, Mem(name, quoted, text), k)
<1> DEFINE m == Mem(name, quoted, text)
<1> DEFINE key == ReadString(s, i)
           value == ReadValue(s, j + 1)
<1>1. key.next = j /\ key.text = name /\ value.text = text /\ value.next = k
  BY DEF Gives
<1> DEFINE Bad == [ok |-> FALSE, members |-> <<>>]
           mm == [name |-> key.text, quoted |-> Quoted(s, key.next + 1),
                  text |-> ReadValue(s, key.next + 1).text]
<1>2. mm = m
  <2>1. key.text = name /\ Quoted(s, key.next + 1) = quoted
        /\ ReadValue(s, key.next + 1).text = text
    BY <1>1
  <2> HIDE DEF key
  <2> QED
    BY <2>1 DEF Mem
<1>3. ReadMembers(s, f, i) =
        IF key.next = 0 \/ key.next + 1 > Len(s) THEN Bad
        ELSE IF s[key.next] # ":" THEN Bad
        ELSE IF ReadValue(s, key.next + 1).next \notin 1..Len(s) THEN Bad
        ELSE IF s[ReadValue(s, key.next + 1).next] = ","
             THEN Before(mm, f[ReadValue(s, key.next + 1).next + 1])
        ELSE [ok |-> s[ReadValue(s, key.next + 1).next] = "}", members |-> <<mm>>]
  BY Zenon DEF ReadMembers, Before
<1> HIDE DEF m, mm, key, value, Bad
<1>4. ReadValue(s, key.next + 1).next = k
  BY <1>1 DEF value
<1>5. ReadMembers(s, f, i) =
        IF s[k] = "," THEN Before(m, f[k + 1])
        ELSE [ok |-> s[k] = "}", members |-> <<m>>]
  BY <1>1, <1>2, <1>3, <1>4, Zenon
<1>6. s[k] = "," => ReadMembers(s, f, i) = Before(m, f[k + 1])
  BY <1>5, Zenon
<1>7. ASSUME s[k] = "}" PROVE ReadMembers(s, f, i) = Only(m)
  <2>1. ~(s[k] = ",") /\ (s[k] = "}") = TRUE
    BY <1>7
  <2> QED
    BY <1>5, <2>1, Zenon DEF Only
<1> QED
  BY <1>6, <1>7 DEF Leads, m

LEMMA StringMember ==
    ASSUME NEW s, Len(s) \in Nat, NEW i \in Nat \ {0}, NEW f,
           NEW name \in Seq(Character), NEW v \in Seq(Character),
           At(s, i, Member(name, JsonString(v))),
           NEW k, k = i + Len(Member(name, JsonString(v))), k <= Len(s)
    PROVE  Leads(s, f, i, Mem(name, TRUE, v), k)
<1> DEFINE w == JsonString(v)
           j == i + Len(JsonString(name))
<1>1. w \in Seq(Character)
  BY JsonStringType
<1>2. /\ Gives(ReadString(s, i), name, j)
      /\ j \in 1..Len(s) /\ s[j] = ":" /\ At(s, j + 1, w)
      /\ k = (j + 1) + Len(w)
  <2> HIDE DEF w
  <2>1. At(s, i, Member(name, w)) /\ k = i + Len(Member(name, w))
    BY DEF w
  <2>2. j = i + Len(JsonString(name))
    OBVIOUS
  <2> HIDE DEF j
  <2> QED
    BY <1>1, <2>1, <2>2, MemberPlaces
<1> HIDE DEF j
<1>3. j + 1 \in Nat \ {0} /\ j # 0 /\ ~(j + 1 > Len(s)) /\ k \in 1..Len(s)
  <2>1. Len(w) \in Nat
    BY <1>1, Length
  <2> HIDE DEF w
  <2> QED
    BY <1>2, <2>1
<1>4. ReadString(s, j + 1) = [text |-> v, next |-> k]
  BY <1>2, <1>3, ReadJsonString
<1>5. s[j + 1] = Quote
  <2>1. s[j + 1] # Quote => ReadString(s, j + 1).next = 0
    <3>1. PICK g : \A n : ReadString(s, n) = IF n <= Len(s) /\ s[n] = Quote THEN g[n + 1]
                                             ELSE [text |-> <<>>, next |-> 0]
      BY ReaderDefined
    <3> HIDE DEF j
    <3>2. s[j + 1] # Quote => ReadString(s, j + 1) = [text |-> <<>>, next |-> 0]
      BY <3>1, Zenon
    <3> QED
      BY <3>2
  <2>2. ReadString(s, j + 1).next = k /\ k # 0
    BY <1>3, <1>4
  <2> QED
    BY <2>1, <2>2
<1>6. Gives(ReadValue(s, j + 1), v, k)
  BY <1>4, <1>5 DEF ReadValue, Gives
<1> DEFINE t == TRUE
<1>7. Quoted(s, j + 1) = t
  BY <1>5 DEF Quoted
<1> HIDE DEF t
<1>8. Leads(s, f, i, Mem(name, t, v), k)
  BY <1>2, <1>3, <1>6, <1>7, MemberRead
<1> QED
  BY <1>8 DEF t

LEMMA ScalarMember ==
    ASSUME NEW s \in Seq(Character), NEW i \in Nat \ {0}, NEW f,
           NEW name \in Seq(Character), NEW c \in Character,
           c # Quote, c \notin Ends,
           At(s, i, Member(name, <<c>>)),
           NEW k, k = i + Len(Member(name, <<c>>)), k <= Len(s)
    PROVE  Leads(s, f, i, Mem(name, FALSE, <<c>>), k)
<1> DEFINE w == <<c>>
           j == i + Len(JsonString(name))
<1>0. Len(s) \in Nat
  BY Length
<1>1. w \in Seq(Character) /\ Len(w) = 1
  BY One
<1>m. ASSUME NEW v \in Seq(Character), At(s, i, Member(name, v)),
             NEW y, y = i + Len(JsonString(name)),
             NEW z, z = i + Len(Member(name, v))
      PROVE  /\ Gives(ReadString(s, i), name, y)
             /\ y \in 1..Len(s) /\ s[y] = ":" /\ At(s, y + 1, v)
             /\ z = (y + 1) + Len(v)
  BY <1>0, <1>m, MemberPlaces
<1>2. /\ Gives(ReadString(s, i), name, j)
      /\ j \in 1..Len(s) /\ s[j] = ":" /\ At(s, j + 1, w)
      /\ k = (j + 1) + Len(w)
  <2> HIDE DEF w
  <2>1. At(s, i, Member(name, w)) /\ k = i + Len(Member(name, w))
    BY DEF w
  <2>2. j = i + Len(JsonString(name))
    OBVIOUS
  <2> HIDE DEF j
  <2> QED
    BY <1>1, <1>m, <2>1, <2>2
<1> HIDE DEF j
<1>3. /\ j + 1 \in Nat \ {0} /\ j # 0 /\ ~(j + 1 > Len(s)) /\ k \in 1..Len(s)
      /\ k = (j + 1) + 1 /\ (j + 1) + 1 <= Len(s)
  <2> HIDE DEF w
  <2> QED
    BY <1>0, <1>1, <1>2
<1>4. s[j + 1] = c
  BY <1>0, <1>2, <1>3, AtOne
<1> DEFINE t == FALSE
<1>5. Quoted(s, j + 1) = t
  BY <1>4 DEF Quoted
<1>7. ReadValue(s, j + 1) = ReadScalar(s, j + 1)
  BY <1>4, Zenon DEF ReadValue
<1>8. "," \in Ends /\ "}" \in Ends
  BY DEF Ends
<1>9. s[k] \in Ends => Gives(ReadValue(s, j + 1), w, k)
  <2> DEFINE p == j + 1
  <2>1. p \in Nat \ {0} /\ p + 1 <= Len(s) /\ s[p] = c /\ s[p] \notin Ends /\ k = p + 1
    BY <1>3, <1>4
  <2> HIDE DEF p
  <2>2. s[p + 1] \in Ends => ReadScalar(s, p) = [text |-> <<s[p]>>, next |-> p + 1]
    BY <2>1, ReadOne
  <2> QED
    BY <1>7, <2>1, <2>2 DEF p, Gives
<1> HIDE DEF t, w
<1>10. s[k] \in Ends => Leads(s, f, i, Mem(name, t, w), k)
  BY <1>2, <1>3, <1>5, <1>9, MemberRead
<1>11. s[k] \notin Ends => Leads(s, f, i, Mem(name, t, w), k)
  BY <1>8 DEF Leads
<1> QED
  BY <1>10, <1>11 DEF t, w

-----------------------------------------------------------------------------
(* The record.                                                             *)

LEMMA MemberType ==
    ASSUME NEW name \in Seq(Character), NEW v \in Seq(Character)
    PROVE  Member(name, v) \in Seq(Character)
<1>1. JsonString(name) \in Seq(Character)
  BY JsonStringType
<1>2. <<":">> \in Seq(Character)
  BY Characters, One
<1> QED
  BY <1>1, <1>2, Concat DEF Member

LEMMA AtItself ==
    ASSUME NEW s \in Seq(Character)
    PROVE  At(s, 1, s)
<1>1. Len(s) \in Nat
  BY Length
<1>2. 1 + Len(s) <= Len(s) + 1 /\ \A k \in 1..Len(s) : (1 + k) - 1 = k
  BY <1>1
<1> QED
  BY <1>2 DEF At

\* Six texts make s: the third, fourth and sixth begin at k, l and z.
Laid(s, a, b, x, c, d, e, k, l, z) ==
    /\ {a, b, x, c, d, e} \subseteq Seq(Character)
    /\ s = a \o b \o x \o c \o d \o e
    /\ Len(a) = 1 /\ Len(c) = 1 /\ Len(e) = 1
    /\ k = 2 + Len(b) /\ l = k + Len(x) /\ z = (l + 1) + Len(d)

Places(s, a, b, x, c, d, e, k, l, z) ==
    /\ s \in Seq(Character) /\ At(s, 1, a) /\ At(s, 2, b) /\ At(s, k, x)
    /\ At(s, l, c) /\ At(s, l + 1, d) /\ At(s, z, e)
    /\ k \in Nat \ {0} /\ l \in Nat \ {0} /\ z \in Nat \ {0}
    /\ k <= Len(s) /\ l <= Len(s) /\ z <= Len(s)
    /\ 2 \in 1..(Len(s) + 1) /\ k + 1 \in 1..(Len(s) + 1)
    /\ l + 1 \in 1..(Len(s) + 1)

LEMMA SixPlaces ==
    ASSUME NEW a, NEW b, NEW x, NEW c, NEW d, NEW e, NEW s, NEW k, NEW l, NEW z,
           Laid(s, a, b, x, c, d, e, k, l, z)
    PROVE  Places(s, a, b, x, c, d, e, k, l, z)
<1>t. /\ a \in Seq(Character) /\ b \in Seq(Character) /\ x \in Seq(Character)
      /\ c \in Seq(Character) /\ d \in Seq(Character) /\ e \in Seq(Character)
  BY DEF Laid
<1>l. /\ s = a \o b \o x \o c \o d \o e
      /\ Len(a) = 1 /\ Len(c) = 1 /\ Len(e) = 1
      /\ k = 2 + Len(b) /\ l = k + Len(x) /\ z = (l + 1) + Len(d)
  BY DEF Laid
<1> DEFINE ab == a \o b
           abx == ab \o x
           abxc == abx \o c
           abxcd == abxc \o d
<1>1. s = abxcd \o e
  BY <1>l
<1> HIDE DEF ab, abx, abxc, abxcd
<1>2. /\ ab \in Seq(Character) /\ Len(ab) = Len(a) + Len(b)
      /\ abx \in Seq(Character) /\ Len(abx) = Len(ab) + Len(x)
      /\ abxc \in Seq(Character) /\ Len(abxc) = Len(abx) + Len(c)
      /\ abxcd \in Seq(Character) /\ Len(abxcd) = Len(abxc) + Len(d)
  <2>1. ab \in Seq(Character) /\ Len(ab) = Len(a) + Len(b)
    BY <1>t, Concat DEF ab
  <2>2. abx \in Seq(Character) /\ Len(abx) = Len(ab) + Len(x)
    BY <1>t, <2>1, Concat DEF abx
  <2>3. abxc \in Seq(Character) /\ Len(abxc) = Len(abx) + Len(c)
    BY <1>t, <2>2, Concat DEF abxc
  <2>4. abxcd \in Seq(Character) /\ Len(abxcd) = Len(abxc) + Len(d)
    BY <1>t, <2>3, Concat DEF abxcd
  <2> QED
    BY <2>1, <2>2, <2>3, <2>4
<1>3. s \in Seq(Character) /\ Len(s) \in Nat
  BY <1>1, <1>2, <1>t, Concat, Length
<1>4. At(s, 1, abxcd \o e)
  BY <1>1, <1>3, AtItself
<1>5. \A t, u \in Seq(Character) : At(s, 1, t \o u) => At(s, 1, t) /\ At(s, 1 + Len(t), u)
  <2>1. 1 \in Nat \ {0}
    OBVIOUS
  <2> QED
    BY <1>3, <2>1, AtConcat
<1>6. At(s, 1, abxcd) /\ At(s, 1 + Len(abxcd), e)
  BY <1>t, <1>2, <1>4, <1>5
<1>7. At(s, 1, abxc) /\ At(s, 1 + Len(abxc), d)
  BY <1>t, <1>2, <1>5, <1>6 DEF abxcd
<1>8. At(s, 1, abx) /\ At(s, 1 + Len(abx), c)
  BY <1>t, <1>2, <1>5, <1>7 DEF abxc
<1>9. At(s, 1, ab) /\ At(s, 1 + Len(ab), x)
  BY <1>t, <1>2, <1>5, <1>8 DEF abx
<1>10. At(s, 1, a) /\ At(s, 1 + Len(a), b)
  BY <1>t, <1>2, <1>5, <1>9 DEF ab
<1>11. Len(b) \in Nat /\ Len(x) \in Nat /\ Len(d) \in Nat
  BY <1>t, Length
<1>12. 1 + Len(a) = 2 /\ 1 + Len(ab) = k /\ 1 + Len(abx) = l
       /\ 1 + Len(abxc) = l + 1 /\ 1 + Len(abxcd) = z
  BY <1>2, <1>11, <1>l
<1>13. /\ k \in Nat \ {0} /\ l \in Nat \ {0} /\ z \in Nat \ {0}
       /\ k <= l /\ l < z
  BY <1>11, <1>l
<1>14. At(s, z, e)
  BY <1>6, <1>12
<1>15. z + 1 <= Len(s) + 1
  BY <1>14, <1>l DEF At
<1> DEFINE n == Len(s)
<1>16. n \in Nat /\ n + 1 = Len(s) + 1 /\ z + 1 <= n + 1
  BY <1>3, <1>15
<1> HIDE DEF n
<1>17. /\ k <= n /\ l <= n /\ z <= n
       /\ 2 \in 1..(n + 1) /\ k + 1 \in 1..(n + 1) /\ l + 1 \in 1..(n + 1)
  BY <1>13, <1>16
<1> QED
  BY <1>3, <1>6, <1>7, <1>8, <1>9, <1>10, <1>12, <1>13, <1>14, <1>17 DEF n, Places

LEMMA QuoteFirst ==
    ASSUME NEW s, Len(s) \in Nat, NEW i, ReadString(s, i).next # 0
    PROVE  s[i] = Quote
<1>1. PICK g : \A n : ReadString(s, n) = IF n <= Len(s) /\ s[n] = Quote THEN g[n + 1]
                                         ELSE [text |-> <<>>, next |-> 0]
  BY ReaderDefined
<1>2. s[i] # Quote => ReadString(s, i) = [text |-> <<>>, next |-> 0]
  BY <1>1, Zenon
<1> QED
  BY <1>2

Rec(host, udp, port) == [host |-> host, udp |-> udp, port |-> port]

\* What each of the three members adds.
LEMMA HostAdded ==
    ASSUME NEW h
    PROVE  AddMember(NoRecord, Mem(<<"host">>, TRUE, h)) = Rec(h, {}, {})
<1> DEFINE m == Mem(<<"host">>, TRUE, h)
<1>1. m.name = <<"host">> /\ m.quoted = TRUE /\ m.text = h
  BY DEF Mem
<1> HIDE DEF m
<1>2. AddMember(NoRecord, m) = [NoRecord EXCEPT !.host = m.text]
  BY <1>1 DEF AddMember
<1>3. [NoRecord EXCEPT !.host = h] = Rec(h, {}, {})
  <2>1. \A x : [Rec(x, {}, {}) EXCEPT !.host = h] = Rec(h, {}, {})
    BY DEF Rec
  <2>2. NoRecord = Rec(<<>>, {}, {})
    BY DEF NoRecord, Rec
  <2> QED
    BY <2>1, <2>2
<1> QED
  BY <1>1, <1>2, <1>3 DEF m

LEMMA UdpAdded ==
    ASSUME NEW h, NEW b \in BOOLEAN
    PROVE  AddMember(Rec(h, {}, {}), Mem(<<"udp">>, FALSE, <<IF b THEN "true" ELSE "false">>))
           = Rec(h, {b}, {})
<1> DEFINE w == IF b THEN "true" ELSE "false"
           m == Mem(<<"udp">>, FALSE, <<w>>)
           rec == Rec(h, {}, {})
<1>1. m.name = <<"udp">> /\ m.quoted = FALSE /\ m.text = <<w>>
  BY DEF Mem
<1> HIDE DEF m, w
<1>2. AddMember(rec, m) = IF <<w>> = <<"true">> THEN [rec EXCEPT !.udp = {TRUE}]
                          ELSE IF <<w>> = <<"false">> THEN [rec EXCEPT !.udp = {FALSE}]
                          ELSE rec
  <2> HIDE DEF rec
  <2> QED
    BY <1>1 DEF AddMember
<1>3. CASE b = TRUE
  <2>1. w = "true"
    BY <1>3 DEF w
  <2>2. AddMember(rec, m) = [rec EXCEPT !.udp = {TRUE}]
    BY <1>2, <2>1
  <2> QED
    BY <1>3, <2>2 DEF Rec, m, w
<1>4. CASE b = FALSE
  <2>1. w = "false" /\ <<w>> # <<"true">>
    BY <1>4 DEF w
  <2>2. AddMember(rec, m) = [rec EXCEPT !.udp = {FALSE}]
    BY <1>2, <2>1
  <2> QED
    BY <1>4, <2>2 DEF Rec, m, w
<1> QED
  BY <1>3, <1>4

LEMMA PortAdded ==
    ASSUME NEW h, NEW u, NEW p \in DOMAIN Decimal, p \in Ports
    PROVE  AddMember(Rec(h, u, {}), Mem(<<"port">>, FALSE, <<Decimal[p]>>)) = Rec(h, u, {p})
<1> DEFINE d == Decimal[p]
           m == Mem(<<"port">>, FALSE, <<d>>)
           rec == Rec(h, u, {})
           ports == {q \in DOMAIN Decimal : m.text = <<Decimal[q]>> /\ q \in Ports}
<1>0. <<"port">> # <<"udp">>
  OBVIOUS
<1> HIDE DEF d
<1>1. m.name = <<"port">> /\ m.quoted = FALSE /\ m.text = <<d>>
  BY DEF Mem
<1> HIDE DEF m
<1>2. m.name # <<"udp">>
  BY <1>0, <1>1
<1>3. ports = {p}
  <2>1. \A q \in DOMAIN Decimal : d = Decimal[q] => p = q
    BY CharacterAssumption DEF CharacterAssumption, d
  <2>2. \A q : <<d>> = <<Decimal[q]>> => d = Decimal[q]
    OBVIOUS
  <2>3. \A q \in ports : q \in DOMAIN Decimal /\ <<d>> = <<Decimal[q]>>
    BY <1>1
  <2>4. p \in ports
    BY <1>1 DEF d
  <2> HIDE DEF ports
  <2> QED
    BY <2>1, <2>2, <2>3, <2>4
<1>4. AddMember(rec, m) = IF ports = {} THEN rec ELSE [rec EXCEPT !.port = ports]
  <2> HIDE DEF rec
  <2> QED
    BY <1>1, <1>2 DEF AddMember
<1> HIDE DEF ports
<1>5. AddMember(rec, m) = [rec EXCEPT !.port = {p}]
  <2> HIDE DEF rec
  <2> QED
    BY <1>3, <1>4
<1>6. [rec EXCEPT !.port = {p}] = Rec(h, u, {p})
  BY DEF Rec
<1> QED
  BY <1>5, <1>6 DEF m, d

LEMMA TwoMembers ==
    ASSUME NEW m1, NEW m2
    PROVE  AddMembers(<<m1, m2>>) = AddMember(AddMember(NoRecord, m1), m2)
<1> DEFINE ms == <<m1, m2>>
<1>1. Len(ms) = 2 /\ ms[1] = m1 /\ ms[2] = m2
  OBVIOUS
<1> HIDE DEF ms
<1>2. PICK u : /\ u[0] = NoRecord
               /\ \A k \in 1..Len(ms) : u[k] = AddMember(u[k - 1], ms[k])
               /\ AddMembers(ms) = u[Len(ms)]
  BY <1>1, AddMembersRun
<1>3. 1 \in 1..Len(ms) /\ 2 \in 1..Len(ms) /\ 1 - 1 = 0 /\ 2 - 1 = 1
  BY <1>1
<1>4. u[1] = AddMember(u[1 - 1], ms[1]) /\ u[2] = AddMember(u[2 - 1], ms[2])
  BY <1>2, <1>3
<1> QED
  BY <1>1, <1>2, <1>3, <1>4 DEF ms

LEMMA ThreeMembers ==
    ASSUME NEW m1, NEW m2, NEW m3
    PROVE  AddMembers(<<m1, m2, m3>>) = AddMember(AddMember(AddMember(NoRecord, m1), m2), m3)
<1> DEFINE ms == <<m1, m2, m3>>
<1>1. Len(ms) = 3 /\ ms[1] = m1 /\ ms[2] = m2 /\ ms[3] = m3
  OBVIOUS
<1> HIDE DEF ms
<1>2. PICK u : /\ u[0] = NoRecord
               /\ \A k \in 1..Len(ms) : u[k] = AddMember(u[k - 1], ms[k])
               /\ AddMembers(ms) = u[Len(ms)]
  <2>1. Len(ms) \in Nat
    BY <1>1
  <2> QED
    BY <2>1, AddMembersRun
<1>3. /\ 1 \in 1..Len(ms) /\ 2 \in 1..Len(ms) /\ 3 \in 1..Len(ms)
      /\ 1 - 1 = 0 /\ 2 - 1 = 1 /\ 3 - 1 = 2
  BY <1>1
<1>4. /\ u[1] = AddMember(u[1 - 1], ms[1]) /\ u[2] = AddMember(u[2 - 1], ms[2])
      /\ u[3] = AddMember(u[3 - 1], ms[3])
  BY <1>2, <1>3
<1> QED
  BY <1>1, <1>2, <1>3, <1>4 DEF ms

LEMMA TwoRead ==
    ASSUME NEW m1, NEW m2
    PROVE  /\ Before(m1, Only(m2)).ok = TRUE
           /\ Before(m1, Only(m2)).members = <<m1, m2>>
<1> DEFINE r == Only(m2)
<1>1. r.ok = TRUE /\ r.members = <<m2>>
  BY DEF Only
<1> HIDE DEF r
<1>2. Before(m1, r).ok = TRUE /\ Before(m1, r).members = <<m1>> \o <<m2>>
  BY <1>1 DEF Before
<1>3. <<m1>> \o <<m2>> = <<m1, m2>>
  <2> DEFINE C == {m1, m2}
             x == <<m1>> \o <<m2>>
             y == <<m1, m2>>
  <2>1. x \in Seq(C) /\ Len(x) = 2 /\ x[1] = m1 /\ x[2] = m2
    <3>1. m1 \in C /\ m2 \in C
      OBVIOUS
    <3> HIDE DEF C
    <3> QED
      BY <3>1
  <2>2. y \in Seq(C) /\ Len(y) = 2 /\ y[1] = m1 /\ y[2] = m2
    <3>1. m1 \in C /\ m2 \in C
      OBVIOUS
    <3> HIDE DEF C
    <3> QED
      BY <3>1
  <2>3. \A i \in 1..2 : i = 1 \/ i = 2
    OBVIOUS
  <2> HIDE DEF C, x, y
  <2>4. x = y
    BY <2>1, <2>2, <2>3, SeqEqual
  <2> QED
    BY <2>4 DEF x, y
<1> QED
  BY <1>2, <1>3 DEF r

LEMMA ThreeRead ==
    ASSUME NEW m1, NEW m2, NEW m3
    PROVE  /\ Before(m1, Before(m2, Only(m3))).ok = TRUE
           /\ Before(m1, Before(m2, Only(m3))).members = <<m1, m2, m3>>
<1> DEFINE r == Before(m2, Only(m3))
<1>1. r.ok = TRUE /\ r.members = <<m2, m3>>
  BY TwoRead
<1> HIDE DEF r
<1>2. Before(m1, r).ok = TRUE /\ Before(m1, r).members = <<m1>> \o <<m2, m3>>
  BY <1>1 DEF Before
<1>3. <<m1>> \o <<m2, m3>> = <<m1, m2, m3>>
  <2> DEFINE C == {m1, m2, m3}
             x == <<m1>> \o <<m2, m3>>
             y == <<m1, m2, m3>>
  <2>0. m1 \in C /\ m2 \in C /\ m3 \in C
    OBVIOUS
  <2> HIDE DEF C
  <2>1. x \in Seq(C) /\ Len(x) = 3 /\ x[1] = m1 /\ x[2] = m2 /\ x[3] = m3
    BY <2>0
  <2>2. y \in Seq(C) /\ Len(y) = 3 /\ y[1] = m1 /\ y[2] = m2 /\ y[3] = m3
    BY <2>0
  <2>3. \A i \in 1..3 : i = 1 \/ i = 2 \/ i = 3
    OBVIOUS
  <2> HIDE DEF x, y
  <2>4. x = y
    BY <2>1, <2>2, <2>3, SeqEqual
  <2> QED
    BY <2>4 DEF x, y
<1> QED
  BY <1>2, <1>3 DEF r

\* An optional flag.
MaybeFlag == {{}, {TRUE}, {FALSE}}

\* The udp member of a record, with the comma before it, or nothing.
UdpPart(udp) ==
    IF udp = {} THEN <<>>
    ELSE <<",">> \o Member(<<"udp">>, <<IF TRUE \in udp THEN "true" ELSE "false">>)

\* decode_record finds in what encode_record wrote the host, the protocol and
\* the port that it was given: a host with quotes, braces or control characters
\* neither ends its string early nor adds a member (record.cpp:11-91, 95-158).
THEOREM RecordRoundTrip ==
    ASSUME NEW host \in Seq(Character), NEW udp \in MaybeFlag,
           NEW port \in DOMAIN Decimal, port \in Ports
    PROVE  DecodeRecord(EncodeRecord(host, udp, port))
           = {[host |-> host, udp |-> udp, port |-> {port}]}
<1> DEFINE a == <<"{">>
           b == Member(<<"host">>, JsonString(host))
           x == UdpPart(udp)
           c == <<",">>
           d == Member(<<"port">>, <<Decimal[port]>>)
           e == <<"}">>
           s == EncodeRecord(host, udp, port)
           k == 2 + Len(b)
           l == k + Len(x)
           z == (l + 1) + Len(d)
           w == IF TRUE \in udp THEN "true" ELSE "false"
           u == Member(<<"udp">>, <<w>>)
           m1 == Mem(<<"host">>, TRUE, host)
           m2 == Mem(<<"udp">>, FALSE, <<w>>)
           m3 == Mem(<<"port">>, FALSE, <<Decimal[port]>>)
<1>1. /\ a \in Seq(Character) /\ Len(a) = 1
      /\ c \in Seq(Character) /\ Len(c) = 1
      /\ e \in Seq(Character) /\ Len(e) = 1
      /\ <<"host">> \in Seq(Character) /\ <<"udp">> \in Seq(Character)
      /\ <<"port">> \in Seq(Character)
  BY Characters, One
<1>2. Decimal[port] \in Character /\ Decimal[port] # Quote /\ Decimal[port] \notin Ends
  <2>1. Decimal[port] \in Character \ Marks
    BY CharacterAssumption DEF CharacterAssumption
  <2>2. Quote \in Marks /\ Ends \subseteq Marks
    BY DEF Marks, Ends
  <2> QED
    BY <2>1, <2>2
<1>3. w \in Character /\ w # Quote /\ w \notin Ends
  <2>1. w = "true" \/ w = "false"
    OBVIOUS
  <2>2. \A v \in {"true", "false"} : v # Quote /\ v \notin Ends
    BY DEF Quote, Ends
  <2> QED
    BY <2>1, <2>2, Characters
<1>4. b \in Seq(Character) /\ u \in Seq(Character) /\ d \in Seq(Character)
  <2>1. JsonString(host) \in Seq(Character)
    BY JsonStringType
  <2>2. <<Decimal[port]>> \in Seq(Character) /\ <<w>> \in Seq(Character)
    BY <1>2, <1>3, One
  <2> QED
    BY <1>1, <2>1, <2>2, MemberType
<1>5. x = IF udp = {} THEN <<>> ELSE c \o u
  BY DEF UdpPart
<1>6. x \in Seq(Character)
  <2> HIDE DEF a, b, c, d, e, u, x, w, s, k, l, z
  <2>1. <<>> \in Seq(Character) /\ c \o u \in Seq(Character)
    <3>1. <<>> \in Seq(Character)
      OBVIOUS
    <3> QED
      BY <1>1, <1>4, <3>1, Concat
  <2> QED
    BY <1>5, <2>1
<1>7. s = a \o b \o x \o c \o d \o e
  <2>1. s = a \o b \o (IF udp = {} THEN <<>> ELSE c \o u) \o c \o d \o e
    BY Zenon DEF EncodeRecord
  <2> QED
    BY <1>5, <2>1
<1>w. \A t \in BOOLEAN : udp = {t} => w = IF t THEN "true" ELSE "false"
  <2> SUFFICES ASSUME NEW t \in BOOLEAN, udp = {t}
               PROVE  w = IF t THEN "true" ELSE "false"
    OBVIOUS
  <2>1. CASE t = TRUE
    BY <2>1
  <2>2. CASE t = FALSE
    BY <2>2
  <2> QED
    BY <2>1, <2>2
<1> HIDE DEF a, b, x, c, d, e, s, u, w, m1, m2, m3
<1>8. k = 2 + Len(b) /\ l = k + Len(x) /\ z = (l + 1) + Len(d)
  OBVIOUS
<1> HIDE DEF k, l, z
<1>9. /\ s \in Seq(Character) /\ At(s, 1, a) /\ At(s, 2, b) /\ At(s, k, x)
      /\ At(s, l, c) /\ At(s, l + 1, d) /\ At(s, z, e)
      /\ k \in Nat \ {0} /\ l \in Nat \ {0} /\ z \in Nat \ {0}
      /\ k <= Len(s) /\ l <= Len(s) /\ z <= Len(s)
      /\ 2 \in 1..(Len(s) + 1) /\ k + 1 \in 1..(Len(s) + 1)
      /\ l + 1 \in 1..(Len(s) + 1)
  <2>1. Laid(s, a, b, x, c, d, e, k, l, z)
    BY <1>1, <1>4, <1>6, <1>7, <1>8 DEF Laid
  <2>2. Places(s, a, b, x, c, d, e, k, l, z)
    BY <2>1, SixPlaces
  <2> QED
    BY <2>2 DEF Places
<1>plus. \A i \in Nat \ {0} : i + 1 \in Nat \ {0}
  OBVIOUS
<1>n. Len(s) \in Nat
  BY <1>9, Length
<1>10. 1 \in 1..Len(s) /\ s[1] = "{" /\ s[l] = "," /\ s[z] = "}" /\ z \in 1..Len(s)
  <2>1. 1 \in Nat \ {0}
    OBVIOUS
  <2>2. 1 \in 1..Len(s) /\ s[1] = "{"
    BY <1>9, <1>n, <2>1, AtOne DEF a
  <2>3. s[l] = ","
    BY <1>9, <1>n, AtOne DEF c
  <2>4. s[z] = "}" /\ z \in 1..Len(s)
    BY <1>9, <1>n, AtOne DEF e
  <2> QED
    BY <2>2, <2>3, <2>4
<1>11. PICK f : /\ \A i \in 1..(Len(s) + 1) : f[i] = ReadMembers(s, f, i)
                /\ DecodeRecord(s) = IF s = <<>> THEN {}
                                     ELSE IF s[1] # "{" THEN {}
                                     ELSE IF Len(s) > 1 /\ s[2] = "}" THEN {NoRecord}
                                     ELSE IF f[2].ok THEN {AddMembers(f[2].members)}
                                     ELSE {}
  BY <1>n, DecoderDefined
<1>12. Leads(s, f, 2, m1, k)
  <2>1. At(s, 2, Member(<<"host">>, JsonString(host)))
        /\ k = 2 + Len(Member(<<"host">>, JsonString(host)))
    BY <1>8, <1>9 DEF b
  <2>2. k <= Len(s) /\ 2 \in Nat \ {0}
    BY <1>9
  <2> DEFINE name == <<"host">>
  <2> HIDE DEF name
  <2>3. name \in Seq(Character)
    BY <1>1 DEF name
  <2>4. At(s, 2, Member(name, JsonString(host))) /\ k = 2 + Len(Member(name, JsonString(host)))
    BY <2>1 DEF name
  <2>5. Leads(s, f, 2, Mem(name, TRUE, host), k)
    BY <1>n, <2>2, <2>3, <2>4, StringMember
  <2> QED
    BY <2>5 DEF name, m1
<1>13. Leads(s, f, l + 1, m3, z)
  <2> DEFINE name == <<"port">>
             v == Decimal[port]
  <2>1. At(s, l + 1, Member(name, <<v>>)) /\ z = (l + 1) + Len(Member(name, <<v>>))
    BY <1>8, <1>9 DEF d
  <2>2. z <= Len(s) /\ l + 1 \in Nat \ {0}
    BY <1>9, <1>plus
  <2>3. name \in Seq(Character) /\ v \in Character /\ v # Quote /\ v \notin Ends
    BY <1>1, <1>2
  <2> HIDE DEF name, v
  <2>5. Leads(s, f, l + 1, Mem(name, FALSE, <<v>>), z)
    BY <1>9, <2>1, <2>2, <2>3, ScalarMember
  <2> QED
    BY <2>5 DEF name, v, m3
<1>14. f[l + 1] = Only(m3)
  <2>1. f[l + 1] = ReadMembers(s, f, l + 1)
    BY <1>9, <1>11
  <2> QED
    BY <1>10, <1>13, <2>1 DEF Leads
<1>15. s[2] = Quote
  <2> DEFINE j == 2 + Len(JsonString(<<"host">>))
             name == <<"host">>
             v == JsonString(host)
  <2>1. v \in Seq(Character) /\ name \in Seq(Character)
    BY <1>1, JsonStringType
  <2>2. At(s, 2, Member(name, v)) /\ k = 2 + Len(Member(name, v)) /\ j = 2 + Len(JsonString(name))
    BY <1>8, <1>9 DEF b
  <2> HIDE DEF name, v, j
  <2>3. Gives(ReadString(s, 2), name, j) /\ j \in 1..Len(s)
    <3>1. 2 \in Nat \ {0}
      OBVIOUS
    <3> QED
      BY <1>n, <2>1, <2>2, <3>1, MemberPlaces
  <2>4. ReadString(s, 2).next # 0
    <3>1. ReadString(s, 2).next = j
      BY <2>3 DEF Gives
    <3> QED
      BY <2>3, <3>1
  <2> QED
    BY <1>n, <2>4, QuoteFirst
<1>16. f[2].ok => DecodeRecord(s) = {AddMembers(f[2].members)}
  <2>1. s # <<>>
    <3>1. s = <<>> => Len(s) = 0
      OBVIOUS
    <3>2. 1 \in 1..Len(s) => Len(s) # 0
      BY <1>n
    <3> QED
      BY <1>10, <3>1, <3>2
  <2>2. ~(s[2] = "}")
    BY <1>15 DEF Quote
  <2> QED
    BY <1>10, <1>11, <2>1, <2>2, Zenon
<1>17. f[2] = ReadMembers(s, f, 2)
  BY <1>9, <1>11
<1>18. CASE udp = {}
  <2>1. l = k
    BY <1>5, <1>8, <1>9, <1>18
  <2>2. f[2] = Before(m1, Only(m3))
    <3>1. f[2] = ReadMembers(s, f, 2) /\ s[k] = ","
      BY <1>10, <1>17, <2>1
    <3>2. f[2] = Before(m1, f[k + 1])
      BY <1>12, <3>1 DEF Leads
    <3> QED
      BY <1>14, <2>1, <3>2
  <2>3. f[2].ok = TRUE /\ f[2].members = <<m1, m3>>
    BY <2>2, TwoRead
  <2>4. DecodeRecord(s) = {AddMember(AddMember(NoRecord, m1), m3)}
    BY <1>16, <2>3, TwoMembers
  <2>5. AddMember(NoRecord, m1) = Rec(host, {}, {})
    BY HostAdded DEF m1
  <2>6. AddMember(Rec(host, {}, {}), m3) = Rec(host, {}, {port})
    BY PortAdded DEF m3
  <2> QED
    BY <1>18, <2>4, <2>5, <2>6 DEF Rec, s
<1>19. CASE udp # {}
  <2>1. PICK t \in BOOLEAN : udp = {t} /\ w = IF t THEN "true" ELSE "false"
    <3>1. \E t \in BOOLEAN : udp = {t}
      BY <1>19 DEF MaybeFlag
    <3> QED
      BY <1>w, <3>1
  <2>2. x = c \o u
    BY <1>5, <1>19
  <2>3. At(s, k, c) /\ At(s, k + 1, u) /\ l = (k + 1) + Len(u) /\ s[k] = ","
    <3>1. At(s, k, c \o u)
      BY <1>9, <2>2
    <3>2. At(s, k, c) /\ At(s, k + Len(c), u) /\ Len(c \o u) = Len(c) + Len(u)
      <4>1. \A i \in Nat \ {0} : \A v, y \in Seq(Character) : At(s, i, v \o y) =>
              At(s, i, v) /\ At(s, i + Len(v), y) /\ Len(v \o y) = Len(v) + Len(y)
        BY <1>n, AtConcat
      <4> QED
        <5>1. c \in Seq(Character) /\ u \in Seq(Character) /\ k \in Nat \ {0}
          BY <1>1, <1>4, <1>9
        <5> QED
          BY <3>1, <4>1, <5>1
    <3>3. Len(u) \in Nat
      BY <1>4, Length
    <3>4. k + Len(c) = k + 1 /\ l = (k + 1) + Len(u)
      BY <1>1, <1>8, <1>9, <2>2, <3>2, <3>3
    <3>5. s[k] = ","
      BY <1>9, <1>n, <3>2, AtOne DEF c
    <3> QED
      BY <3>2, <3>4, <3>5
  <2>4. Leads(s, f, k + 1, m2, l)
    <3> DEFINE name == <<"udp">>
    <3>1. At(s, k + 1, Member(name, <<w>>)) /\ l = (k + 1) + Len(Member(name, <<w>>))
      BY <2>3 DEF u
    <3>2. l <= Len(s) /\ k + 1 \in Nat \ {0}
      BY <1>9, <1>plus
    <3>3. name \in Seq(Character)
      BY <1>1
    <3> HIDE DEF name
    <3>5. Leads(s, f, k + 1, Mem(name, FALSE, <<w>>), l)
      BY <1>3, <1>9, <3>1, <3>2, <3>3, ScalarMember
    <3> QED
      BY <3>5 DEF name, m2
  <2>5. f[2] = Before(m1, Before(m2, Only(m3)))
    <3>2. f[2] = Before(m1, f[k + 1])
      BY <1>12, <1>17, <2>3 DEF Leads
    <3>4. f[k + 1] = ReadMembers(s, f, k + 1)
      BY <1>9, <1>11
    <3>5. f[k + 1] = Before(m2, f[l + 1])
      BY <1>10, <2>4, <3>4 DEF Leads
    <3> QED
      BY <1>14, <3>2, <3>5
  <2>6. f[2].ok = TRUE /\ f[2].members = <<m1, m2, m3>>
    BY <2>5, ThreeRead
  <2>7. DecodeRecord(s) = {AddMember(AddMember(AddMember(NoRecord, m1), m2), m3)}
    BY <1>16, <2>6, ThreeMembers
  <2>8. AddMember(NoRecord, m1) = Rec(host, {}, {})
    BY HostAdded DEF m1
  <2>9. AddMember(Rec(host, {}, {}), m2) = Rec(host, {t}, {})
    <3>1. m2 = Mem(<<"udp">>, FALSE, <<IF t THEN "true" ELSE "false">>)
      BY <2>1 DEF m2
    <3> QED
      BY <3>1, UdpAdded
  <2>10. AddMember(Rec(host, {t}, {}), m3) = Rec(host, {t}, {port})
    BY PortAdded DEF m3
  <2> QED
    BY <2>1, <2>7, <2>8, <2>9, <2>10 DEF Rec, s
<1> QED
  BY <1>18, <1>19

-----------------------------------------------------------------------------
(* The command line: whatever is the value of an option stood on it.       *)

\* A value that stood on the command line, or an option taken for one.
GoodValue(v, V) == v \in V \/ DOMAIN v = {"dash"}

Fields(values, flags, rest, open) ==
    [values |-> values, flags |-> flags, rest |-> rest, open |-> open]

GoodArgs(args, V) ==
    /\ args = Fields(args.values, args.flags, args.rest, args.open)
    /\ \A n \in DOMAIN args.values : GoodValue(args.values[n], V)
    /\ args.flags \cap DOMAIN args.values = {}

LEMMA FieldsGood ==
    ASSUME NEW V, NEW values, NEW flags, NEW rest, NEW open,
           \A n \in DOMAIN values : GoodValue(values[n], V),
           flags \cap DOMAIN values = {}
    PROVE  GoodArgs(Fields(values, flags, rest, open), V)
<1> DEFINE args == Fields(values, flags, rest, open)
<1>1. /\ args.values = values /\ args.flags = flags /\ args.rest = rest
      /\ args.open = open
  BY DEF Fields
<1> HIDE DEF args
<1>2. args = Fields(args.values, args.flags, args.rest, args.open)
  BY <1>1 DEF args
<1> QED
  BY <1>1, <1>2 DEF GoodArgs, args

LEMMA SetValueGood ==
    ASSUME NEW V, NEW args, NEW name, NEW v, GoodArgs(args, V), GoodValue(v, V)
    PROVE  GoodArgs(SetValue(args, name, v), V)
<1> DEFINE old == args.values
           values == [n \in DOMAIN old \cup {name} |-> IF n = name THEN v ELSE old[n]]
           flags == args.flags \ {name}
           rest == args.rest
           open == args.open
<1>1. SetValue(args, name, v) = Fields(values, flags, rest, open)
  <2>1. SetValue(args, name, v) = [args EXCEPT !.values = values, !.flags = flags]
    BY Zenon DEF SetValue
  <2> DEFINE f == args.flags
  <2>2. args = [values |-> old, flags |-> f, rest |-> rest, open |-> open]
    BY DEF GoodArgs, Fields
  <2> HIDE DEF values, flags, old, f, rest, open
  <2> DEFINE x == [args EXCEPT !.values = values]
  <2>3. x = [values |-> values, flags |-> f, rest |-> rest, open |-> open]
    BY <2>2
  <2>4. [args EXCEPT !.values = values, !.flags = flags] = [x EXCEPT !.flags = flags]
    BY Zenon
  <2> HIDE DEF x
  <2>5. [x EXCEPT !.flags = flags] = Fields(values, flags, rest, open)
    BY <2>3 DEF Fields
  <2> QED
    BY <2>1, <2>4, <2>5
<1>2. \A n \in DOMAIN values : GoodValue(values[n], V)
  <2>1. \A n \in DOMAIN old : GoodValue(old[n], V)
    BY DEF GoodArgs
  <2> HIDE DEF old
  <2> QED
    BY <2>1
<1>3. flags \cap DOMAIN values = {}
  <2>1. args.flags \cap DOMAIN old = {}
    BY DEF GoodArgs
  <2> HIDE DEF old
  <2> QED
    BY <2>1
<1> HIDE DEF values, flags, rest, open
<1> QED
  BY <1>1, <1>2, <1>3, FieldsGood

LEMMA SetFlagGood ==
    ASSUME NEW V, NEW args, NEW name, GoodArgs(args, V)
    PROVE  GoodArgs(SetFlag(args, name), V)
<1> DEFINE old == args.values
           values == [n \in DOMAIN old \ {name} |-> old[n]]
           flags == args.flags \cup {name}
           rest == args.rest
           open == args.open
<1>1. SetFlag(args, name) = Fields(values, flags, rest, open)
  <2>1. SetFlag(args, name) = [args EXCEPT !.values = values, !.flags = flags]
    BY Zenon DEF SetFlag
  <2> DEFINE f == args.flags
  <2>2. args = [values |-> old, flags |-> f, rest |-> rest, open |-> open]
    BY DEF GoodArgs, Fields
  <2> HIDE DEF values, flags, old, f, rest, open
  <2> DEFINE x == [args EXCEPT !.values = values]
  <2>3. x = [values |-> values, flags |-> f, rest |-> rest, open |-> open]
    BY <2>2
  <2>4. [args EXCEPT !.values = values, !.flags = flags] = [x EXCEPT !.flags = flags]
    BY Zenon
  <2> HIDE DEF x
  <2>5. [x EXCEPT !.flags = flags] = Fields(values, flags, rest, open)
    BY <2>3 DEF Fields
  <2> QED
    BY <2>1, <2>4, <2>5
<1>2. \A n \in DOMAIN values : GoodValue(values[n], V)
  <2>1. \A n \in DOMAIN old : GoodValue(old[n], V)
    BY DEF GoodArgs
  <2> HIDE DEF old
  <2> QED
    BY <2>1
<1>3. flags \cap DOMAIN values = {}
  <2>1. args.flags \cap DOMAIN old = {}
    BY DEF GoodArgs
  <2> HIDE DEF old
  <2> QED
    BY <2>1
<1> HIDE DEF values, flags, rest, open
<1> QED
  BY <1>1, <1>2, <1>3, FieldsGood

LEMMA OtherFieldsGood ==
    ASSUME NEW V, NEW args, NEW x, GoodArgs(args, V)
    PROVE  /\ GoodArgs([args EXCEPT !.open = x], V)
           /\ GoodArgs([args EXCEPT !.rest = Append(@, x)], V)
<1> DEFINE values == args.values
           flags == args.flags
           rest == args.rest
           open == args.open
<1>1. args = [values |-> values, flags |-> flags, rest |-> rest, open |-> open]
  BY DEF GoodArgs, Fields
<1>2. (\A n \in DOMAIN values : GoodValue(values[n], V)) /\ flags \cap DOMAIN values = {}
  BY DEF GoodArgs
<1> HIDE DEF values, flags, rest, open
<1>3. [args EXCEPT !.open = x] = Fields(values, flags, rest, x)
  BY <1>1 DEF Fields
<1>4. [args EXCEPT !.rest = Append(@, x)] = Fields(values, flags, Append(rest, x), open)
  BY <1>1 DEF Fields
<1> QED
  BY <1>2, <1>3, <1>4, FieldsGood

LEMMA ParseTokenGood ==
    ASSUME NEW V, NEW args, NEW token, GoodArgs(args, V),
           IF token.dashes = 0 THEN token.value \in V ELSE token.eq \subseteq V
    PROVE  GoodArgs(ParseToken(args, token), V)
<1> DEFINE name  == ValueOr(args.open, "")
           base  == IF args.open = {} THEN args ELSE SetFlag(args, name)
           ended == [base EXCEPT !.open = {}]
           v     == AsValue(token)
<1>1. GoodValue(v, V)
  BY DEF AsValue, GoodValue
<1>2. GoodArgs(base, V)
  BY SetFlagGood
<1> HIDE DEF base
<1>3. GoodArgs(ended, V)
  BY <1>2, OtherFieldsGood
<1>4. ParseToken(args, token) =
        IF args.open # {} /\ token.dashes # 2
        THEN [SetValue(args, name, v) EXCEPT !.open = {}]
        ELSE IF token.dashes = 0
        THEN [ended EXCEPT !.rest = Append(@, token.value)]
        ELSE IF token.eq # {}
        THEN SetValue(ended, token.name, ValueOr(token.eq, Empty))
        ELSE [ended EXCEPT !.open = {token.name}]
  BY Zenon DEF ParseToken, base
<1> DEFINE w == ValueOr(token.eq, Empty)
<1>5. token.dashes # 0 /\ token.eq # {} => GoodValue(w, V)
  BY DEF ValueOr, GoodValue
<1> HIDE DEF name, ended, v, w
<1>6. GoodArgs([SetValue(args, name, v) EXCEPT !.open = {}], V)
  BY <1>1, SetValueGood, OtherFieldsGood
<1>7. GoodArgs([ended EXCEPT !.rest = Append(@, token.value)], V)
  BY <1>3, OtherFieldsGood
<1>8. token.dashes # 0 /\ token.eq # {} => GoodArgs(SetValue(ended, token.name, w), V)
  BY <1>3, <1>5, SetValueGood
<1>9. GoodArgs([ended EXCEPT !.open = {token.name}], V)
  BY <1>3, OtherFieldsGood
<1> QED
  BY <1>4, <1>6, <1>7, <1>8, <1>9, Zenon DEF w

LEMMA ParseArgvGood ==
    ASSUME NEW argv, Len(argv) \in Nat
    PROVE  GoodArgs(ParseArgv(argv), Values(argv))
<1> DEFINE n == Len(argv)
           V == Values(argv)
           none == [values |-> [m \in {} |-> Empty], flags |-> {}, rest |-> <<>>,
                    open |-> {}]
           Def(f, m) == f = [k \in 0..m |-> IF k = 0 THEN none
                                            ELSE ParseToken(f[k - 1], argv[k])]
           S == {m \in Nat : \E f : Def(f, m)}
<1>0. GoodArgs(none, V)
  <2>1. none = Fields([m \in {} |-> Empty], {}, <<>>, {})
    BY DEF Fields
  <2> HIDE DEF none
  <2> QED
    BY <2>1, FieldsGood
<1> HIDE DEF none
<1>1. 0 \in S
  <2>1. Def([k \in 0..0 |-> none], 0)
    OBVIOUS
  <2> QED
    BY <2>1
<1>2. ASSUME NEW m \in S PROVE m + 1 \in S
  <2>1. m \in Nat
    OBVIOUS
  <2>2. PICK f : Def(f, m)
    OBVIOUS
  <2> DEFINE g == [k \in 0..(m + 1) |-> IF k = 0 THEN none
                                        ELSE ParseToken(f[k - 1], argv[k])]
  <2>3. \A k \in 0..m : g[k] = f[k]
    BY <2>1, <2>2
  <2>4. \A k \in 0..(m + 1) : k # 0 => k - 1 \in 0..m
    BY <2>1
  <2>5. Def(g, m + 1)
    BY <2>3, <2>4
  <2>6. m + 1 \in Nat
    BY <2>1
  <2> QED
    BY <2>5, <2>6
<1>3. S = Nat
  <2> HIDE DEF S
  <2>1. S \in SUBSET Nat
    BY DEF S
  <2> QED
    BY <1>1, <1>2, <2>1, Induction
<1> DEFINE after == CHOOSE f : Def(f, n)
           args == after[n]
<1>5. Def(after, n)
  <2>1. \E f : Def(f, n)
    BY <1>3
  <2> HIDE DEF Def, n
  <2> QED
    BY <2>1
<1>6. ParseArgv(argv) = IF args.open = {} THEN args ELSE SetFlag(args, ValueOr(args.open, ""))
  BY Zenon DEF ParseArgv, none
<1> HIDE DEF after
<1>7. after[0] = none /\ \A k \in 1..n : after[k] = ParseToken(after[k - 1], argv[k])
  <2>1. n \in Nat
    OBVIOUS
  <2> HIDE DEF n
  <2> QED
    BY <1>5, <2>1
<1>8. \A k \in 1..n : IF argv[k].dashes = 0 THEN argv[k].value \in V ELSE argv[k].eq \subseteq V
  BY DEF Values
<1> DEFINE T == {k \in Nat : k <= n => GoodArgs(after[k], V)}
<1>9. T = Nat
  <2> HIDE DEF V, n
  <2>1. 0 \in T
    BY <1>0, <1>7
  <2>2. ASSUME NEW k \in T PROVE k + 1 \in T
    <3>1. k \in Nat /\ k + 1 \in Nat
      OBVIOUS
    <3> SUFFICES ASSUME k + 1 <= n PROVE GoodArgs(after[k + 1], V)
      BY <3>1
    <3>2. n \in Nat
      BY DEF n
    <3>3. k + 1 \in 1..n /\ (k + 1) - 1 = k /\ k <= n
      BY <3>1, <3>2
    <3>4. after[k + 1] = ParseToken(after[k], argv[k + 1])
      BY <1>7, <3>3
    <3>5. GoodArgs(after[k], V)
      BY <3>3
    <3> QED
      BY <1>8, <3>3, <3>4, <3>5, ParseTokenGood
  <2> HIDE DEF T
  <2>3. T \in SUBSET Nat
    BY DEF T
  <2> QED
    BY <2>1, <2>2, <2>3, Induction
<1>10. GoodArgs(args, V)
  <2>1. n \in T /\ n <= n
    BY <1>9
  <2> HIDE DEF V, n
  <2> QED
    BY <2>1
<1> HIDE DEF args, V
<1>11. GoodArgs(SetFlag(args, ValueOr(args.open, "")), V)
  BY <1>10, SetFlagGood
<1>12. GoodArgs(ParseArgv(argv), V)
  BY <1>6, <1>10, <1>11
<1> QED
  BY <1>12 DEF V

-----------------------------------------------------------------------------
(* The options of a server.                                                *)

LEMMA TheValue ==
    ASSUME NEW x, NEW d
    PROVE  ValueOr({x}, d) = x
BY DEF ValueOr

LEMMA LivePort ==
    ASSUME NEW argv \in ServerLines, NEW args, args = ParseArgv(argv),
           Validate(args) = {}, Dispatch(args) = "server"
    PROVE  \E n \in DOMAIN Decimal \cap Ports : Number(args, "live") = {n}
<1> DEFINE l == "live"
<1>1. Truthy(args, l)
  BY DEF Dispatch
<1>2. ValidPort(args, l)
  BY <1>1 DEF Validate
<1>3. GoodArgs(args, Values(argv))
  BY LinesAssumption, ParseArgvGood DEF LinesAssumption
<1> HIDE DEF l
<1>4. PICK n \in Number(args, l) : n \in PortNumbers
  BY <1>2 DEF ValidPort
<1>5. PICK v : v \in Str(args, l) /\ "num" \in DOMAIN v /\ n = v.num
  BY <1>4 DEF Number
<1>6. Str(args, l) = {v} /\ v = args.values[l] /\ l \in DOMAIN args.values
  BY <1>5 DEF Str
<1>7. l \notin args.flags /\ GoodValue(v, Values(argv))
  BY <1>3, <1>6 DEF GoodArgs
<1>8. v \in Values(argv)
  <2>1. "num" # "dash"
    OBVIOUS
  <2> QED
    BY <1>5, <1>7, <2>1 DEF GoodValue
<1>9. n # 0
  <2>1. ~Boolean(args, l)
    BY <1>7 DEF Boolean
  <2>2. PICK w \in Str(args, l) : IF "num" \in DOMAIN w THEN w.num # 0 ELSE w # Empty
    BY <1>1, <2>1, Zenon DEF Truthy
  <2>3. w = v
    BY <1>6, <2>2
  <2> QED
    BY <1>5, <2>2, <2>3
<1>10. n \in Ports
  BY <1>4, <1>9 DEF Ports, PortNumbers
<1>11. n \in DOMAIN Decimal
  BY <1>5, <1>8, <1>10, LinesAssumption DEF LinesAssumption
<1>12. Number(args, l) = {n}
  BY <1>5, <1>6 DEF Number
<1> QED
  BY <1>10, <1>11, <1>12 DEF l

LEMMA HostType ==
    ASSUME NEW argv \in ServerLines, NEW args, args = ParseArgv(argv)
    PROVE  ValueOr(HostOf(args), DefaultHost) \in Seq(Character) \ {<<>>}
<1>1. GoodArgs(args, Values(argv))
  BY LinesAssumption, ParseArgvGood DEF LinesAssumption
<1>2. ASSUME NEW h \in HostOf(args) PROVE h \in Seq(Character) \ {<<>>}
  <2>1. PICK v : v \in Str(args, "host") /\ "host" \in DOMAIN v /\ h = v.host
    BY DEF HostOf
  <2>2. GoodValue(v, Values(argv))
    BY <1>1, <2>1 DEF GoodArgs, Str
  <2>3. "host" # "dash"
    OBVIOUS
  <2>4. v \in Values(argv)
    BY <2>1, <2>2, <2>3 DEF GoodValue
  <2> QED
    BY <2>1, <2>4, LinesAssumption DEF LinesAssumption
<1>3. DefaultHost \in Seq(Character) \ {<<>>}
  BY LinesAssumption DEF LinesAssumption
<1> QED
  BY <1>2, <1>3 DEF ValueOr

LEMMA KeyChosen ==
    ASSUME NEW argv \in ServerLines, NEW args, args = ParseArgv(argv)
    PROVE  \A t \in {TextOf(v) : v \in Str(args, "key")} : t.key \in Chosen \cup {<<>>}
<1>1. GoodArgs(args, Values(argv))
  BY LinesAssumption, ParseArgvGood DEF LinesAssumption
<1> SUFFICES ASSUME NEW v \in Str(args, "key")
             PROVE  TextOf(v).key \in Chosen \cup {<<>>}
  OBVIOUS
<1>2. GoodValue(v, Values(argv))
  BY <1>1 DEF GoodArgs, Str
<1>3. CASE "text" \in DOMAIN v
  <2>1. "text" # "dash"
    OBVIOUS
  <2>2. v \in Values(argv)
    BY <1>2, <1>3, <2>1 DEF GoodValue
  <2>3. v.text.key \in Chosen \cup {<<>>}
    BY <1>3, <2>2, LinesAssumption DEF LinesAssumption
  <2> QED
    BY <1>3, <2>3 DEF TextOf
<1>4. CASE "text" \notin DOMAIN v
  BY <1>4 DEF TextOf, Bare
<1> QED
  BY <1>3, <1>4

\* What is known of the options that a server is started with.
GoodOptions(o) ==
    /\ o.server = TRUE
    /\ ValueOr(o.key, Bare(<<>>)).key \in Chosen \cup {<<>>}
    /\ ValueOr(o.udp, FALSE) \in BOOLEAN
    /\ ValueOr(o.port, 0) \in DOMAIN Decimal \cap Ports
    /\ ValueOr(o.host, DefaultHost) \in Seq(Character) \ {<<>>}

LEMMA ServerOptionsGood ==
    ASSUME NEW argv \in ServerLines, NEW args, args = ParseArgv(argv),
           Validate(args) = {}, Dispatch(args) = "server"
    PROVE  GoodOptions(ServerOptions(args))
<1> DEFINE o == ServerOptions(args)
           keys == {TextOf(v) : v \in Str(args, "key")}
           host == ValueOr(HostOf(args), DefaultHost)
<1>1. o.server = TRUE /\ o.port = Number(args, "live") /\ o.host = {host}
      /\ o.udp = UdpOf(args) /\ o.key = keys
  BY DEF ServerOptions
<1> HIDE DEF o
<1>2. ValueOr(o.key, Bare(<<>>)).key \in Chosen \cup {<<>>}
  <2>1. \A t \in keys : t.key \in Chosen \cup {<<>>}
    BY KeyChosen
  <2>2. Bare(<<>>).key = <<>>
    BY DEF Bare
  <2> HIDE DEF keys
  <2>3. keys = {} => ValueOr(keys, Bare(<<>>)) = Bare(<<>>)
    BY DEF ValueOr
  <2>4. keys # {} => ValueOr(keys, Bare(<<>>)) \in keys
    BY DEF ValueOr
  <2> QED
    BY <1>1, <2>1, <2>2, <2>3, <2>4
<1>3. ValueOr(o.udp, FALSE) \in BOOLEAN
  <2>1. Truthy(args, "udp") \in BOOLEAN
    BY Zenon DEF Truthy
  <2>2. UdpOf(args) = {Truthy(args, "udp")} \/ UdpOf(args) = {}
    BY DEF UdpOf
  <2>3. ValueOr({}, FALSE) = FALSE
    BY DEF ValueOr
  <2> DEFINE t == Truthy(args, "udp")
  <2>4. ValueOr({t}, FALSE) = t
    BY TheValue
  <2> HIDE DEF t
  <2>5. CASE UdpOf(args) = {t}
    BY <1>1, <2>1, <2>4, <2>5 DEF t
  <2>6. CASE UdpOf(args) = {}
    BY <1>1, <2>3, <2>6
  <2> QED
    BY <2>2, <2>5, <2>6 DEF t
<1>4. ValueOr(o.port, 0) \in DOMAIN Decimal \cap Ports
  <2>1. PICK n \in DOMAIN Decimal \cap Ports : Number(args, "live") = {n}
    BY LivePort
  <2>2. ValueOr({n}, 0) = n
    BY TheValue
  <2> QED
    BY <1>1, <2>1, <2>2
<1>5. ValueOr(o.host, DefaultHost) \in Seq(Character) \ {<<>>}
  <2>1. host \in Seq(Character) \ {<<>>}
    BY HostType
  <2> HIDE DEF host
  <2> QED
    BY <1>1, <2>1, TheValue
<1> QED
  BY <1>1, <1>2, <1>3, <1>4, <1>5 DEF GoodOptions, o

-----------------------------------------------------------------------------
(* The inductive invariant.                                                *)

\* A server's identity, the string it prints and its record.
GoodServer(srv) ==
    /\ srv.secure \in BOOLEAN /\ srv.public \in RawKeys
    /\ srv.secure => /\ srv.key \in Chosen
                     /\ srv.public = KeyPair(Sha256(srv.key))
                     /\ srv.url = Url("s", srv.key)
    /\ ~srv.secure => /\ srv.key \in Chosen \cup {<<>>}
                      /\ srv.url = Url("0", Z32Encode(srv.public))
    /\ srv.host \in Seq(Character) \ {<<>>}
    /\ srv.udp \in BOOLEAN
    /\ srv.port \in DOMAIN Decimal \cap Ports
    /\ srv.record = EncodeRecord(srv.host, IF srv.udp THEN {TRUE} ELSE {}, srv.port)

\* What a client made of what it was given, and the record it may have heard.
GoodClient(c) ==
    /\ c.secure \in BOOLEAN
    /\ TRUE \in c.options.secure => c.options.secure = {TRUE}
    /\ c.secure <=> ParseUrl(c.given).secure \/ TRUE \in c.options.secure
    /\ c.secure => /\ c.public = {c.identity}
                   /\ c.identity = KeyPair(Sha256(c.given.key))
    /\ ~c.secure => /\ c.public = {r \in Z32Decode(c.given.key) : Len(r) = KeyBytes}
                    /\ c.identity = Nobody
    /\ c.heard # <<>> => \E srv \in server : c.heard = srv.record
    /\ c.resolved = Resolve(c.options, DecodeRecord(c.heard))

\* The same of a lookup.
GoodFound(f) ==
    /\ f.secure \in BOOLEAN
    /\ f.secure <=> ParseUrl(f.given).secure
    /\ f.secure => KeyPair(Sha256(f.given.key)) \in f.asked
    /\ ~f.secure => {r \in Z32Decode(f.given.key) : Len(r) = KeyBytes} \subseteq f.asked
    /\ f.heard => \E srv \in server :
          f.record = {[host |-> srv.host, port |-> srv.port, udp |-> srv.udp]}

RendezvousInv ==
    /\ \A srv \in server : GoodServer(srv)
    /\ \A s, t \in server : s = t
    /\ server = {} => client = {} /\ found = {}
    /\ \A c \in client : GoodClient(c)
    /\ \A f \in found : GoodFound(f)

\* A string that begins with "hs://s" says that the link is secure.
LEMMA SecureString ==
    \A k : Url("s", k).key = k /\ ParseUrl(Url("s", k)).secure
<1> TAKE k
<1> DEFINE url == Url("s", k)
<1>1. url.key = k /\ url.scheme = TRUE /\ url.mode = "s"
  BY DEF Url
<1> HIDE DEF url
<1>2. ParseUrl(url).secure = IF url.scheme THEN url.mode = "s" ELSE SixthS(url.key)
  BY DEF ParseUrl
<1>3. ParseUrl(url).secure = TRUE
  BY <1>1, <1>2
<1> QED
  BY <1>1, <1>3 DEF url

LEMMA SixthBoolean == \A key : SixthS(key) \in BOOLEAN
<1> TAKE key
<1>1. CASE key \in Chosen
  BY <1>1 DEF SixthS
<1>2. CASE key \notin Chosen
  BY <1>2 DEF SixthS
<1> QED
  BY <1>1, <1>2

LEMMA EmptyText == <<>> \notin Chosen
<1>1. \A k \in Chosen : k \notin Seq(Letter)
  BY KeysAssumption DEF KeysAssumption
<1>2. <<>> \in Seq(Letter)
  OBVIOUS
<1> QED
  BY <1>1, <1>2

\* Without a collision, a digest is the digest of one key only.
LEMMA KeyOfIdentity ==
    ASSUME NEW k \in Chosen, NEW l, KeyPair(Sha256(l)) = KeyPair(Sha256(k))
    PROVE  l = k
<1>1. /\ \A x \in Chosen : Digest[x] \in DOMAIN PublicKey
      /\ \A s \in DOMAIN PublicKey : PublicKey[s] # Nobody
      /\ \A x, y \in Chosen : Digest[x] = Digest[y] => x = y
      /\ \A s, t \in DOMAIN PublicKey : PublicKey[s] = PublicKey[t] => s = t
      /\ Nobody \notin DOMAIN PublicKey
  BY KeysAssumption, RandomAssumption DEF KeysAssumption, RandomAssumption
<1>2. KeyPair(Sha256(k)) = PublicKey[Digest[k]] /\ Digest[k] \in DOMAIN PublicKey
  BY <1>1 DEF KeyPair, Sha256
<1>3. l \in Chosen
  <2>1. l \notin Chosen => KeyPair(Sha256(l)) = Nobody
    BY <1>1 DEF KeyPair, Sha256
  <2> QED
    BY <1>1, <1>2, <2>1
<1>4. KeyPair(Sha256(l)) = PublicKey[Digest[l]] /\ Digest[l] \in DOMAIN PublicKey
  BY <1>1, <1>3 DEF KeyPair, Sha256
<1> QED
  BY <1>1, <1>2, <1>3, <1>4

\* The seed that derive writes down is the seed the server takes.
LEMMA SeedRead ==
    ASSUME NEW data \in RawKeys
    PROVE  (CHOOSE s \in FromHex(ToHex(data)) : TRUE) = data
<1>1. FromHex(ToHex(data)) = {data}
  BY RawKeyFacts, HexRoundTrip
<1> QED
  BY <1>1

LEMMA StartedGood ==
    ASSUME NEW options, GoodOptions(options)
    PROVE  GoodServer(Started(options))
<1> DEFINE derived == Derive(options)
           parsed == ParseUrl(ValueOr(options.key, Bare(<<>>)))
           secure == parsed.secure \/ TRUE \in options.secure
           key    == IF parsed.key = <<>> /\ secure THEN RandomKey ELSE parsed.key
           seed   == Seed(derived)
           udp    == ValueOr(options.udp, FALSE)
           port   == ValueOr(options.port, 0)
           host   == ValueOr(options.host, DefaultHost)
           srv    == Started(options)
<1>1. options.server = TRUE /\ parsed.key \in Chosen \cup {<<>>}
  BY DEF GoodOptions, ParseUrl
<1>2. derived = [secure |-> secure, key |-> key,
                 seed |-> IF key # <<>> THEN {ToHex(Sha256(key))} ELSE {}]
  BY <1>1 DEF Derive
<1>b. secure \in BOOLEAN
  BY Zenon
<1> HIDE DEF derived, parsed, secure
<1>3. derived.secure = secure /\ derived.key = key
      /\ derived.seed = IF key # <<>> THEN {ToHex(Sha256(key))} ELSE {}
  BY <1>2
<1>4. secure => key \in Chosen
  BY <1>1, RandomAssumption DEF RandomAssumption
<1>5. ~secure => key \in Chosen \cup {<<>>}
  BY <1>1
<1>6. key # <<>> => seed = Sha256(key)
  <2> SUFFICES ASSUME key # <<>> PROVE seed = Sha256(key)
    OBVIOUS
  <2> DEFINE d == Sha256(key)
  <2>1. d \in RawKeys
    BY DigestType
  <2>2. derived.seed = {ToHex(d)}
    BY <1>3
  <2> HIDE DEF key, d
  <2>3. ValueOr(derived.seed, ToHex(RandomSeed)) = ToHex(d)
    BY <2>2, TheValue
  <2>4. seed = CHOOSE s \in FromHex(ToHex(d)) : TRUE
    BY <2>3 DEF Seed
  <2>5. seed = d
    BY <2>1, <2>4, SeedRead
  <2> QED
    BY <2>5 DEF d
<1> HIDE DEF key, seed, udp, port, host
<1>7. /\ srv.secure = secure /\ srv.key = key /\ srv.public = KeyPair(seed)
      /\ srv.udp = udp /\ srv.port = port /\ srv.host = host
      /\ srv.record = EncodeRecord(host, IF udp THEN {TRUE} ELSE {}, port)
      /\ srv.url = MakeUrl(secure, InfoKey(derived, OwnKey(secure, seed)))
  BY <1>3 DEF Started, derived, seed, udp, port, host
<1> HIDE DEF srv
<1>8. srv.public \in RawKeys
  BY <1>7, DigestType
<1>9. ASSUME secure
      PROVE  srv.key \in Chosen /\ srv.public = KeyPair(Sha256(srv.key))
             /\ srv.url = Url("s", srv.key)
  <2>1. key \in Chosen /\ key # <<>>
    BY <1>4, <1>9, EmptyText
  <2>2. InfoKey(derived, OwnKey(secure, seed)) = key
    BY <1>3, <1>9, <2>1 DEF InfoKey
  <2>3. srv.url = Url("s", key)
    BY <1>7, <1>9, <2>2 DEF MakeUrl
  <2> QED
    BY <1>6, <1>7, <2>1, <2>3
<1>10. ASSUME ~secure
       PROVE  srv.key \in Chosen \cup {<<>>} /\ srv.url = Url("0", Z32Encode(srv.public))
  <2>1. InfoKey(derived, OwnKey(secure, seed)) = OwnKey(secure, seed)
    BY <1>3, <1>10 DEF InfoKey
  <2>2. OwnKey(secure, seed) = Z32Encode(srv.public)
    BY <1>7, <1>10 DEF OwnKey
  <2>3. srv.url = Url("0", Z32Encode(srv.public))
    BY <1>7, <1>10, <2>1, <2>2 DEF MakeUrl
  <2> QED
    BY <1>5, <1>7, <1>10, <2>3
<1>11. /\ srv.host \in Seq(Character) \ {<<>>} /\ srv.udp \in BOOLEAN
       /\ srv.port \in DOMAIN Decimal \cap Ports
       /\ srv.record = EncodeRecord(srv.host, IF srv.udp THEN {TRUE} ELSE {}, srv.port)
  BY <1>7 DEF GoodOptions, host, udp, port
<1> QED
  BY <1>b, <1>7, <1>8, <1>9, <1>10, <1>11 DEF GoodServer, srv

\* Somebody who hears the record of a server reads its endpoint.
LEMMA RecordRead ==
    ASSUME NEW srv, GoodServer(srv)
    PROVE  DecodeRecord(srv.record) = {Rec(srv.host, IF srv.udp THEN {TRUE} ELSE {}, {srv.port})}
<1> DEFINE host == srv.host
           port == srv.port
           udp == IF srv.udp THEN {TRUE} ELSE {}
<1>1. host \in Seq(Character) /\ port \in DOMAIN Decimal /\ port \in Ports
      /\ srv.record = EncodeRecord(host, udp, port)
  BY DEF GoodServer
<1>2. udp \in MaybeFlag
  BY DEF MaybeFlag
<1> HIDE DEF host, port, udp
<1>3. DecodeRecord(srv.record) = {[host |-> host, udp |-> udp, port |-> {port}]}
  BY <1>1, <1>2, RecordRoundTrip
<1> QED
  BY <1>3 DEF Rec, host, port, udp

LEMMA NothingRead == DecodeRecord(<<>>) = {}
<1>1. Len(<<>>) \in Nat
  OBVIOUS
<1> DEFINE s == <<>>
<1> HIDE DEF s
<1>2. Len(s) \in Nat /\ s = <<>>
  BY <1>1 DEF s
<1>3. PICK f : DecodeRecord(s) = IF s = <<>> THEN {}
                                 ELSE IF s[1] # "{" THEN {}
                                 ELSE IF Len(s) > 1 /\ s[2] = "}" THEN {NoRecord}
                                 ELSE IF f[2].ok THEN {AddMembers(f[2].members)}
                                 ELSE {}
  BY <1>2, DecoderDefined
<1> QED
  BY <1>2, <1>3

\* An optional flag that is only there when it is set.
LEMMA FlagRead ==
    ASSUME NEW b \in BOOLEAN
    PROVE  ValueOr(IF b THEN {TRUE} ELSE {}, FALSE) = b
<1>1. CASE b = TRUE
  BY <1>1, TheValue
<1>2. CASE b = FALSE
  BY <1>2 DEF ValueOr
<1> QED
  BY <1>1, <1>2

\* The record of a server, as it is read.
Heard(host, b, port) == Rec(host, IF b THEN {TRUE} ELSE {}, {port})

LEMMA ResolveHeard ==
    ASSUME NEW options, NEW host, host # <<>>, NEW port, NEW b \in BOOLEAN, NEW r,
           r = Heard(host, b, port)
    PROVE  /\ options.udp = {} => Resolve(options, {r}).udp = b
           /\ options.port = {} => Resolve(options, {r}).port = port
           /\ options.host = {} => Resolve(options, {r}).host = host
<1> DEFINE flag == IF b THEN {TRUE} ELSE {}
           Prefer(own, S) == IF own # {} THEN own ELSE S
           h == IF r.host = <<>> THEN {} ELSE {r.host}
<1>1. r.host = host /\ r.udp = flag /\ r.port = {port}
  BY DEF Rec, Heard
<1>2. ValueOr({r}, NoRecord) = r
  BY TheValue
<1>3. Resolve(options, {r}) =
        [port |-> ValueOr(Prefer(options.port, r.port), DefaultPort),
         host |-> ValueOr(Prefer(options.host, h), DefaultHost),
         udp  |-> ValueOr(Prefer(options.udp, r.udp), FALSE)]
  BY <1>2 DEF Resolve
<1>4. h = {host}
  BY <1>1
<1>p. Prefer(options.port, r.port) = Prefer(options.port, {port})
      /\ Prefer(options.host, h) = Prefer(options.host, {host})
      /\ Prefer(options.udp, r.udp) = Prefer(options.udp, flag)
  BY <1>1, <1>4
<1> HIDE DEF h, flag, Prefer
<1>5. /\ Resolve(options, {r}).port = ValueOr(Prefer(options.port, {port}), DefaultPort)
      /\ Resolve(options, {r}).host = ValueOr(Prefer(options.host, {host}), DefaultHost)
      /\ Resolve(options, {r}).udp = ValueOr(Prefer(options.udp, flag), FALSE)
  <2> DEFINE x == ValueOr(Prefer(options.port, r.port), DefaultPort)
             y == ValueOr(Prefer(options.host, h), DefaultHost)
             z == ValueOr(Prefer(options.udp, r.udp), FALSE)
  <2>1. Resolve(options, {r}) = [port |-> x, host |-> y, udp |-> z]
    BY <1>3
  <2> HIDE DEF x, y, z
  <2>2. /\ Resolve(options, {r}).port = x /\ Resolve(options, {r}).host = y
        /\ Resolve(options, {r}).udp = z
    BY <2>1
  <2> QED
    BY <1>p, <2>2 DEF x, y, z
<1>6. /\ ValueOr({port}, DefaultPort) = port /\ ValueOr({host}, DefaultHost) = host
      /\ ValueOr(flag, FALSE) = b
  BY TheValue, FlagRead DEF flag
<1>7. \A S : Prefer({}, S) = S
  BY DEF Prefer
<1> QED
  BY <1>5, <1>6, <1>7

LEMMA ConnectGood ==
    ASSUME NEW argv, Connect(argv)
    PROVE  \A c \in client' : GoodClient(c)
<1> DEFINE args    == ParseArgv(argv)
           options == ClientOptions(args)
           given   == ValueOr(options.key, Bare(<<>>))
           derived == Derive(options)
           target  == Target(derived)
           secure  == ParseUrl(given).secure \/ TRUE \in options.secure
<1>1. PICK heard \in Answers(ValueOr(target.public, Nobody)) :
        client' = {[given    |-> given,
                    options  |-> options,
                    secure   |-> derived.secure,
                    public   |-> target.public,
                    identity |-> target.identity,
                    heard    |-> heard,
                    resolved |-> Resolve(options, DecodeRecord(heard))]}
  BY Zenon DEF Connect
<1>2. options.server = FALSE /\ options.secure = SecureOf(args)
  BY DEF ClientOptions
<1>3. TRUE \in options.secure => options.secure = {TRUE}
  BY <1>2 DEF SecureOf
<1> HIDE DEF options, given
<1>4. derived.secure = secure /\ derived.key = given.key
  BY <1>2 DEF Derive, ParseUrl, given
<1>b. secure \in BOOLEAN
  BY Zenon
<1> HIDE DEF derived, secure
<1>5. ASSUME secure
      PROVE  target.public = {target.identity}
             /\ target.identity = KeyPair(Sha256(given.key))
  BY <1>4, <1>5 DEF Target
<1>6. ASSUME ~secure
      PROVE  target.public = {r \in Z32Decode(given.key) : Len(r) = KeyBytes}
             /\ target.identity = Nobody
  BY <1>4, <1>6 DEF Target
<1> HIDE DEF target
<1>7. heard # <<>> => \E srv \in server : heard = srv.record
  BY <1>1 DEF Answers
<1> SUFFICES ASSUME NEW c \in client' PROVE GoodClient(c)
  OBVIOUS
<1>8. /\ c.given = given /\ c.options = options /\ c.secure = secure
      /\ c.public = target.public /\ c.identity = target.identity
      /\ c.heard = heard /\ c.resolved = Resolve(options, DecodeRecord(heard))
  BY <1>1, <1>4
<1>9. c.secure \in BOOLEAN
  BY <1>b, <1>8
<1>10. c.secure <=> ParseUrl(c.given).secure \/ TRUE \in c.options.secure
  BY <1>8 DEF secure
<1> QED
  BY <1>b, <1>3, <1>5, <1>6, <1>7, <1>8, <1>9, <1>10 DEF GoodClient

LEMMA LookupGood ==
    ASSUME NEW argv, Lookup(argv), \A srv \in server : GoodServer(srv),
           \A s, t \in server : s = t
    PROVE  \A f \in found' : GoodFound(f)
<1> DEFINE args   == ParseArgv(argv)
           given  == TextOf(ValueOr(Str(args, "lookup"), Empty))
           parsed == ParseUrl(given)
           arg    == IF parsed.secure THEN Z32Encode(Sha256(parsed.key)) ELSE parsed.key
           raw    == {r \in Z32Decode(arg) : Len(r) = KeyBytes}
           pair   == {KeyPair(r) : r \in raw}
           Reported(r) == [host |-> r.host, port |-> ValueOr(r.port, 0),
                           udp |-> ValueOr(r.udp, FALSE)]
           heard(p, q) == p # <<>> \/ q # <<>>
           record(p, q) == IF DecodeRecord(p) # {} THEN DecodeRecord(p) ELSE DecodeRecord(q)
<1>1. PICK primary  \in Answers(ValueOr(pair, Nobody)),
           fallback \in Answers(ValueOr(raw, Nobody)) :
        found' = {[given  |-> given,
                   secure |-> parsed.secure,
                   asked  |-> pair \cup raw,
                   heard  |-> heard(primary, fallback),
                   record |-> {Reported(r) : r \in record(primary, fallback)}]}
  BY Zenon DEF Lookup
<1> SUFFICES ASSUME NEW f \in found' PROVE GoodFound(f)
  OBVIOUS
<1> DEFINE rec == {Reported(r) : r \in record(primary, fallback)}
           any == heard(primary, fallback)
<1>2. /\ f.given = given /\ f.secure = parsed.secure /\ f.asked = pair \cup raw
      /\ f.heard = any /\ f.record = rec
  <2>1. found' = {[given |-> given, secure |-> parsed.secure, asked |-> pair \cup raw,
                   heard |-> any, record |-> rec]}
    BY <1>1
  <2> HIDE DEF given, parsed, pair, raw, any, rec
  <2>2. f = [given |-> given, secure |-> parsed.secure, asked |-> pair \cup raw,
             heard |-> any, record |-> rec]
    BY <2>1
  <2> QED
    BY <2>2
<1>3. parsed.key = given.key
  BY DEF ParseUrl
<1>b. parsed.secure \in BOOLEAN
  <2> DEFINE s == IF given.scheme THEN given.mode = "s" ELSE SixthS(given.key)
  <2>1. parsed = [key |-> given.key, secure |-> s]
    BY DEF ParseUrl
  <2>2. s \in BOOLEAN
    <3>1. SixthS(given.key) \in BOOLEAN /\ (given.mode = "s") \in BOOLEAN
      BY SixthBoolean
    <3>2. CASE given.scheme
      BY <3>1, <3>2
    <3>3. CASE ~given.scheme
      BY <3>1, <3>3
    <3> QED
      BY <3>2, <3>3
  <2> HIDE DEF s
  <2> QED
    BY <2>1, <2>2
<1>4. f.secure => KeyPair(Sha256(f.given.key)) \in f.asked
  <2> SUFFICES ASSUME parsed.secure
               PROVE  KeyPair(Sha256(given.key)) \in pair
    BY <1>2
  <2> DEFINE d == Sha256(given.key)
  <2>1. arg = Z32Encode(d)
    BY <1>3
  <2>2. d \in RawKeys
    BY DigestType
  <2> HIDE DEF d, arg
  <2>3. raw = {d}
    BY <2>1, <2>2, RawKeyFacts
  <2> HIDE DEF raw
  <2> QED
    BY <2>3 DEF d
<1>5. ~f.secure => {r \in Z32Decode(f.given.key) : Len(r) = KeyBytes} \subseteq f.asked
  <2> SUFFICES ASSUME ~parsed.secure
               PROVE  {r \in Z32Decode(given.key) : Len(r) = KeyBytes} \subseteq raw
    BY <1>2
  <2>1. arg = given.key
    BY <1>3
  <2> QED
    BY <2>1
<1>6. \A p, q : p \in Answers(q) /\ p # <<>> => \E srv \in server : p = srv.record
  BY DEF Answers
<1>7. ASSUME any
      PROVE  \E srv \in server :
                rec = {[host |-> srv.host, port |-> srv.port, udp |-> srv.udp]}
  <2>1. PICK srv \in server : primary = srv.record \/ fallback = srv.record
    BY <1>1, <1>6, <1>7
  <2> DEFINE R == Rec(srv.host, IF srv.udp THEN {TRUE} ELSE {}, {srv.port})
  <2>2. DecodeRecord(srv.record) = {R}
    BY RecordRead
  <2>3. DecodeRecord(primary) \in {{}, {R}} /\ DecodeRecord(fallback) \in {{}, {R}}
    <3>1. \A p, q : p \in Answers(q) => p = <<>> \/ p = srv.record
      BY <1>6
    <3> HIDE DEF R
    <3> QED
      BY <1>1, <2>2, <3>1, NothingRead
  <2>4. record(primary, fallback) = {R}
    <3> HIDE DEF R
    <3> QED
      BY <2>1, <2>2, <2>3
  <2>5. rec = {Reported(R)}
    <3> HIDE DEF R
    <3> QED
      BY <2>4
  <2>6. Reported(R) = [host |-> srv.host, port |-> srv.port, udp |-> srv.udp]
    <3>1. /\ R.host = srv.host /\ R.port = {srv.port}
          /\ R.udp = IF srv.udp THEN {TRUE} ELSE {}
      BY DEF Rec
    <3>2. ValueOr(R.port, 0) = srv.port
      BY <3>1, TheValue
    <3>3. ValueOr(R.udp, FALSE) = srv.udp
      BY <3>1, FlagRead DEF GoodServer
    <3> HIDE DEF R
    <3> QED
      BY <3>1, <3>2, <3>3
  <2> QED
    BY <2>5, <2>6
<1> HIDE DEF rec, any, parsed, given
<1>8. f.heard => \E srv \in server :
        f.record = {[host |-> srv.host, port |-> srv.port, udp |-> srv.udp]}
  BY <1>2, <1>7
<1>9. f.secure <=> ParseUrl(f.given).secure
  BY <1>2 DEF parsed
<1> QED
  BY <1>b, <1>2, <1>4, <1>5, <1>8, <1>9 DEF GoodFound

\* The invariant holds at first, and every step keeps it.
LEMMA RendezvousInvHolds == Spec => []RendezvousInv
<1>1. Init => RendezvousInv
  BY DEF Init, RendezvousInv
<1>2. RendezvousInv /\ [Next]_vars => RendezvousInv'
  <2> SUFFICES ASSUME RendezvousInv, [Next]_vars PROVE RendezvousInv'
    OBVIOUS
  <2>i. /\ \A srv \in server : GoodServer(srv)
        /\ \A s, t \in server : s = t
        /\ server = {} => client = {} /\ found = {}
        /\ \A c \in client : GoodClient(c)
        /\ \A f \in found : GoodFound(f)
    BY DEF RendezvousInv
  <2>s. \A srv : GoodServer(srv)' <=> GoodServer(srv)
    BY DEF GoodServer
  <2>c. ASSUME server' = server
        PROVE  /\ \A c : GoodClient(c)' <=> GoodClient(c)
               /\ \A f : GoodFound(f)' <=> GoodFound(f)
    BY <2>c DEF GoodClient, GoodFound
  <2>1. ASSUME NEW argv \in ServerLines, Live(argv) PROVE RendezvousInv'
    <3> DEFINE args == ParseArgv(argv)
               options == ServerOptions(args)
    <3>1. /\ server = {} /\ server' = {Started(options)} /\ client' = client /\ found' = found
          /\ Validate(args) = {} /\ Dispatch(args) = "server"
      BY <2>1 DEF Live
    <3>2. GoodServer(Started(options))
      BY <3>1, ServerOptionsGood, StartedGood
    <3> HIDE DEF options, args
    <3>3. client' = {} /\ found' = {}
      BY <2>i, <3>1
    <3>4. \A srv \in server' : GoodServer(srv)'
      BY <2>s, <3>1, <3>2
    <3>5. (\A s, t \in server' : s = t) /\ server' # {}
      BY <3>1
    <3> QED
      BY <3>3, <3>4, <3>5 DEF RendezvousInv
  <2>2. ASSUME NEW srv \in server, NEW argv, Connect(argv) PROVE RendezvousInv'
    <3>1. server' = server /\ found' = found
      BY <2>2 DEF Connect
    <3>2. \A c \in client' : GoodClient(c)
      BY <2>2, ConnectGood
    <3>3. (\A c \in client' : GoodClient(c)') /\ \A f \in found' : GoodFound(f)'
      BY <2>c, <2>i, <3>1, <3>2
    <3> QED
      BY <2>i, <2>s, <2>2, <3>1, <3>3 DEF RendezvousInv
  <2>3. ASSUME NEW srv \in server, NEW argv, Lookup(argv) PROVE RendezvousInv'
    <3>1. server' = server /\ client' = client
      BY <2>3 DEF Lookup
    <3>2. \A f \in found' : GoodFound(f)
      BY <2>i, <2>3, LookupGood
    <3>3. (\A c \in client' : GoodClient(c)') /\ \A f \in found' : GoodFound(f)'
      BY <2>c, <2>i, <3>1, <3>2
    <3> QED
      BY <2>i, <2>s, <2>3, <3>1, <3>3 DEF RendezvousInv
  <2>4. CASE UNCHANGED vars
    <3>1. server' = server /\ client' = client /\ found' = found
      BY <2>4 DEF vars
    <3> QED
      BY <2>c, <2>i, <2>s, <3>1 DEF RendezvousInv
  <2> QED
    BY <2>1, <2>2, <2>3, <2>4, Zenon DEF Next
<1> QED
  BY <1>1, <1>2, PTL DEF Spec

\* The string a server prints leads a client and a lookup to it: whichever
\* way the key came about (chosen, taken at random, or none), the client or
\* the lookup arrives at the same public key and the same mode, through the
\* digest or through the z-base-32 text (holesail.cpp:98-128, 225-254;
\* keys.cpp:68-147; client.cpp:57-75).
THEOREM UrlAlwaysLeads == Spec => []UrlLeadsToServer
<1>1. RendezvousInv => UrlLeadsToServer
  <2> SUFFICES ASSUME RendezvousInv, NEW srv \in server PROVE
         /\ \A c \in client :
               c.given = srv.url /\ c.options.secure # {TRUE} =>
                  c.public = {srv.public} /\ c.secure = srv.secure /\ Admits(srv, c.identity)
         /\ \A f \in found :
               f.given = srv.url => srv.public \in f.asked /\ f.secure = srv.secure
    BY DEF UrlLeadsToServer
  <2>1. GoodServer(srv)
    BY DEF RendezvousInv
  <2>2. srv.secure => /\ srv.url.key = srv.key /\ ParseUrl(srv.url).secure
                      /\ srv.public = KeyPair(Sha256(srv.url.key))
    <3> SUFFICES ASSUME srv.secure
                 PROVE  /\ srv.url.key = srv.key /\ ParseUrl(srv.url).secure
                        /\ srv.public = KeyPair(Sha256(srv.url.key))
      OBVIOUS
    <3>1. srv.public = KeyPair(Sha256(srv.key)) /\ srv.url = Url("s", srv.key)
      BY <2>1 DEF GoodServer
    <3>2. srv.url.key = srv.key /\ ParseUrl(srv.url).secure
      BY <3>1, SecureString
    <3> QED
      BY <3>1, <3>2
  <2>3. ~srv.secure => /\ srv.url.key = Z32Encode(srv.public) /\ ~ParseUrl(srv.url).secure
                       /\ {r \in Z32Decode(srv.url.key) : Len(r) = KeyBytes} = {srv.public}
    <3> SUFFICES ASSUME ~srv.secure
                 PROVE  /\ srv.url.key = Z32Encode(srv.public) /\ ~ParseUrl(srv.url).secure
                        /\ {r \in Z32Decode(srv.url.key) : Len(r) = KeyBytes} = {srv.public}
      OBVIOUS
    <3>1. srv.url.key = Z32Encode(srv.public) /\ ~ParseUrl(srv.url).secure
      BY <2>1 DEF GoodServer, Url, ParseUrl
    <3>2. srv.public \in RawKeys
      BY <2>1 DEF GoodServer
    <3> QED
      BY <3>1, <3>2, RawKeyFacts
  <2>b. srv.secure \in BOOLEAN
    BY <2>1 DEF GoodServer
  <2>4. ASSUME NEW c \in client, c.given = srv.url, c.options.secure # {TRUE}
        PROVE  c.public = {srv.public} /\ c.secure = srv.secure /\ Admits(srv, c.identity)
    <3>1. GoodClient(c)
      BY DEF RendezvousInv
    <3>2. c.secure = srv.secure
      <4>1. c.secure <=> srv.secure
        BY <2>2, <2>3, <2>4, <3>1 DEF GoodClient
      <4>2. c.secure \in BOOLEAN
        BY <3>1 DEF GoodClient
      <4> QED
        BY <2>b, <4>1, <4>2
    <3>3. CASE srv.secure
      BY <2>2, <2>4, <3>1, <3>2, <3>3 DEF GoodClient, Admits
    <3>4. CASE ~srv.secure
      BY <2>3, <2>4, <3>1, <3>2, <3>4 DEF GoodClient, Admits
    <3> QED
      BY <3>2, <3>3, <3>4
  <2>5. ASSUME NEW f \in found, f.given = srv.url
        PROVE  srv.public \in f.asked /\ f.secure = srv.secure
    <3>1. GoodFound(f)
      BY DEF RendezvousInv
    <3>2. f.secure = srv.secure
      <4>1. f.secure <=> srv.secure
        BY <2>2, <2>3, <2>5, <3>1 DEF GoodFound
      <4>2. f.secure \in BOOLEAN
        BY <3>1 DEF GoodFound
      <4> QED
        BY <2>b, <4>1, <4>2
    <3>3. CASE srv.secure
      BY <2>2, <2>5, <3>1, <3>2, <3>3 DEF GoodFound
    <3>4. CASE ~srv.secure
      BY <2>3, <2>5, <3>1, <3>2, <3>4 DEF GoodFound
    <3> QED
      BY <3>2, <3>3, <3>4
  <2> QED
    BY <2>4, <2>5
<1> QED
  BY <1>1, RendezvousInvHolds, PTL

\* Whoever hears the server's record agrees with it about the endpoint: what
\* encode_record writes of any host, decode_record reads again, and resolve
\* and run_lookup take it (record.cpp; client.cpp:102-116;
\* holesail.cpp:283-289).
THEOREM EndpointIsAgreed == Spec => []EndpointAgreed
<1>1. RendezvousInv => EndpointAgreed
  <2> SUFFICES ASSUME RendezvousInv, NEW srv \in server PROVE
         /\ \A c \in client : c.heard # <<>> =>
               /\ c.options.udp = {} => c.resolved.udp = srv.udp
               /\ c.options.port = {} => c.resolved.port = srv.port
               /\ c.options.host = {} => c.resolved.host = srv.host
         /\ \A f \in found : f.heard =>
               f.record = {[host |-> srv.host, port |-> srv.port, udp |-> srv.udp]}
    BY DEF EndpointAgreed
  <2>1. GoodServer(srv) /\ \A s \in server : s = srv
    BY DEF RendezvousInv
  <2>2. ASSUME NEW c \in client, c.heard # <<>>
        PROVE  /\ c.options.udp = {} => c.resolved.udp = srv.udp
               /\ c.options.port = {} => c.resolved.port = srv.port
               /\ c.options.host = {} => c.resolved.host = srv.host
    <3>1. GoodClient(c)
      BY DEF RendezvousInv
    <3>2. c.heard = srv.record
      BY <2>1, <2>2, <3>1 DEF GoodClient
    <3> DEFINE r == Rec(srv.host, IF srv.udp THEN {TRUE} ELSE {}, {srv.port})
    <3>3. c.resolved = Resolve(c.options, {r})
      BY <2>1, <3>1, <3>2, RecordRead DEF GoodClient
    <3>4. srv.udp \in BOOLEAN /\ srv.host # <<>>
      BY <2>1 DEF GoodServer
    <3> DEFINE host == srv.host
               port == srv.port
               udp == srv.udp
               options == c.options
    <3>5. host # <<>> /\ udp \in BOOLEAN /\ r = Heard(host, udp, port)
      BY <3>4 DEF Heard
    <3> HIDE DEF host, port, udp, options, r
    <3>6. /\ options.udp = {} => Resolve(options, {r}).udp = udp
          /\ options.port = {} => Resolve(options, {r}).port = port
          /\ options.host = {} => Resolve(options, {r}).host = host
      BY <3>5, ResolveHeard
    <3> QED
      BY <3>3, <3>6 DEF host, port, udp, options
  <2>3. ASSUME NEW f \in found, f.heard
        PROVE  f.record = {[host |-> srv.host, port |-> srv.port, udp |-> srv.udp]}
    <3>1. GoodFound(f)
      BY DEF RendezvousInv
    <3>2. PICK s \in server : f.record = {[host |-> s.host, port |-> s.port, udp |-> s.udp]}
      BY <2>3, <3>1 DEF GoodFound
    <3>3. s = srv
      BY <2>1
    <3> QED
      BY <3>2, <3>3
  <2> QED
    BY <2>2, <2>3
<1> QED
  BY <1>1, RendezvousInvHolds, PTL

\* A secure server lets in exactly the clients that were given its key, and
\* what a public server prints does not contain the key it was started with
\* (server.cpp:253-262; holesail.cpp:225-229; README.md:213-219).
THEOREM KeyAloneOpens == Spec => []OnlyTheKeyOpens
<1>1. RendezvousInv => OnlyTheKeyOpens
  <2> SUFFICES ASSUME RendezvousInv, NEW srv \in server PROVE
         /\ srv.secure => \A c \in client :
               c.public = {srv.public} =>
                  (Admits(srv, c.identity) <=> c.given.key = srv.key /\ c.secure)
         /\ ~srv.secure => srv.url.key # srv.key
    BY DEF OnlyTheKeyOpens
  <2>1. GoodServer(srv)
    BY DEF RendezvousInv
  <2>2. ASSUME srv.secure, NEW c \in client, c.public = {srv.public}
        PROVE  Admits(srv, c.identity) <=> c.given.key = srv.key /\ c.secure
    <3>1. GoodClient(c)
      BY DEF RendezvousInv
    <3>2. srv.key \in Chosen /\ srv.public = KeyPair(Sha256(srv.key))
      BY <2>1, <2>2 DEF GoodServer
    <3>3. CASE c.secure
      <4>1. c.identity = srv.public /\ c.identity = KeyPair(Sha256(c.given.key))
        BY <2>2, <3>1, <3>3 DEF GoodClient
      <4>2. c.given.key = srv.key
        BY <3>2, <4>1, KeyOfIdentity
      <4> QED
        BY <3>3, <4>1, <4>2 DEF Admits
    <3>4. CASE ~c.secure
      <4>1. c.identity = Nobody
        BY <3>1, <3>4 DEF GoodClient
      <4>2. srv.public # Nobody
        <5>1. /\ Digest[srv.key] \in DOMAIN PublicKey
              /\ \A s \in DOMAIN PublicKey : PublicKey[s] # Nobody
          BY <3>2, KeysAssumption, RandomAssumption DEF KeysAssumption, RandomAssumption
        <5> QED
          BY <3>2, <5>1 DEF KeyPair, Sha256
      <4> QED
        BY <2>2, <3>4, <4>1, <4>2 DEF Admits
    <3> QED
      BY <3>3, <3>4
  <2>3. ASSUME ~srv.secure PROVE srv.url.key # srv.key
    <3>1. /\ srv.key \in Chosen \cup {<<>>} /\ srv.url = Url("0", Z32Encode(srv.public))
          /\ srv.public \in RawKeys
      BY <2>1, <2>3 DEF GoodServer
    <3>2. srv.url.key = Z32Encode(srv.public)
      BY <3>1 DEF Url
    <3>3. Z32Encode(srv.public) # <<>> /\ Z32Encode(srv.public) \notin Chosen
      BY <3>1, RawKeyFacts
    <3> QED
      BY <3>1, <3>2, <3>3
  <2> QED
    BY <2>2, <2>3
<1> QED
  BY <1>1, RendezvousInvHolds, PTL
=============================================================================
