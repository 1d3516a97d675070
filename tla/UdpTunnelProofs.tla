-------------------------- MODULE UdpTunnelProofs ---------------------------
(***************************************************************************)
(* Proofs about UdpTunnel for every base, header length, cap and buffer    *)
(* size: whatever bytes arrive, a decoder keeps less than one frame, and   *)
(* however the stream cuts the frames up, each application is given what   *)
(* the other end accepted, whole and in order.                             *)
(*                                                                         *)
(* What has been accepted in one direction and not yet delivered is in the *)
(* decoder's buffer, on the wire or in the sender's buffer, one frame      *)
(* after the other (Lay): that is the invariant, and the decoder's loop    *)
(* only ever moves the place where it begins.                              *)
(*                                                                         *)
(* The loop, a header's length and a digit's place are recursive, so that  *)
(* they do what their definitions say is shown first, by induction over    *)
(* the natural numbers as sets (Induction).                                *)
(***************************************************************************)
EXTENDS UdpTunnel, NaturalsInduction, SequenceTheorems, WellFoundedInduction,
        TLAPS

-----------------------------------------------------------------------------
(* The inductive invariant.                                                *)

\* What e has written that the other end has not decoded.
Ahead(e) == (buffer[Other(e)] \o wire[e]) \o pending[e]

\* bytes[o+1..] starts with the header of n.
HeaderIsAt(bytes, o, n) ==
    /\ o + HeaderBytes <= Len(bytes)
    /\ \A k \in 1..HeaderBytes : bytes[o + k] = Header(n)[k]

\* bytes[o+1..] starts with the frame of d.
FrameIsAt(bytes, o, d) ==
    /\ HeaderIsAt(bytes, o, Len(d))
    /\ o + Total(Len(d)) <= Len(bytes)
    /\ \A k \in 1..Len(d) : bytes[o + HeaderBytes + k] = d[k]

\* bytes begins with the frames of ds[lo+1] .. ds[hi]; that of ds[i] ends at
\* offset at[i].
Lay(bytes, ds, lo, hi, at) ==
    /\ at \in [lo..hi -> 0..Len(bytes)]
    /\ at[lo] = 0
    /\ \A i, j \in lo..hi : i <= j => at[i] <= at[j]
    /\ \A i \in lo..(hi - 1) :
          /\ FrameIsAt(bytes, at[i], ds[i + 1])
          /\ at[i + 1] = at[i] + Total(Len(ds[i + 1]))

\* The frames up to the hi-th lie ahead.  They are all there is, unless an
\* oversized header comes after them, and all that was accepted, unless the
\* stream was closed before the sender's buffer went out.  The decoder holds
\* less than the first of them.
FramesAhead(e, hi, at) ==
    LET lo == Len(delivered[Other(e)])
    IN  /\ Lay(Ahead(e), accepted[e], lo, hi, at)
        /\ lo < hi => Len(buffer[Other(e)]) < at[lo + 1]
        /\ broken[e] => HeaderIsAt(Ahead(e), at[hi], MaxDatagram + 1)
        /\ ~broken[e] => at[hi] = Len(Ahead(e))
        /\ ~broken[e] /\ (~ending \/ ~opened[e]) => hi = Len(accepted[e])

\* The direction from e.
Flow(e) ==
    LET f == Other(e)
    IN  /\ Len(delivered[f]) <= Len(accepted[e])
        /\ \A i \in 1..Len(delivered[f]) : delivered[f][i] = accepted[e][i]
        /\ ~opened[e] => wire[e] = <<>> /\ buffer[f] = <<>> /\ ~broken[e]
        /\ opened[e] => pending[e] = <<>>
        /\ end[f] = "live" =>
              \E hi \in Len(delivered[f])..Len(accepted[e]) :
                 \E at \in [Len(delivered[f])..hi -> 0..Len(Ahead(e))] :
                    FramesAhead(e, hi, at)

UdpIInv == TypeOK /\ \A e \in Ends : Flow(e)

-----------------------------------------------------------------------------
(* Induction, as a fact about sets of natural numbers.                     *)

LEMMA Least ==
    ASSUME NEW T \in SUBSET Nat, T # {}
    PROVE  \E m \in T : \A k \in T : m <= k
<1>1. \E m \in T : \A k \in T : ~(<<k, m>> \in OpToRel(<, Nat))
  BY NatLessThanWellFounded, WFMin
<1>2. PICK m \in T : \A k \in T : ~(<<k, m>> \in OpToRel(<, Nat))
  BY <1>1
<1>3. \A k \in T : ~(k < m)
  BY <1>2 DEF OpToRel
<1> QED
  BY <1>3

LEMMA Induction ==
    ASSUME NEW S \in SUBSET Nat, 0 \in S, \A n \in S : n + 1 \in S
    PROVE  S = Nat
<1> SUFFICES ASSUME S # Nat PROVE FALSE
  OBVIOUS
<1>1. PICK m \in Nat \ S : \A k \in Nat \ S : m <= k
  BY Least
<1>2. m - 1 \in Nat /\ m - 1 \notin Nat \ S
  BY <1>1
<1> QED
  BY <1>1, <1>2

-----------------------------------------------------------------------------
(* The places of the digits.                                               *)

USE CodecAssumption, BoundsAssumption DEF CodecAssumption, BoundsAssumption

LEMMA PlaceDefined ==
    Place = [k \in 0..HeaderBytes |-> IF k = 0 THEN 1 ELSE Base * Place[k - 1]]
<1> DEFINE Def(f, m) == f = [k \in 0..m |-> IF k = 0 THEN 1 ELSE Base * f[k - 1]]
           S == {m \in Nat : \E f : Def(f, m)}
<1>1. 0 \in S
  <2>1. Def([k \in 0..0 |-> 1], 0)
    OBVIOUS
  <2> QED
    BY <2>1
<1>2. ASSUME NEW m \in S PROVE m + 1 \in S
  <2>1. m \in Nat
    OBVIOUS
  <2>2. PICK f : Def(f, m)
    OBVIOUS
  <2> DEFINE g == [k \in 0..(m + 1) |-> IF k = 0 THEN 1 ELSE Base * f[k - 1]]
  <2>3. \A k \in 0..m : g[k] = f[k]
    BY <2>1, <2>2
  <2>4. \A k \in 0..(m + 1) : k # 0 => k - 1 \in 0..m
    BY <2>1
  <2>5. Def(g, m + 1)
    BY <2>3, <2>4
  <2>6. m + 1 \in Nat
    BY <2>1
  <2> QED
    BY <2>5, <2>6
<1>3. S = Nat
  <2> HIDE DEF S
  <2>1. S \in SUBSET Nat
    BY DEF S
  <2> QED
    BY <1>1, <1>2, <2>1, Induction
<1>4. \E f : Def(f, HeaderBytes)
  BY <1>3
<1> QED
  BY <1>4 DEF Place

LEMMA PlaceFacts ==
    /\ Place[0] = 1
    /\ \A k \in 1..HeaderBytes : Place[k] = Base * Place[k - 1]
    /\ \A k \in 0..HeaderBytes : Place[k] \in Nat \ {0}
<1>1. Place[0] = 1
  BY PlaceDefined
<1>2. \A k \in 1..HeaderBytes : Place[k] = Base * Place[k - 1]
  BY PlaceDefined
<1> DEFINE S == {k \in Nat : k <= HeaderBytes => Place[k] \in Nat \ {0}}
<1>3. 0 \in S
  BY <1>1
<1>4. ASSUME NEW k \in S PROVE k + 1 \in S
  <2>1. k \in Nat
    OBVIOUS
  <2>2. ASSUME k + 1 <= HeaderBytes PROVE Place[k + 1] \in Nat \ {0}
    <3>1. Place[k] \in Nat \ {0}
      BY <2>1, <2>2
    <3>2. Place[k + 1] = Base * Place[k]
      BY <2>1, <2>2, <1>2
    <3>3. \A a, b \in Nat \ {0} : a * b \in Nat \ {0}
      OBVIOUS
    <3> QED
      BY <3>1, <3>2, <3>3
  <2> QED
    BY <2>1, <2>2
<1>5. S = Nat
  <2> HIDE DEF S
  <2>1. S \in SUBSET Nat
    BY DEF S
  <2> QED
    BY <1>3, <1>4, <2>1, Induction
<1>6. \A k \in 0..HeaderBytes : Place[k] \in Nat \ {0}
  BY <1>5
<1> QED
  BY <1>1, <1>2, <1>6

\* Division with a remainder, and that there is only one.
LEMMA DivMod ==
    ASSUME NEW n \in Nat, NEW c \in Nat \ {0}
    PROVE  /\ n \div c \in Nat /\ n % c \in 0..(c - 1)
           /\ n = (c * (n \div c)) + (n % c)
OBVIOUS

LEMMA DivUnique ==
    ASSUME NEW n \in Nat, NEW c \in Nat \ {0}, NEW s \in Nat,
           c * s <= n, n < c * (s + 1)
    PROVE  n \div c = s
<1> DEFINE q == n \div c
<1>1. q \in Nat /\ c * q <= n /\ n < c * (q + 1)
  <2>1. q \in Nat /\ n % c \in 0..(c - 1) /\ n = (c * q) + (n % c)
    BY DivMod
  <2>2. c * (q + 1) = (c * q) + c
    BY <2>1
  <2>3. c * q \in Nat
    BY <2>1
  <2> HIDE DEF q
  <2> QED
    BY <2>1, <2>2, <2>3
<1> HIDE DEF q
<1>2. ASSUME q < s PROVE FALSE
  <2>1. q + 1 <= s
    BY <1>1, <1>2
  <2>2. c * (q + 1) <= c * s
    BY <1>1, <2>1
  <2> QED
    BY <1>1, <2>2
<1>3. ASSUME s < q PROVE FALSE
  <2>1. s + 1 <= q
    BY <1>1, <1>3
  <2>2. c * (s + 1) <= c * q
    BY <1>1, <2>1
  <2> QED
    BY <1>1, <2>2
<1>4. q = s
  BY <1>1, <1>2, <1>3
<1> QED
  BY <1>4 DEF q

\* The digit before the last one, with what is before it.
LEMMA NextDigit ==
    ASSUME NEW n \in Nat, NEW a \in Nat \ {0}, NEW b \in Nat \ {0}
    PROVE  n \div a = ((n \div (b * a)) * b) + ((n \div a) % b)
<1> DEFINE q == n \div a
           r == n % a
           s == q \div b
           t == q % b
<1>1. q \in Nat /\ r \in 0..(a - 1) /\ n = (a * q) + r
  BY DivMod
<1>2. s \in Nat /\ t \in 0..(b - 1) /\ q = (b * s) + t
  <2> HIDE DEF q
  <2> QED
    BY <1>1, DivMod
<1> HIDE DEF q, r, s, t
<1>3. (b * a) * s <= n
  <2>1. a * q = (a * (b * s)) + (a * t)
    BY <1>2
  <2>2. a * (b * s) = (b * a) * s
    BY <1>2
  <2>3. a * t \in Nat /\ (b * a) * s \in Nat
    BY <1>2
  <2> QED
    BY <1>1, <2>1, <2>2, <2>3
<1>4. n < (b * a) * (s + 1)
  <2>1. q + 1 <= b * (s + 1)
    <3>1. b * (s + 1) = (b * s) + b
      BY <1>2
    <3>2. b * s \in Nat
      BY <1>2
    <3> QED
      BY <1>2, <3>1, <3>2
  <2>2. a * (q + 1) <= a * (b * (s + 1))
    <3>1. b * (s + 1) \in Nat
      BY <1>2
    <3> QED
      BY <1>1, <2>1, <3>1
  <2>3. a * (q + 1) = (a * q) + a
    BY <1>1
  <2>4. a * (b * (s + 1)) = (b * a) * (s + 1)
    BY <1>2
  <2>5. a * q \in Nat /\ (b * a) * (s + 1) \in Nat
    BY <1>1, <1>2
  <2>6. n < (a * q) + a
    BY <1>1, <2>5
  <2> QED
    BY <2>2, <2>3, <2>4, <2>5, <2>6
<1>5. b * a \in Nat \ {0}
  OBVIOUS
<1>6. n \div (b * a) = s
  BY <1>2, <1>3, <1>4, <1>5, DivUnique
<1>7. q = (s * b) + t
  BY <1>2
<1> QED
  BY <1>6, <1>7 DEF q, t

-----------------------------------------------------------------------------
(* The length a header announces.                                          *)

\* The digits of LengthAt, read one by one.
Reads(upTo, bytes, o) ==
    upTo = [k \in 0..HeaderBytes |->
              IF k = 0 THEN 0 ELSE (upTo[k - 1] * Base) + bytes[o + k]]

LEMMA LengthDefined ==
    ASSUME NEW bytes, NEW o
    PROVE  \E upTo : /\ Reads(upTo, bytes, o)
                     /\ LengthAt(bytes, o) = upTo[HeaderBytes]
<1> DEFINE Def(f, m) == f = [k \in 0..m |-> IF k = 0 THEN 0
                                     ELSE (f[k - 1] * Base) + bytes[o + k]]
           S == {m \in Nat : \E f : Def(f, m)}
<1>1. 0 \in S
  <2>1. Def([k \in 0..0 |-> 0], 0)
    OBVIOUS
  <2> QED
    BY <2>1
<1>2. ASSUME NEW m \in S PROVE m + 1 \in S
  <2>1. m \in Nat
    OBVIOUS
  <2>2. PICK f : Def(f, m)
    OBVIOUS
  <2> DEFINE g == [k \in 0..(m + 1) |-> IF k = 0 THEN 0
                                 ELSE (f[k - 1] * Base) + bytes[o + k]]
  <2>3. \A k \in 0..m : g[k] = f[k]
    BY <2>1, <2>2
  <2>4. \A k \in 0..(m + 1) : k # 0 => k - 1 \in 0..m
    BY <2>1
  <2>5. Def(g, m + 1)
    BY <2>3, <2>4
  <2>6. m + 1 \in Nat
    BY <2>1
  <2> QED
    BY <2>5, <2>6
<1>3. S = Nat
  <2> HIDE DEF S
  <2>1. S \in SUBSET Nat
    BY DEF S
  <2> QED
    BY <1>1, <1>2, <2>1, Induction
<1>4. \E f : Def(f, HeaderBytes)
  BY <1>3
<1>5. Def(CHOOSE f : Def(f, HeaderBytes), HeaderBytes)
  BY <1>4
<1> QED
  BY <1>5 DEF LengthAt, Reads

\* A length is a number, whatever the bytes are.
LEMMA LengthType ==
    ASSUME NEW bytes \in Seq(Byte), NEW o \in Nat,
           o + HeaderBytes <= Len(bytes)
    PROVE  LengthAt(bytes, o) \in Nat
<1>1. PICK upTo : Reads(upTo, bytes, o) /\ LengthAt(bytes, o) = upTo[HeaderBytes]
  BY LengthDefined
<1> DEFINE S == {k \in Nat : k <= HeaderBytes => upTo[k] \in Nat}
<1>2. 0 \in S
  BY <1>1 DEF Reads
<1>3. ASSUME NEW k \in S PROVE k + 1 \in S
  <2>1. k \in Nat
    OBVIOUS
  <2>2. ASSUME k + 1 <= HeaderBytes PROVE upTo[k + 1] \in Nat
    <3>1. upTo[k] \in Nat
      BY <2>1, <2>2
    <3>2. upTo[k + 1] = (upTo[k] * Base) + bytes[o + (k + 1)]
      BY <1>1, <2>1, <2>2 DEF Reads
    <3>3. bytes[o + (k + 1)] \in Nat
      BY <2>1, <2>2 DEF Byte
    <3>4. upTo[k] * Base \in Nat
      BY <3>1
    <3> QED
      BY <3>2, <3>3, <3>4
  <2> QED
    BY <2>1, <2>2
<1>4. S = Nat
  <2> HIDE DEF S
  <2>1. S \in SUBSET Nat
    BY DEF S
  <2> QED
    BY <1>2, <1>3, <2>1, Induction
<1>5. HeaderBytes \in S
  BY <1>4
<1> QED
  BY <1>1, <1>5

\* What frame() writes is what push() reads (udp_pipe.cpp:70-73, 85-88).
LEMMA HeaderRead ==
    ASSUME NEW bytes, NEW o \in Nat, NEW n \in 0..(MaxDatagram + 1),
           \A k \in 1..HeaderBytes : bytes[o + k] = Header(n)[k]
    PROVE  LengthAt(bytes, o) = n
<1>1. PICK upTo : Reads(upTo, bytes, o) /\ LengthAt(bytes, o) = upTo[HeaderBytes]
  BY LengthDefined
<1>2. n \in Nat /\ n < Place[HeaderBytes]
  BY PlaceFacts
<1> DEFINE S == {k \in Nat : k <= HeaderBytes =>
                                upTo[k] = n \div Place[HeaderBytes - k]}
<1>3. 0 \in S
  <2>1. upTo[0] = 0
    BY <1>1 DEF Reads
  <2>2. n \div Place[HeaderBytes] = 0
    <3>1. Place[HeaderBytes] \in Nat \ {0}
      BY PlaceFacts
    <3>2. Place[HeaderBytes] * 0 <= n /\ n < Place[HeaderBytes] * (0 + 1)
      BY <1>2, <3>1
    <3> QED
      BY <1>2, <3>1, <3>2, DivUnique
  <2> QED
    BY <2>1, <2>2
<1>4. ASSUME NEW k \in S PROVE k + 1 \in S
  <2>1. k \in Nat
    OBVIOUS
  <2>2. ASSUME k + 1 <= HeaderBytes
        PROVE  upTo[k + 1] = n \div Place[HeaderBytes - (k + 1)]
    <3> DEFINE a == Place[HeaderBytes - (k + 1)]
    <3>1. upTo[k] = n \div Place[HeaderBytes - k]
      BY <2>1, <2>2
    <3>2. upTo[k + 1] = (upTo[k] * Base) + bytes[o + (k + 1)]
      BY <1>1, <2>1, <2>2 DEF Reads
    <3>3. bytes[o + (k + 1)] = (n \div a) % Base
      BY <2>1, <2>2 DEF Header
    <3>4. a \in Nat \ {0} /\ Place[HeaderBytes - k] = Base * a
      <4>1. HeaderBytes - k \in 1..HeaderBytes
        BY <2>1, <2>2
      <4>2. (HeaderBytes - k) - 1 = HeaderBytes - (k + 1)
        BY <2>1
      <4>3. HeaderBytes - (k + 1) \in 0..HeaderBytes
        BY <2>1, <2>2
      <4> QED
        BY <4>1, <4>2, <4>3, PlaceFacts
    <3> HIDE DEF a
    <3>5. n \div a = ((n \div (Base * a)) * Base) + ((n \div a) % Base)
      <4>1. n \in Nat /\ a \in Nat \ {0} /\ Base \in Nat \ {0}
        BY <1>2, <3>4
      <4> QED
        BY <4>1, NextDigit, ZenonT(40)
    <3>6. upTo[k + 1] = n \div a
      BY <3>1, <3>2, <3>3, <3>4, <3>5
    <3> QED
      BY <3>6 DEF a
  <2> QED
    BY <2>1, <2>2
<1>5. S = Nat
  <2> HIDE DEF S
  <2>1. S \in SUBSET Nat
    BY DEF S
  <2> QED
    BY <1>3, <1>4, <2>1, Induction
<1>6. upTo[HeaderBytes] = n \div Place[0]
  <2>1. HeaderBytes \in S
    BY <1>5
  <2>2. HeaderBytes - HeaderBytes = 0
    OBVIOUS
  <2> QED
    BY <2>1, <2>2
<1>7. n \div 1 = n
  BY <1>2
<1> QED
  BY <1>1, <1>6, <1>7, PlaceFacts

-----------------------------------------------------------------------------
(* The loop of push().                                                     *)

\* One turn at offset o, with what the loop does from later offsets.
Turn(loop, bytes, o) ==
    LET n    == LengthAt(bytes, o)
        next == loop[o + Total(n)]
    IN  IF Len(bytes) - o < HeaderBytes
        THEN [frames |-> <<>>, rest |-> o, ok |-> TRUE]
        ELSE IF TooLong(n)
        THEN [frames |-> <<>>, rest |-> o, ok |-> FALSE]
        ELSE IF Len(bytes) - o < Total(n)
        THEN [frames |-> <<>>, rest |-> o, ok |-> TRUE]
        ELSE [next EXCEPT !.frames =
                  <<SubSeq(bytes, o + HeaderBytes + 1, o + Total(n))>> \o @]

\* A turn looks at later offsets only: a frame is longer than nothing.
LEMMA TurnLooksAhead ==
    ASSUME NEW bytes \in Seq(Byte), NEW o \in 0..Len(bytes), NEW f, NEW g,
           \A q \in (o + 1)..Len(bytes) : f[q] = g[q]
    PROVE  Turn(f, bytes, o) = Turn(g, bytes, o)
<1> DEFINE n == LengthAt(bytes, o)
<1>1. CASE Len(bytes) - o < HeaderBytes \/ TooLong(n)
  BY <1>1 DEF Turn
<1>2. CASE ~(Len(bytes) - o < HeaderBytes) /\ ~TooLong(n)
  <2>1. n \in Nat
    BY <1>2, LengthType
  <2>2. CASE Len(bytes) - o < Total(n)
    BY <1>2, <2>2 DEF Turn
  <2>3. CASE ~(Len(bytes) - o < Total(n))
    <3>1. o + Total(n) \in (o + 1)..Len(bytes)
      BY <2>1, <2>3 DEF Total
    <3>2. f[o + Total(n)] = g[o + Total(n)]
      BY <3>1
    <3> QED
      BY <1>2, <2>3, <3>2 DEF Turn
  <2> QED
    BY <2>2, <2>3
<1> QED
  BY <1>1, <1>2

LEMMA LoopDefined ==
    ASSUME NEW bytes \in Seq(Byte)
    PROVE  \A o \in 0..Len(bytes) :
              PushLoop(bytes)[o] = Turn(PushLoop(bytes), bytes, o)
<1> DEFINE L == Len(bytes)
           Def(f, m) == f = [o \in (L - m)..L |-> Turn(f, bytes, o)]
           S == {m \in Nat : m <= L => \E f : Def(f, m)}
<1>0. L \in Nat
  OBVIOUS
<1>1. 0 \in S
  <2> DEFINE f == [o \in (L - 0)..L |-> Turn(<<>>, bytes, o)]
  <2>1. \A o \in (L - 0)..L :
           o \in 0..Len(bytes) /\ \A q \in (o + 1)..Len(bytes) : f[q] = <<>>[q]
    BY <1>0
  <2>2. \A o \in (L - 0)..L : Turn(<<>>, bytes, o) = Turn(f, bytes, o)
    <3> HIDE DEF f
    <3> QED
      BY <2>1, TurnLooksAhead
  <2>3. Def(f, 0)
    BY <2>2
  <2> QED
    BY <2>3
<1>2. ASSUME NEW m \in S PROVE m + 1 \in S
  <2>1. m \in Nat
    OBVIOUS
  <2>2. ASSUME m + 1 <= L PROVE \E f : Def(f, m + 1)
    <3>1. PICK f : Def(f, m)
      BY <1>0, <2>1, <2>2
    <3> DEFINE g == [o \in (L - (m + 1))..L |-> Turn(f, bytes, o)]
    <3>2. \A o \in (L - m)..L : g[o] = f[o]
      BY <1>0, <2>1, <3>1
    <3>3. ASSUME NEW o \in (L - (m + 1))..L
          PROVE  Turn(f, bytes, o) = Turn(g, bytes, o)
      <4>1. o \in 0..Len(bytes)
        BY <1>0, <2>1, <2>2
      <4>2. \A q \in (o + 1)..Len(bytes) : f[q] = g[q]
        <5>1. \A q \in (o + 1)..Len(bytes) : q \in (L - m)..L
          BY <1>0, <2>1, <2>2, <4>1
        <5> HIDE DEF g, L
        <5> QED
          BY <3>2, <5>1
      <4> HIDE DEF g
      <4> QED
        BY <4>1, <4>2, TurnLooksAhead
    <3>4. Def(g, m + 1)
      BY <3>3
    <3> QED
      BY <3>4
  <2>3. m + 1 \in Nat
    BY <2>1
  <2> QED
    BY <2>2, <2>3
<1>3. L \in S
  <2> HIDE DEF S, L
  <2>1. S \in SUBSET Nat
    BY DEF S
  <2> QED
    BY <1>0, <1>1, <1>2, <2>1, Induction
<1>4. L - L = 0
  BY <1>0
<1>5. \E f : f = [o \in 0..L |-> Turn(f, bytes, o)]
  BY <1>3, <1>4
<1>6. PushLoop(bytes) = CHOOSE f : f = [o \in 0..L |-> Turn(f, bytes, o)]
  BY DEF PushLoop, Turn
<1>7. PushLoop(bytes) = [o \in 0..L |-> Turn(PushLoop(bytes), bytes, o)]
  BY <1>5, <1>6
<1> QED
  BY <1>7

\* Datagrams, without the set of functions that TLC needs.
LEMMA DatagramFacts ==
    /\ \A d \in Seq(Byte) : Len(d) <= MaxDatagram => d \in Datagrams
    /\ \A d \in Datagrams : d \in Seq(Byte) /\ Len(d) \in 0..MaxDatagram
<1>1. ASSUME NEW d \in Seq(Byte), Len(d) <= MaxDatagram PROVE d \in Datagrams
  <2>1. Len(d) \in 0..MaxDatagram /\ d \in [1..Len(d) -> Byte]
    BY <1>1
  <2> QED
    BY <2>1 DEF Datagrams, BoundedSeq, SeqOf
<1>2. ASSUME NEW d \in Datagrams
      PROVE  d \in Seq(Byte) /\ Len(d) \in 0..MaxDatagram
  <2>1. PICK m \in 0..MaxDatagram : d \in [1..m -> Byte]
    BY DEF Datagrams, BoundedSeq, SeqOf
  <2>2. m \in Nat
    BY <2>1
  <2>3. d \in Seq(Byte) /\ Len(d) = m
    BY <2>1, <2>2
  <2> QED
    BY <2>1, <2>3
<1> QED
  BY <1>1, <1>2

Results(bytes) == [frames : Seq(Datagrams), rest : 0..Len(bytes), ok : BOOLEAN]

\* Wherever the loop starts, it ends with less than a frame left, unless it
\* gives up (udp_pipe.cpp:90-105).
LEMMA LoopBounded ==
    ASSUME NEW bytes \in Seq(Byte)
    PROVE  \A o \in 0..Len(bytes) :
              LET all == PushLoop(bytes)[o]
              IN  /\ all \in Results(bytes)
                  /\ all.ok => Len(bytes) - all.rest < HeaderBytes + MaxDatagram
<1> DEFINE L == Len(bytes)
           R == PushLoop(bytes)
           Good(o) == /\ R[o] \in Results(bytes)
                      /\ R[o].ok => L - R[o].rest < HeaderBytes + MaxDatagram
           S == {m \in Nat : \A o \in 0..L : o > L - m => Good(o)}
<1>0. L \in Nat
  OBVIOUS
<1>1. 0 \in S
  BY <1>0
<1>2. ASSUME NEW o \in 0..L, \A q \in 0..L : o < q => Good(q)
      PROVE  Good(o)
  <2> DEFINE n == LengthAt(bytes, o)
             next == R[o + Total(n)]
             d == SubSeq(bytes, o + HeaderBytes + 1, o + Total(n))
  <2>1. R[o] = Turn(R, bytes, o)
    BY LoopDefined
  <2>2. CASE L - o < HeaderBytes
    <3>1. R[o] = [frames |-> <<>>, rest |-> o, ok |-> TRUE]
      BY <2>1, <2>2 DEF Turn
    <3>2. <<>> \in Seq(Datagrams)
      OBVIOUS
    <3> QED
      BY <2>2, <3>1, <3>2 DEF Results
  <2>3. CASE ~(L - o < HeaderBytes) /\ TooLong(n)
    <3>1. R[o] = [frames |-> <<>>, rest |-> o, ok |-> FALSE]
      BY <2>1, <2>3 DEF Turn
    <3>2. <<>> \in Seq(Datagrams)
      OBVIOUS
    <3> QED
      BY <3>1, <3>2 DEF Results
  <2>4. CASE ~(L - o < HeaderBytes) /\ ~TooLong(n)
    <3>1. n \in 0..MaxDatagram
      <4>1. n \in Nat
        BY <2>4, LengthType
      <4> QED
        BY <2>4, <4>1 DEF TooLong
    <3>2. CASE L - o < Total(n)
      <4>1. R[o] = [frames |-> <<>>, rest |-> o, ok |-> TRUE]
        BY <2>1, <2>4, <3>2 DEF Turn
      <4>2. <<>> \in Seq(Datagrams)
        OBVIOUS
      <4>3. L - o < HeaderBytes + MaxDatagram
        BY <3>1, <3>2 DEF Total
      <4> QED
        BY <4>1, <4>2, <4>3 DEF Results
    <3>3. CASE ~(L - o < Total(n))
      <4>1. R[o] = [next EXCEPT !.frames = <<d>> \o @]
        BY <2>1, <2>4, <3>3 DEF Turn
      <4>2. Good(o + Total(n))
        <5>1. o + Total(n) \in 0..L /\ o < o + Total(n)
          BY <3>1, <3>3 DEF Total
        <5> HIDE DEF Good
        <5> QED
          BY <1>2, <5>1
      <4>3. d \in Datagrams
        <5>1. /\ o + HeaderBytes + 1 \in 1..(L + 1) /\ o + Total(n) \in 0..L
              /\ (o + Total(n)) - (o + HeaderBytes + 1) + 1 = n
          BY <3>1, <3>3 DEF Total
        <5>2. d \in Seq(Byte) /\ Len(d) = n
          BY <3>1, <5>1
        <5>3. d \in Seq(Byte) /\ Len(d) <= MaxDatagram
          BY <3>1, <5>2
        <5> HIDE DEF d
        <5> QED
          BY <5>3, DatagramFacts
      <4>4. <<d>> \o next.frames \in Seq(Datagrams)
        <5> HIDE DEF d, next
        <5>1. next.frames \in Seq(Datagrams)
          BY <4>2 DEF Results, next
        <5> QED
          BY <4>3, <5>1
      <4> HIDE DEF d
      <4> QED
        BY <4>1, <4>2, <4>4 DEF Results
    <3> QED
      BY <3>2, <3>3
  <2> QED
    BY <2>2, <2>3, <2>4
<1>3. ASSUME NEW m \in S PROVE m + 1 \in S
  <2>1. m \in Nat /\ m + 1 \in Nat
    OBVIOUS
  <2>2. ASSUME NEW o \in 0..L, o > L - (m + 1) PROVE Good(o)
    <3>1. \A q \in 0..L : o < q => q > L - m
      BY <1>0, <2>1, <2>2
    <3>2. \A q \in 0..L : q > L - m => Good(q)
      OBVIOUS
    <3> HIDE DEF Good, S
    <3> QED
      BY <1>2, <3>1, <3>2
  <2> QED
    BY <2>1, <2>2
<1>4. L + 1 \in S
  <2> HIDE DEF S, L
  <2>1. S \in SUBSET Nat
    BY DEF S
  <2> QED
    BY <1>0, <1>1, <1>3, <2>1, Induction
<1>5. \A o \in 0..L : o > L - (L + 1)
  BY <1>0
<1> QED
  BY <1>4, <1>5

\* What push() leaves in the buffer, and what it hands on.
LEMMA DecodeType ==
    ASSUME NEW bytes \in Seq(Byte)
    PROVE  LET out == Decode(bytes)
           IN  /\ out.frames \in Seq(Datagrams)
               /\ out.rest \in Seq(Byte)
               /\ out.ok \in BOOLEAN
               /\ out.ok => Len(out.rest) < HeaderBytes + MaxDatagram
<1> DEFINE all == PushLoop(bytes)[0]
<1>1. /\ all \in Results(bytes)
      /\ all.ok => Len(bytes) - all.rest < HeaderBytes + MaxDatagram
  BY LoopBounded
<1> DEFINE rest == SubSeq(bytes, all.rest + 1, Len(bytes))
<1>2. /\ all.frames \in Seq(Datagrams) /\ all.ok \in BOOLEAN
      /\ all.rest \in 0..Len(bytes)
  BY <1>1 DEF Results
<1>3. rest \in Seq(Byte) /\ Len(rest) = Len(bytes) - all.rest
  BY <1>2, SMTT(30)
<1>4. Decode(bytes) = [all EXCEPT !.rest = rest]
  BY DEF Decode
<1>5. /\ Decode(bytes).frames = all.frames /\ Decode(bytes).ok = all.ok
      /\ Decode(bytes).rest = rest
  <2> HIDE DEF rest, all
  <2> QED
    BY <1>1, <1>4 DEF Results
<1> QED
  BY <1>1, <1>2, <1>3, <1>5

-----------------------------------------------------------------------------
(* Types.                                                                  *)

LEMMA OtherEnd ==
    \A e \in Ends : /\ Other(e) \in Ends /\ Other(e) # e
                    /\ Other(Other(e)) = e
                    /\ \A f \in Ends : f = e \/ f = Other(e)
<1>1. \A e \in Ends : \E f \in Ends : f # e
  BY DEF Ends
<1>2. \A e \in Ends : Other(e) \in Ends /\ Other(e) # e
  BY <1>1 DEF Other
<1> QED
  BY <1>2 DEF Ends

LEMMA HeaderType ==
    ASSUME NEW n \in Nat
    PROVE  Header(n) \in Seq(Byte) /\ Len(Header(n)) = HeaderBytes
<1>1. ASSUME NEW k \in 1..HeaderBytes
      PROVE  (n \div Place[HeaderBytes - k]) % Base \in Byte
  <2>1. Place[HeaderBytes - k] \in Nat \ {0}
    BY PlaceFacts
  <2>2. n \div Place[HeaderBytes - k] \in Nat
    BY <2>1, DivMod
  <2> DEFINE q == n \div Place[HeaderBytes - k]
  <2> HIDE DEF q
  <2>3. q \in Nat => q % Base \in Byte
    BY DEF Byte
  <2> QED
    BY <2>2, <2>3 DEF q
<1>2. Header(n) \in [1..HeaderBytes -> Byte]
  BY <1>1 DEF Header
<1> QED
  BY <1>2

LEMMA FrameType ==
    ASSUME NEW d \in Datagrams
    PROVE  /\ Frame(d) \in Seq(Byte) /\ Len(Frame(d)) = Total(Len(d))
           /\ \A k \in 1..HeaderBytes : Frame(d)[k] = Header(Len(d))[k]
           /\ \A k \in 1..Len(d) : Frame(d)[HeaderBytes + k] = d[k]
<1>1. d \in Seq(Byte) /\ Len(d) \in Nat
  BY DatagramFacts
<1>2. Header(Len(d)) \in Seq(Byte) /\ Len(Header(Len(d))) = HeaderBytes
  BY <1>1, HeaderType
<1> DEFINE h == Header(Len(d))
           g == h \o d
<1>3. Frame(d) = g
  BY DEF Frame
<1> HIDE DEF h
<1>4. h \in Seq(Byte) /\ Len(h) = HeaderBytes
  BY <1>2 DEF h
<1>5. /\ g \in Seq(Byte) /\ Len(g) = HeaderBytes + Len(d)
      /\ \A k \in 1..HeaderBytes : g[k] = h[k]
      /\ \A k \in 1..Len(d) : g[HeaderBytes + k] = d[k]
  BY <1>1, <1>4
<1> HIDE DEF g
<1> QED
  BY <1>3, <1>5 DEF Total, h

\* A datagram recv_cb sees.
LEMMA PayloadType ==
    ASSUME NEW c \in Nat, NEW n \in 0..MaxDatagram
    PROVE  [k \in 1..n |-> c % Base] \in Datagrams
<1> DEFINE d == [k \in 1..n |-> c % Base]
<1>1. c % Base \in Byte
  BY DEF Byte
<1>2. n \in Nat /\ d \in [1..n -> Byte]
  BY <1>1
<1>3. d \in Seq(Byte) /\ Len(d) = n
  BY <1>2
<1> HIDE DEF d
<1>4. d \in Datagrams
  BY <1>3, DatagramFacts
<1> QED
  BY <1>4 DEF d

LEMMA GiveUpType ==
    ASSUME TypeOK, NEW e \in Ends, GiveUp(e)
    PROVE  /\ end' \in [Ends -> {"none", "live", "closing", "gone"}]
           /\ over' \in [Ends -> BOOLEAN] /\ ending' \in BOOLEAN
           /\ \A f \in Ends : end'[f] = "live" => f # e /\ end[f] = "live"
BY DEF TypeOK, GiveUp, EndLets

LEMMA UdpTypeInit == Init => TypeOK
<1> SUFFICES ASSUME Init PROVE TypeOK
  OBVIOUS
<1>1. <<>> \in Seq(Byte) /\ Len(<<>>) = 0 /\ <<>> \in Seq(Datagrams)
  OBVIOUS
<1>8. received \in [Ends -> Nat]
  BY DEF Init
<1>2. end \in [Ends -> {"none", "live", "closing", "gone"}]
  BY DEF Init
<1>3. /\ pending \in [Ends -> Seq(Byte)] /\ buffer \in [Ends -> Seq(Byte)]
      /\ wire \in [Ends -> Seq(Byte)] /\ accepted \in [Ends -> Seq(Datagrams)]
      /\ delivered \in [Ends -> Seq(Datagrams)]
  BY <1>1 DEF Init
<1>4. \A e \in Ends : Len(pending[e]) = 0 /\ Len(buffer[e]) = 0 /\ received[e] = 0
  BY DEF Init
<1>5. \A e \in Ends : MaxSent[e] \in Nat
  BY DEF Ends
<1>6. /\ \A e \in Ends : Len(pending[e]) <= MaxPendingBytes
      /\ \A e \in Ends : received[e] <= MaxSent[e]
      /\ \A e \in Ends : Len(buffer[e]) < HeaderBytes + MaxDatagram
  BY <1>4, <1>5
<1>7. /\ opened \in [Ends -> BOOLEAN] /\ over \in [Ends -> BOOLEAN]
      /\ broken \in [Ends -> BOOLEAN] /\ ending \in BOOLEAN
  BY DEF Init
<1> QED
  BY <1>2, <1>3, <1>6, <1>7, <1>8 DEF TypeOK

\* What type correctness asks of an action, where it touches it.
LEMMA UdpTypeStep == TypeOK /\ [Next]_vars => TypeOK'
<1> SUFFICES ASSUME TypeOK, [Next]_vars PROVE TypeOK'
  OBVIOUS
<1> USE DEF sendVars, recvVars, lifeVars
<1>1. ASSUME NEW e \in Ends, RecvCb(e) PROVE TypeOK'
  <2>1. PICK n \in 0..MaxDatagram :
           LET d == [k \in 1..n |-> received[e] % Base]
           IN  \/ /\ ~opened[e]
                  /\ BufferFrame(e, d)
                  /\ UNCHANGED <<wire, lifeVars>>
               \/ /\ opened[e] /\ ~ending
                  /\ WriteFrame(e, d)
                  /\ UNCHANGED <<pending, lifeVars>>
               \/ /\ opened[e] /\ ending
                  /\ GiveUp(e)
                  /\ UNCHANGED <<wire, pending, accepted>>
    BY <1>1 DEF RecvCb
  <2> DEFINE d == [k \in 1..n |-> received[e] % Base]
  <2>2. received[e] \in Nat /\ received[e] + 1 <= MaxSent[e]
    <3>1. received[e] \in Nat /\ MaxSent[e] \in Nat
      BY DEF TypeOK, Ends
    <3>2. received[e] < MaxSent[e]
      BY <1>1 DEF RecvCb
    <3> QED
      BY <3>1, <3>2
  <2>3. d \in Datagrams
    BY <2>2, PayloadType
  <2> HIDE DEF d
  <2>4. Frame(d) \in Seq(Byte)
    BY <2>3, FrameType
  <2>9. /\ received' = [received EXCEPT ![e] = @ + 1]
        /\ UNCHANGED <<opened, broken, recvVars>>
    BY <1>1 DEF RecvCb
  <2>5. /\ received' \in [Ends -> Nat]
        /\ \A f \in Ends : received'[f] <= MaxSent[f]
        /\ UNCHANGED <<opened, broken, recvVars>>
    BY <2>2, <2>9, SMTT(30) DEF TypeOK
  <2>6. CASE BufferFrame(e, d) /\ UNCHANGED <<wire, lifeVars>>
    <3>1. /\ pending' \in [Ends -> Seq(Byte)] /\ accepted' \in [Ends -> Seq(Datagrams)]
          /\ \A f \in Ends : Len(pending'[f]) <= MaxPendingBytes
      <4>1. CASE UNCHANGED <<pending, accepted>>
        BY <4>1 DEF TypeOK
      <4>2. CASE /\ ~(Len(pending[e]) + Len(Frame(d)) > MaxPendingBytes)
                 /\ pending' = [pending EXCEPT ![e] = @ \o Frame(d)]
                 /\ accepted' = [accepted EXCEPT ![e] = Append(@, d)]
        <5>1. pending[e] \in Seq(Byte) /\ accepted[e] \in Seq(Datagrams)
          BY DEF TypeOK
        <5>2. /\ pending[e] \o Frame(d) \in Seq(Byte)
              /\ Len(pending[e] \o Frame(d)) <= MaxPendingBytes
              /\ Append(accepted[e], d) \in Seq(Datagrams)
          BY <2>3, <2>4, <4>2, <5>1
        <5> QED
          BY <4>2, <5>2 DEF TypeOK
      <4> QED
        BY <2>6, <4>1, <4>2 DEF BufferFrame
    <3> QED
      BY <2>5, <2>6, <3>1 DEF TypeOK
  <2>7. CASE WriteFrame(e, d) /\ UNCHANGED <<pending, lifeVars>>
    <3>1. /\ wire[e] \o Frame(d) \in Seq(Byte)
          /\ Append(accepted[e], d) \in Seq(Datagrams)
      BY <2>3, <2>4 DEF TypeOK
    <3>2. wire' \in [Ends -> Seq(Byte)] /\ accepted' \in [Ends -> Seq(Datagrams)]
      BY <2>7, <3>1 DEF TypeOK, WriteFrame
    <3> QED
      BY <2>5, <2>7, <3>2 DEF TypeOK
  <2>8. CASE GiveUp(e) /\ UNCHANGED <<wire, pending, accepted>>
    BY <2>5, <2>8, GiveUpType DEF TypeOK
  <2> QED
    BY <2>1, <2>6, <2>7, <2>8 DEF d
<1>2. ASSUME NEW e \in Ends, RecvTruncated(e) PROVE TypeOK'
  <2>1. received[e] \in Nat /\ received[e] + 1 <= MaxSent[e]
    <3>1. received[e] \in Nat /\ MaxSent[e] \in Nat
      BY DEF TypeOK, Ends
    <3>2. received[e] < MaxSent[e]
      BY <1>2 DEF RecvTruncated
    <3> QED
      BY <3>1, <3>2
  <2>2. /\ received' \in [Ends -> Nat]
        /\ \A f \in Ends : received'[f] <= MaxSent[f]
    BY <1>2, <2>1, SMTT(30) DEF RecvTruncated, TypeOK
  <2> QED
    BY <1>2, <2>2 DEF RecvTruncated, TypeOK
<1>3. CASE RecvError
  <2>1. GiveUp("server") /\ "server" \in Ends
    BY <1>3 DEF RecvError, Ends
  <2> QED
    BY <1>3, <2>1, GiveUpType DEF RecvError, TypeOK
<1>4. ASSUME NEW e \in Ends, StreamOpenCb(e) PROVE TypeOK'
  <2>1. /\ opened' \in [Ends -> BOOLEAN] /\ pending' \in [Ends -> Seq(Byte)]
        /\ \A f \in Ends : Len(pending'[f]) <= MaxPendingBytes
        /\ UNCHANGED <<received, accepted, recvVars, broken>>
    <3>1. <<>> \in Seq(Byte) /\ Len(<<>>) <= MaxPendingBytes
      OBVIOUS
    <3> QED
      BY <1>4, <3>1 DEF StreamOpenCb, TypeOK
  <2>2. wire' \in [Ends -> Seq(Byte)]
    <3>1. wire[e] \o pending[e] \in Seq(Byte)
      BY DEF TypeOK
    <3> QED
      BY <1>4, <3>1 DEF StreamOpenCb, TypeOK
  <2>3. CASE UNCHANGED lifeVars
    BY <2>1, <2>2, <2>3 DEF TypeOK
  <2>4. CASE GiveUp(e)
    BY <2>1, <2>2, <2>4, GiveUpType DEF TypeOK
  <2> QED
    BY <1>4, <2>3, <2>4 DEF StreamOpenCb
<1>5. ASSUME NEW e \in Ends, OversizedHeader(e) PROVE TypeOK'
  <2>1. Header(MaxDatagram + 1) \in Seq(Byte)
    BY HeaderType, PlaceFacts
  <2>2. wire[e] \o Header(MaxDatagram + 1) \in Seq(Byte)
    BY <2>1 DEF TypeOK
  <2>3. wire' \in [Ends -> Seq(Byte)] /\ broken' \in [Ends -> BOOLEAN]
    BY <1>5, <2>2 DEF OversizedHeader, TypeOK
  <2> QED
    BY <1>5, <2>3 DEF OversizedHeader, TypeOK
<1>6. ASSUME NEW e \in Ends, OnStreamData(e) PROVE TypeOK'
  <2> DEFINE f == Other(e)
             out(n) == Decode(buffer[e] \o SubSeq(wire[f], 1, n))
  <2>1. PICK n \in 1..Len(wire[f]) :
           /\ wire' = [wire EXCEPT ![f] = SubSeq(@, n + 1, Len(@))]
           /\ IF end[e] = "live"
              THEN /\ buffer' = [buffer EXCEPT ![e] = out(n).rest]
                   /\ delivered' = [delivered EXCEPT ![e] = @ \o out(n).frames]
                   /\ IF out(n).ok THEN UNCHANGED lifeVars ELSE GiveUp(e)
              ELSE UNCHANGED <<recvVars, lifeVars>>
    BY <1>6 DEF OnStreamData
  <2>2. UNCHANGED <<sendVars, broken>>
    BY <1>6 DEF OnStreamData
  <2>3. f \in Ends /\ wire[f] \in Seq(Byte)
    BY OtherEnd DEF TypeOK
  <2>4. wire' \in [Ends -> Seq(Byte)]
    <3>1. SubSeq(wire[f], n + 1, Len(wire[f])) \in Seq(Byte)
      BY <2>3
    <3> HIDE DEF f
    <3> QED
      BY <2>1, <2>3, <3>1 DEF TypeOK
  <2>5. CASE end[e] # "live"
    BY <2>1, <2>2, <2>4, <2>5 DEF TypeOK
  <2>6. CASE end[e] = "live"
    <3>1. buffer[e] \o SubSeq(wire[f], 1, n) \in Seq(Byte)
      BY <2>3, SMTT(30) DEF TypeOK
    <3>2. /\ out(n).frames \in Seq(Datagrams) /\ out(n).rest \in Seq(Byte)
          /\ out(n).ok \in BOOLEAN
          /\ out(n).ok => Len(out(n).rest) < HeaderBytes + MaxDatagram
      BY <3>1, DecodeType
    <3> HIDE DEF out
    <3>3. delivered[e] \o out(n).frames \in Seq(Datagrams)
      BY <3>2 DEF TypeOK
    <3>7. PICK r, fs : r = out(n).rest /\ fs = delivered[e] \o out(n).frames
      OBVIOUS
    <3>8. /\ buffer' = [buffer EXCEPT ![e] = r] /\ r \in Seq(Byte)
          /\ delivered' = [delivered EXCEPT ![e] = fs] /\ fs \in Seq(Datagrams)
      BY <2>1, <2>6, <3>2, <3>3, <3>7
    <3>4. /\ buffer' \in [Ends -> Seq(Byte)]
          /\ delivered' \in [Ends -> Seq(Datagrams)]
      BY <3>8 DEF TypeOK
    <3>5. CASE out(n).ok
      <4>1. UNCHANGED lifeVars
        BY <2>1, <2>6, <3>5
      <4>2. \A g \in Ends : Len(buffer'[g]) < HeaderBytes + MaxDatagram \/ end'[g] # "live"
        BY <2>1, <2>6, <3>2, <3>5, <4>1 DEF TypeOK
      <4> QED
        BY <2>2, <2>4, <3>4, <4>1, <4>2 DEF TypeOK
    <3>6. CASE ~out(n).ok
      <4>1. GiveUp(e)
        BY <2>1, <2>6, <3>6
      <4>2. \A g \in Ends : Len(buffer'[g]) < HeaderBytes + MaxDatagram \/ end'[g] # "live"
        <5>1. \A g \in Ends : end'[g] = "live" => g # e /\ end[g] = "live"
          BY <4>1, GiveUpType
        <5>2. \A g \in Ends : g # e => buffer'[g] = buffer[g]
          BY <2>1, <2>6 DEF TypeOK
        <5> QED
          BY <5>1, <5>2 DEF TypeOK
      <4> QED
        BY <2>2, <2>4, <3>4, <4>1, <4>2, GiveUpType DEF TypeOK
    <3> QED
      BY <3>5, <3>6
  <2> QED
    BY <2>5, <2>6
<1>7. ASSUME NEW e \in Ends, OnStreamClose(e) PROVE TypeOK'
  BY <1>7 DEF OnStreamClose, EndLets, TypeOK
<1>8. ASSUME NEW e \in Ends, OwnerDestroy(e) PROVE TypeOK'
  BY <1>8, GiveUpType DEF OwnerDestroy, TypeOK
<1>9. CASE HandleClosed
  BY <1>9 DEF HandleClosed, TypeOK
<1>10. CASE UNCHANGED vars
  BY <1>10 DEF vars, TypeOK
<1> QED
  BY <1>1, <1>2, <1>3, <1>4, <1>5, <1>6, <1>7, <1>8, <1>9, <1>10 DEF Next

\* A decoder never holds a whole frame between two pushes, whatever bytes
\* arrive, and an end never buffers more than kMaxPendingBytes
\* (udp_pipe.cpp:90-107, client.cpp:374, server.cpp:287).
THEOREM UdpTypeCorrect == Spec => []TypeOK
<1> QED
  BY UdpTypeInit, UdpTypeStep, PTL DEF Spec

-----------------------------------------------------------------------------
(* Frames laid out one after the other.                                    *)

Begins(x, y) == Len(x) <= Len(y) /\ \A k \in 1..Len(x) : y[k] = x[k]

LEMMA CatBytes ==
    ASSUME NEW s \in Seq(Byte), NEW t \in Seq(Byte)
    PROVE  /\ s \o t \in Seq(Byte) /\ Len(s \o t) = Len(s) + Len(t)
           /\ \A k \in 1..Len(s) : (s \o t)[k] = s[k]
           /\ \A k \in 1..Len(t) : (s \o t)[Len(s) + k] = t[k]
OBVIOUS

LEMMA SubBytes ==
    ASSUME NEW s \in Seq(Byte), NEW a \in 1..(Len(s) + 1),
           NEW z \in (a - 1)..Len(s)
    PROVE  /\ SubSeq(s, a, z) \in Seq(Byte) /\ Len(SubSeq(s, a, z)) = (z - a) + 1
           /\ \A k \in 1..((z - a) + 1) : SubSeq(s, a, z)[k] = s[(a - 1) + k]
OBVIOUS

LEMMA JoinTwo ==
    ASSUME NEW a \in Seq(Byte), NEW b \in Seq(Byte)
    PROVE  (a \o b) \o <<>> = a \o b
<1>1. \A s \in Seq(Byte) : s \o <<>> = s
  OBVIOUS
<1>2. a \o b \in Seq(Byte)
  BY CatBytes
<1> QED
  BY <1>1, <1>2

LEMMA JoinThree ==
    ASSUME NEW a \in Seq(Byte), NEW b \in Seq(Byte), NEW c \in Seq(Byte)
    PROVE  a \o (b \o c) = (a \o b) \o c
BY SMTT(30)

LEMMA JoinLast ==
    ASSUME NEW a \in Seq(Byte), NEW b \in Seq(Byte), NEW c \in Seq(Byte)
    PROVE  (a \o (b \o c)) \o <<>> = ((a \o b) \o <<>>) \o c
<1>1. b \o c \in Seq(Byte)
  BY CatBytes
<1>2. (a \o (b \o c)) \o <<>> = a \o (b \o c) /\ (a \o b) \o <<>> = a \o b
  BY <1>1, JoinTwo
<1> QED
  BY <1>2, JoinThree, SMTT(30)

LEMMA CutBytes ==
    ASSUME NEW s \in Seq(Byte), NEW m \in 0..Len(s)
    PROVE  /\ SubSeq(s, 1, m) \in Seq(Byte)
           /\ SubSeq(s, m + 1, Len(s)) \in Seq(Byte)
           /\ s = SubSeq(s, 1, m) \o SubSeq(s, m + 1, Len(s))
<1> DEFINE p == SubSeq(s, 1, m)
           q == SubSeq(s, m + 1, Len(s))
           z == p \o q
<1>1. /\ p \in Seq(Byte) /\ Len(p) = m
      /\ q \in Seq(Byte) /\ Len(q) = Len(s) - m
  OBVIOUS
<1>2. /\ \A k \in 1..m : p[k] = s[k]
      /\ \A k \in 1..(Len(s) - m) : q[k] = s[m + k]
  OBVIOUS
<1>3. m \in Nat /\ Len(s) \in Nat /\ m <= Len(s)
  OBVIOUS
<1> HIDE DEF p, q
<1>4. /\ z \in Seq(Byte) /\ Len(z) = Len(p) + Len(q)
      /\ \A k \in 1..Len(p) : z[k] = p[k]
      /\ \A k \in 1..Len(q) : z[Len(p) + k] = q[k]
  BY <1>1, CatBytes
<1> HIDE DEF z
<1>5. Len(z) = Len(s)
  BY <1>1, <1>3, <1>4
<1>6. ASSUME NEW k \in 1..Len(s) PROVE s[k] = z[k]
  <2>1. CASE k <= m
    BY <1>1, <1>2, <1>3, <1>4, <2>1
  <2>2. CASE ~(k <= m)
    <3>1. k - m \in 1..(Len(s) - m) /\ m + (k - m) = k
      BY <1>3, <2>2
    <3>2. PICK i \in 1..(Len(s) - m) : m + i = k
      BY <3>1
    <3> QED
      BY <1>1, <1>2, <1>4, <3>2
  <2> QED
    BY <2>1, <2>2
<1>7. s = z
  BY <1>4, <1>5, <1>6, SeqEqual
<1> QED
  BY <1>1, <1>7 DEF p, q, z

LEMMA CatDatagrams ==
    ASSUME NEW s \in Seq(Datagrams), NEW t \in Seq(Datagrams)
    PROVE  /\ s \o t \in Seq(Datagrams) /\ Len(s \o t) = Len(s) + Len(t)
           /\ \A k \in 1..Len(s) : (s \o t)[k] = s[k]
           /\ \A k \in 1..Len(t) : (s \o t)[Len(s) + k] = t[k]
OBVIOUS

\* x without its first c bytes.
IsWithout(y, x, c) ==
    Len(y) = Len(x) - c /\ \A k \in 1..Len(y) : y[k] = x[c + k]

LEMMA DropBytes ==
    ASSUME NEW b \in Seq(Byte), NEW c \in 0..Len(b)
    PROVE  LET r == SubSeq(b, c + 1, Len(b))
           IN  r \in Seq(Byte) /\ Len(r) = Len(b) - c /\ IsWithout(r, b, c)
<1>1. /\ SubSeq(b, c + 1, Len(b)) \in Seq(Byte)
      /\ Len(SubSeq(b, c + 1, Len(b))) = Len(b) - c
      /\ \A k \in 1..(Len(b) - c) : SubSeq(b, c + 1, Len(b))[k] = b[c + k]
  OBVIOUS
<1> QED
  BY <1>1 DEF IsWithout

LEMMA DropThenJoin ==
    ASSUME NEW b \in Seq(Byte), NEW w \in Seq(Byte), NEW r \in Seq(Byte),
           NEW c \in 0..Len(b), IsWithout(r, b, c)
    PROVE  r \o w \in Seq(Byte) /\ IsWithout(r \o w, b \o w, c)
<1> DEFINE x == b \o w
           y == r \o w
<1>1. /\ x \in Seq(Byte) /\ Len(x) = Len(b) + Len(w)
      /\ \A k \in 1..Len(b) : x[k] = b[k]
      /\ \A k \in 1..Len(w) : x[Len(b) + k] = w[k]
  BY CatBytes
<1>2. /\ y \in Seq(Byte) /\ Len(y) = Len(r) + Len(w)
      /\ \A k \in 1..Len(r) : y[k] = r[k]
      /\ \A k \in 1..Len(w) : y[Len(r) + k] = w[k]
  BY CatBytes
<1>3. /\ Len(r) = Len(b) - c /\ \A k \in 1..Len(r) : r[k] = b[c + k]
      /\ Len(b) \in Nat /\ Len(w) \in Nat /\ c \in Nat /\ c <= Len(b)
  BY DEF IsWithout
<1> HIDE DEF x, y
<1>4. ASSUME NEW k \in 1..Len(y) PROVE y[k] = x[c + k]
  <2>1. CASE k <= Len(r)
    <3>1. k \in 1..Len(r) /\ c + k \in 1..Len(b)
      BY <1>3, <2>1
    <3> QED
      BY <1>1, <1>2, <1>3, <3>1
  <2>2. CASE ~(k <= Len(r))
    <3>1. k - Len(r) \in 1..Len(w) /\ Len(r) + (k - Len(r)) = k
          /\ Len(b) + (k - Len(r)) = c + k
      BY <1>2, <1>3, <2>2
    <3>2. PICK i \in 1..Len(w) : Len(r) + i = k /\ Len(b) + i = c + k
      BY <3>1
    <3>3. y[Len(r) + i] = w[i] /\ x[Len(b) + i] = w[i]
      BY <1>1, <1>2
    <3> QED
      BY <3>2, <3>3
  <2> QED
    BY <2>1, <2>2
<1>5. IsWithout(y, x, c)
  BY <1>1, <1>2, <1>3, <1>4 DEF IsWithout
<1> QED
  BY <1>2, <1>5 DEF x, y

\* Some bytes of the wire join those in the buffer.
LEMMA FirstBytes ==
    ASSUME NEW b \in Seq(Byte), NEW s \in Seq(Byte), NEW m \in 1..Len(s)
    PROVE  LET x == (b \o s) \o <<>>
               p == b \o SubSeq(s, 1, m)
               w == SubSeq(s, m + 1, Len(s))
           IN  p \in Seq(Byte) /\ w \in Seq(Byte) /\ x = p \o w /\ Begins(p, x)
<1> DEFINE q == SubSeq(s, 1, m)
           w == SubSeq(s, m + 1, Len(s))
<1>1. q \in Seq(Byte) /\ w \in Seq(Byte) /\ s = q \o w
  BY CutBytes
<1> HIDE DEF q, w
<1>6. b \o (q \o w) = (b \o q) \o w
  BY <1>1, JoinThree, Zenon
<1>7. (b \o s) \o <<>> = b \o s
  BY JoinTwo, Zenon
<1>2. (b \o s) \o <<>> = (b \o q) \o w
  BY <1>1, <1>6, <1>7, Zenon
<1>3. b \o q \in Seq(Byte)
  BY <1>1, CatBytes
<1> DEFINE p == b \o q
<1> HIDE DEF p
<1>4. /\ Len(p \o w) = Len(p) + Len(w) /\ Len(p) \in Nat /\ Len(w) \in Nat
      /\ \A k \in 1..Len(p) : (p \o w)[k] = p[k]
  BY <1>1, <1>3, CatBytes DEF p
<1>5. Begins(p, p \o w)
  BY <1>4 DEF Begins
<1> QED
  BY <1>1, <1>2, <1>3, <1>5 DEF p, q, w

LEMMA HeaderMoves ==
    ASSUME NEW x \in Seq(Byte), NEW y \in Seq(Byte), NEW o \in Nat, NEW n,
           HeaderIsAt(x, o, n)
    PROVE  /\ Begins(x, y) => HeaderIsAt(y, o, n)
           /\ \A c \in 0..o : IsWithout(y, x, c) => HeaderIsAt(y, o - c, n)
<1>1. ASSUME Begins(x, y) PROVE HeaderIsAt(y, o, n)
  <2>1. \A k \in 1..HeaderBytes : o + k \in 1..Len(x)
    BY DEF HeaderIsAt
  <2> QED
    BY <1>1, <2>1 DEF HeaderIsAt, Begins
<1>2. ASSUME NEW c \in 0..o, IsWithout(y, x, c) PROVE HeaderIsAt(y, o - c, n)
  <2>1. (o - c) + HeaderBytes <= Len(y)
    BY <1>2 DEF HeaderIsAt, IsWithout
  <2>2. ASSUME NEW k \in 1..HeaderBytes PROVE y[(o - c) + k] = Header(n)[k]
    <3>1. (o - c) + k \in 1..Len(y) /\ c + ((o - c) + k) = o + k
      BY <2>1
    <3> QED
      BY <1>2, <3>1 DEF HeaderIsAt, IsWithout
  <2> QED
    BY <2>1, <2>2 DEF HeaderIsAt
<1> QED
  BY <1>1, <1>2

LEMMA FrameMoves ==
    ASSUME NEW x \in Seq(Byte), NEW y \in Seq(Byte), NEW o \in Nat,
           NEW d \in Datagrams, FrameIsAt(x, o, d)
    PROVE  /\ Begins(x, y) => FrameIsAt(y, o, d)
           /\ \A c \in 0..o : IsWithout(y, x, c) => FrameIsAt(y, o - c, d)
<1>0. Len(d) \in Nat
  BY DatagramFacts
<1>1. ASSUME Begins(x, y) PROVE FrameIsAt(y, o, d)
  <2>1. \A k \in 1..Len(d) : (o + HeaderBytes) + k \in 1..Len(x)
    BY <1>0 DEF FrameIsAt, Total
  <2>2. HeaderIsAt(y, o, Len(d))
    BY <1>0, <1>1, HeaderMoves DEF FrameIsAt
  <2> QED
    BY <1>0, <1>1, <2>1, <2>2 DEF FrameIsAt, Begins, Total
<1>2. ASSUME NEW c \in 0..o, IsWithout(y, x, c) PROVE FrameIsAt(y, o - c, d)
  <2>1. (o - c) + Total(Len(d)) <= Len(y)
    BY <1>0, <1>2 DEF FrameIsAt, IsWithout, Total
  <2>2. HeaderIsAt(y, o - c, Len(d))
    BY <1>0, <1>2, HeaderMoves DEF FrameIsAt
  <2>3. ASSUME NEW k \in 1..Len(d) PROVE y[((o - c) + HeaderBytes) + k] = d[k]
    <3>1. /\ ((o - c) + HeaderBytes) + k \in 1..Len(y)
          /\ c + (((o - c) + HeaderBytes) + k) = (o + HeaderBytes) + k
      BY <1>0, <2>1 DEF Total
    <3> QED
      BY <1>2, <3>1 DEF FrameIsAt, IsWithout
  <2> QED
    BY <2>1, <2>2, <2>3 DEF FrameIsAt
<1> QED
  BY <1>1, <1>2

\* More bytes and more datagrams behind leave the frames where they are.
LEMMA LayExtends ==
    ASSUME NEW x \in Seq(Byte), NEW y \in Seq(Byte), Begins(x, y),
           NEW ds \in Seq(Datagrams), NEW es \in Seq(Datagrams), Begins(ds, es),
           NEW lo \in Nat, NEW hi \in lo..Len(ds), NEW at,
           Lay(x, ds, lo, hi, at)
    PROVE  Lay(y, es, lo, hi, at)
<1>1. at \in [lo..hi -> 0..Len(y)]
  BY DEF Lay, Begins
<1>2. ASSUME NEW i \in lo..(hi - 1)
      PROVE  /\ FrameIsAt(y, at[i], es[i + 1])
             /\ at[i + 1] = at[i] + Total(Len(es[i + 1]))
  <2>1. i + 1 \in 1..Len(ds) /\ es[i + 1] = ds[i + 1]
    <3>1. Len(ds) \in Nat /\ hi \in Nat /\ hi <= Len(ds)
      OBVIOUS
    <3>2. i + 1 \in 1..Len(ds)
      BY <3>1
    <3> QED
      BY <3>2 DEF Begins
  <2>2. ds[i + 1] \in Datagrams /\ at[i] \in Nat
    BY <2>1 DEF Lay
  <2>3. FrameIsAt(x, at[i], ds[i + 1]) /\ at[i + 1] = at[i] + Total(Len(ds[i + 1]))
    BY DEF Lay
  <2> QED
    BY <2>1, <2>2, <2>3, FrameMoves
<1> QED
  BY <1>1, <1>2 DEF Lay

\* One more frame at the end.
LEMMA LayAppends ==
    ASSUME NEW x \in Seq(Byte), NEW ds \in Seq(Datagrams), NEW d \in Datagrams,
           NEW lo \in 0..Len(ds), NEW at,
           Lay(x, ds, lo, Len(ds), at), at[Len(ds)] = Len(x)
    PROVE  LET hi == Len(ds)
               y  == x \o Frame(d)
               bt == [i \in lo..(hi + 1) |-> IF i = hi + 1 THEN Len(y) ELSE at[i]]
           IN  Lay(y, Append(ds, d), lo, hi + 1, bt)
<1> DEFINE hi == Len(ds)
           y  == x \o Frame(d)
           es == Append(ds, d)
           bt == [i \in lo..(hi + 1) |-> IF i = hi + 1 THEN Len(y) ELSE at[i]]
<1>1. /\ Frame(d) \in Seq(Byte) /\ Len(Frame(d)) = Total(Len(d))
      /\ \A k \in 1..HeaderBytes : Frame(d)[k] = Header(Len(d))[k]
      /\ \A k \in 1..Len(d) : Frame(d)[HeaderBytes + k] = d[k]
      /\ Len(d) \in Nat
  BY FrameType, DatagramFacts
<1>2. /\ y \in Seq(Byte) /\ Len(y) = Len(x) + Total(Len(d))
      /\ \A k \in 1..Len(x) : y[k] = x[k]
      /\ \A k \in 1..Total(Len(d)) : y[Len(x) + k] = Frame(d)[k]
  <2> DEFINE f == Frame(d)
             t == Total(Len(d))
  <2>1. f \in Seq(Byte) /\ Len(f) = t /\ y = x \o f
    BY <1>1
  <2> HIDE DEF f, t, y
  <2>2. /\ y \in Seq(Byte) /\ Len(y) = Len(x) + t
        /\ \A k \in 1..Len(x) : y[k] = x[k]
        /\ \A k \in 1..t : y[Len(x) + k] = f[k]
    BY <2>1, CatBytes
  <2> QED
    BY <2>2 DEF f, t
<1>3. /\ es \in Seq(Datagrams) /\ Len(es) = hi + 1 /\ es[hi + 1] = d
      /\ \A k \in 1..hi : es[k] = ds[k]
  OBVIOUS
<1> HIDE DEF y, es
<1>4. Begins(x, y) /\ Begins(ds, es)
  BY <1>1, <1>2, <1>3 DEF Begins, Total
<1>5. Lay(y, es, lo, hi, at)
  BY <1>2, <1>3, <1>4, LayExtends
<1>6. FrameIsAt(y, Len(x), d)
  <2>1. HeaderIsAt(y, Len(x), Len(d))
    BY <1>1, <1>2, SMTT(30) DEF HeaderIsAt, Total
  <2>2. ASSUME NEW k \in 1..Len(d) PROVE y[(Len(x) + HeaderBytes) + k] = d[k]
    <3>1. /\ HeaderBytes + k \in 1..Total(Len(d))
          /\ Len(x) + (HeaderBytes + k) = (Len(x) + HeaderBytes) + k
      BY <1>1, SMTT(30) DEF Total
    <3>2. y[Len(x) + (HeaderBytes + k)] = Frame(d)[HeaderBytes + k]
      BY <1>2, <3>1
    <3> QED
      BY <1>1, <3>1, <3>2
  <2> QED
    BY <1>2, <2>1, <2>2 DEF FrameIsAt
<1>7. hi \in Nat /\ lo <= hi
  OBVIOUS
<1>8. bt \in [lo..(hi + 1) -> 0..Len(y)]
  BY <1>1, <1>2, <1>5, <1>7, SMTT(30) DEF Lay, Total
<1>9. \A i \in lo..hi : bt[i] = at[i] /\ at[i] \in 0..Len(y)
  BY <1>5, <1>7 DEF Lay
<1>10. bt[hi + 1] = Len(y)
  BY <1>7
<1> HIDE DEF bt
<1>11. bt[lo] = 0
  BY <1>5, <1>7, <1>9 DEF Lay
<1>12. \A i, j \in lo..(hi + 1) : i <= j => bt[i] <= bt[j]
  <2>1. ASSUME NEW i \in lo..(hi + 1), NEW j \in lo..(hi + 1), i <= j
        PROVE  bt[i] <= bt[j]
    <3>1. CASE j = hi + 1
      BY <1>7, <1>8, <1>10, <3>1
    <3>2. CASE j # hi + 1
      <4>1. i \in lo..hi /\ j \in lo..hi
        BY <1>7, <2>1, <3>2
      <4>2. at[i] <= at[j]
        BY <1>5, <2>1, <4>1 DEF Lay
      <4> QED
        BY <1>9, <4>1, <4>2
    <3> QED
      BY <3>1, <3>2
  <2> QED
    BY <2>1
<1>13. ASSUME NEW i \in lo..hi
       PROVE  /\ FrameIsAt(y, bt[i], es[i + 1])
              /\ bt[i + 1] = bt[i] + Total(Len(es[i + 1]))
  <2>1. CASE i = hi
    BY <1>2, <1>3, <1>6, <1>7, <1>9, <1>10, <2>1
  <2>2. CASE i # hi
    <3>1. i \in lo..(hi - 1) /\ i \in lo..hi /\ i + 1 \in lo..hi
      BY <1>7, <2>2
    <3> QED
      BY <1>5, <1>9, <3>1 DEF Lay
  <2> QED
    BY <2>1, <2>2
<1>14. (hi + 1) - 1 = hi
  BY <1>7
<1>15. Lay(y, es, lo, hi + 1, bt)
  <2> HIDE DEF hi
  <2> QED
    BY <1>8, <1>11, <1>12, <1>13, <1>14 DEF Lay
<1> QED
  BY <1>15 DEF y, es, bt

\* The first frames gone.
LEMMA LayDrops ==
    ASSUME NEW x \in Seq(Byte), NEW y \in Seq(Byte), NEW ds \in Seq(Datagrams),
           NEW lo \in Nat, NEW hi \in lo..Len(ds), NEW at,
           Lay(x, ds, lo, hi, at), NEW j \in lo..hi, IsWithout(y, x, at[j])
    PROVE  Lay(y, ds, j, hi, [i \in j..hi |-> at[i] - at[j]])
<1> DEFINE bt == [i \in j..hi |-> at[i] - at[j]]
<1>1. at[j] \in 0..Len(x) /\ Len(y) = Len(x) - at[j]
  BY DEF Lay, IsWithout
<1>2. \A i \in j..hi : at[i] \in 0..Len(x) /\ at[j] <= at[i]
  BY DEF Lay
<1>3. bt \in [j..hi -> 0..Len(y)]
  <2>1. ASSUME NEW i \in j..hi PROVE at[i] - at[j] \in 0..Len(y)
    <3>1. at[i] \in 0..Len(x) /\ at[j] <= at[i]
      BY <1>2
    <3> QED
      BY <1>1, <3>1, SMTT(30)
  <2> QED
    BY <2>1
<1>4. \A i \in j..hi : bt[i] = at[i] - at[j]
  OBVIOUS
<1> HIDE DEF bt
<1>5. bt[j] = 0
  BY <1>1, <1>4
<1>6. \A i, k \in j..hi : i <= k => bt[i] <= bt[k]
  <2>1. ASSUME NEW i \in j..hi, NEW k \in j..hi, i <= k PROVE bt[i] <= bt[k]
    <3>1. at[i] <= at[k]
      BY <2>1 DEF Lay
    <3> QED
      BY <1>1, <1>2, <1>4, <3>1
  <2> QED
    BY <2>1
<1>7. ASSUME NEW i \in j..(hi - 1)
      PROVE  /\ FrameIsAt(y, bt[i], ds[i + 1])
             /\ bt[i + 1] = bt[i] + Total(Len(ds[i + 1]))
  <2>1. i \in j..hi /\ i + 1 \in j..hi /\ i + 1 \in 1..Len(ds)
    OBVIOUS
  <2>2. ds[i + 1] \in Datagrams /\ Len(ds[i + 1]) \in Nat
    BY <2>1, DatagramFacts
  <2>3. FrameIsAt(x, at[i], ds[i + 1]) /\ at[i + 1] = at[i] + Total(Len(ds[i + 1]))
    BY DEF Lay
  <2>4. at[j] \in 0..at[i] /\ at[i] \in Nat
    BY <1>1, <1>2, <2>1
  <2>5. FrameIsAt(y, at[i] - at[j], ds[i + 1])
    BY <2>2, <2>3, <2>4, FrameMoves
  <2>6. Total(Len(ds[i + 1])) \in Nat
    BY <2>2 DEF Total
  <2> QED
    BY <1>4, <2>1, <2>3, <2>4, <2>5, <2>6
<1>8. Lay(y, ds, j, hi, bt)
  BY <1>3, <1>5, <1>6, <1>7 DEF Lay
<1> QED
  BY <1>8 DEF bt

\* The loop has handed on ds[lo+1] .. ds[j] of the frames laid out for b, for
\* some j, and stopped where the next of them begins, which is not whole.
TakesTo(all, b, ds, lo, hi, at) ==
    \E j \in lo..hi :
       /\ all.rest = at[j]
       /\ Len(all.frames) = j - lo
       /\ \A k \in 1..(j - lo) : all.frames[k] = ds[lo + k]
       /\ all.ok => (j < hi => Len(b) < at[j + 1])

\* On frames laid out, however much of them has arrived, the loop hands on
\* the whole ones, as they were framed, and stops where the next begins.
LEMMA LoopOnFrames ==
    ASSUME NEW x \in Seq(Byte), NEW b \in Seq(Byte), Begins(b, x),
           NEW ds \in Seq(Datagrams), NEW lo \in Nat, NEW hi \in lo..Len(ds),
           NEW at, Lay(x, ds, lo, hi, at),
           \/ Len(x) = at[hi]
           \/ HeaderIsAt(x, at[hi], MaxDatagram + 1)
    PROVE  TakesTo(PushLoop(b)[0], b, ds, lo, hi, at)
<1> DEFINE R == PushLoop(b)
           Good(i) == \E j \in i..hi :
                         /\ R[at[i]].rest = at[j]
                         /\ Len(R[at[i]].frames) = j - i
                         /\ \A k \in 1..(j - i) : R[at[i]].frames[k] = ds[i + k]
                         /\ R[at[i]].ok => (j < hi => Len(b) < at[j + 1])
           S == {m \in Nat : \A i \in lo..hi :
                                i >= hi - m /\ at[i] <= Len(b) => Good(i)}
<1>0. /\ hi \in Nat /\ Len(b) \in Nat /\ Len(x) \in Nat
      /\ \A i \in lo..hi : at[i] \in 0..Len(x)
  BY DEF Lay
<1>1. ASSUME NEW i \in lo..hi, at[i] <= Len(b),
             i < hi /\ at[i + 1] <= Len(b) => Good(i + 1)
      PROVE  Good(i)
  <2> DEFINE o == at[i]
             n == LengthAt(b, o)
  <2>1. o \in 0..Len(b) /\ i \in Nat /\ i <= hi
    BY <1>0, <1>1
  <2>2. R[o] = Turn(R, b, o)
    BY <2>1, LoopDefined
  <2>3. ASSUME R[o].rest = o, R[o].frames = <<>>,
               R[o].ok => (i < hi => Len(b) < at[i + 1])
        PROVE  Good(i)
    <3>1. i \in i..hi /\ i - i = 0 /\ Len(R[o].frames) = 0
      BY <2>1, <2>3
    <3> QED
      BY <2>3, <3>1
  <2>4. CASE Len(b) - o < HeaderBytes
    <3>1. R[o] = [frames |-> <<>>, rest |-> o, ok |-> TRUE]
      BY <2>2, <2>4 DEF Turn
    <3>2. ASSUME i < hi PROVE Len(b) < at[i + 1]
      <4>1. i \in lo..(hi - 1) /\ i + 1 \in 1..Len(ds)
        BY <1>0, <2>1, <3>2
      <4>2. at[i + 1] = o + Total(Len(ds[i + 1])) /\ Len(ds[i + 1]) \in Nat
        BY <4>1, DatagramFacts DEF Lay
      <4> QED
        BY <2>1, <2>4, <4>2, SMTT(30) DEF Total
    <3> HIDE DEF R, o, Good
    <3> QED
      BY <2>3, <3>1, <3>2
  <2>5. ASSUME ~(Len(b) - o < HeaderBytes), NEW l \in 0..(MaxDatagram + 1),
               HeaderIsAt(x, o, l)
        PROVE  n = l
    <3>1. ASSUME NEW k \in 1..HeaderBytes PROVE b[o + k] = Header(l)[k]
      <4> HIDE DEF o
      <4>1. o + k \in 1..Len(b)
        BY <2>1, <2>5
      <4> QED
        BY <2>5, <4>1 DEF HeaderIsAt, Begins
    <3> HIDE DEF o
    <3> QED
      BY <2>1, <2>5, <3>1, HeaderRead DEF n
  <2>6. CASE ~(Len(b) - o < HeaderBytes) /\ i = hi
    <3>1. HeaderIsAt(x, o, MaxDatagram + 1)
      BY <1>0, <2>1, <2>6 DEF Begins
    <3>2. MaxDatagram \in Nat
      BY PlaceFacts
    <3>3. n = MaxDatagram + 1
      BY <2>5, <2>6, <3>1, <3>2
    <3>4. R[o] = [frames |-> <<>>, rest |-> o, ok |-> FALSE]
      BY <2>2, <2>6, <3>2, <3>3 DEF Turn, TooLong
    <3> HIDE DEF R, o, Good
    <3> QED
      BY <2>3, <3>4
  <2>7. CASE ~(Len(b) - o < HeaderBytes) /\ i # hi
    <3> DEFINE d == ds[i + 1]
    <3>1. i \in lo..(hi - 1) /\ i + 1 \in 1..Len(ds) /\ i + 1 \in lo..hi /\ i < hi
      BY <1>0, <2>1, <2>7
    <3>2. d \in Datagrams /\ d \in Seq(Byte) /\ Len(d) \in 0..MaxDatagram
      BY <3>1, DatagramFacts
    <3>3. FrameIsAt(x, o, d) /\ at[i + 1] = o + Total(Len(d))
      BY <3>1 DEF Lay
    <3>4. n = Len(d)
      <4>1. Len(d) \in 0..(MaxDatagram + 1)
        BY <3>2, PlaceFacts
      <4>2. HeaderIsAt(x, o, Len(d))
        BY <3>3 DEF FrameIsAt
      <4> HIDE DEF d, o, n
      <4> QED
        BY <2>5, <2>7, <4>1, <4>2
    <3>5. ~TooLong(n)
      BY <3>2, <3>4 DEF TooLong
    <3>6. CASE Len(b) - o < Total(n)
      <4>1. R[o] = [frames |-> <<>>, rest |-> o, ok |-> TRUE]
        BY <2>2, <2>7, <3>5, <3>6 DEF Turn
      <4>2. Len(b) < at[i + 1]
        BY <2>1, <3>2, <3>3, <3>4, <3>6 DEF Total
      <4> HIDE DEF R, o, Good
      <4> QED
        BY <2>3, <4>1, <4>2
    <3>7. CASE ~(Len(b) - o < Total(n))
      <4> DEFINE next == R[at[i + 1]]
                 e == SubSeq(b, o + HeaderBytes + 1, o + Total(n))
      <4>1. at[i + 1] = o + Total(n) /\ at[i + 1] \in 0..Len(b)
        <5>1. o + Total(n) \in 0..Len(b)
          <6> HIDE DEF o, n, d
          <6> QED
            BY <2>1, <3>2, <3>4, <3>7 DEF Total
        <5> QED
          BY <3>3, <3>4, <5>1
      <4>2. R[o] = [next EXCEPT !.frames = <<e>> \o @]
        BY <2>2, <2>7, <3>5, <3>7, <4>1 DEF Turn
      <4>3. next \in Results(b)
        BY <4>1, LoopBounded
      <4>4. e = d
        <5>1. /\ o + HeaderBytes + 1 \in 1..(Len(b) + 1)
              /\ o + Total(n) \in 0..Len(b)
              /\ ((o + Total(n)) - (o + HeaderBytes + 1)) + 1 = n
              /\ n \in Nat
          <6> HIDE DEF o, n, d
          <6> QED
            BY <2>1, <3>2, <3>4, <4>1 DEF Total
        <5>4. /\ (o + HeaderBytes + 1) - 1 = o + HeaderBytes
              /\ o + Total(n) \in ((o + HeaderBytes + 1) - 1)..Len(b)
          <6> HIDE DEF o, n
          <6> QED
            BY <2>1, <5>1 DEF Total
        <5>2. /\ e \in Seq(Byte) /\ Len(e) = n
              /\ \A k \in 1..n : e[k] = b[(o + HeaderBytes) + k]
          <6> DEFINE a == o + HeaderBytes + 1
                     z == o + Total(n)
          <6>1. e = SubSeq(b, a, z)
            OBVIOUS
          <6>2. a \in 1..(Len(b) + 1) /\ z \in (a - 1)..Len(b)
            BY <5>1, <5>4
          <6>3. (z - a) + 1 = n /\ a - 1 = o + HeaderBytes
            BY <5>1, <5>4
          <6> HIDE DEF e, o, n, a, z
          <6> DEFINE l == (z - a) + 1
                     c == a - 1
          <6>4. /\ e \in Seq(Byte) /\ Len(e) = l
                /\ \A k \in 1..l : e[k] = b[c + k]
            BY <6>1, <6>2, SubBytes
          <6>5. l = n /\ c = o + HeaderBytes
            BY <6>3
          <6> HIDE DEF l, c
          <6> QED
            BY <6>4, <6>5
        <5>3. ASSUME NEW k \in 1..n PROVE e[k] = d[k]
          <6> HIDE DEF o, n, e, d
          <6>1. (o + HeaderBytes) + k \in 1..Len(b)
            BY <2>1, <5>1, <4>1 DEF Total
          <6>2. e[k] = b[(o + HeaderBytes) + k]
            BY <5>2
          <6>3. b[(o + HeaderBytes) + k] = x[(o + HeaderBytes) + k]
            BY <6>1 DEF Begins
          <6>4. x[(o + HeaderBytes) + k] = d[k]
            BY <3>3, <3>4 DEF FrameIsAt
          <6> QED
            BY <6>2, <6>3, <6>4
        <5> HIDE DEF e, d, n
        <5> QED
          BY <3>2, <3>4, <5>2, <5>3, SeqEqual
      <4>5. PICK j \in (i + 1)..hi :
               /\ next.rest = at[j]
               /\ Len(next.frames) = j - (i + 1)
               /\ \A k \in 1..(j - (i + 1)) : next.frames[k] = ds[(i + 1) + k]
               /\ next.ok => (j < hi => Len(b) < at[j + 1])
        BY <1>1, <3>1, <4>1
      <4> HIDE DEF e, R, o, n, next
      <4>6. /\ R[o].frames = <<d>> \o next.frames
            /\ R[o].rest = next.rest /\ R[o].ok = next.ok
            /\ next.frames \in Seq(Datagrams)
        BY <4>2, <4>3, <4>4 DEF Results
      <4> DEFINE fs == R[o].frames
                 gs == next.frames
      <4>7. j \in i..hi /\ j \in Nat /\ i + 1 <= j
        BY <2>1, <1>0
      <4>8. Len(fs) = j - i /\ fs[1] = d /\ \A k \in 1..Len(gs) : fs[k + 1] = gs[k]
        <5>1. fs = <<d>> \o gs /\ gs \in Seq(Datagrams) /\ Len(gs) = j - (i + 1)
          BY <4>5, <4>6
        <5> HIDE DEF fs, gs, d
        <5>2. <<d>> \in Seq(Datagrams) /\ Len(<<d>>) = 1
          BY <3>2
        <5> QED
          BY <2>1, <4>7, <5>1, <5>2
      <4>9. ASSUME NEW k \in 1..(j - i) PROVE fs[k] = ds[i + k]
        <5>1. CASE k = 1
          BY <4>8, <5>1
        <5>2. CASE k # 1
          <6>1. k - 1 \in 1..(j - (i + 1)) /\ (k - 1) + 1 = k /\ (i + 1) + (k - 1) = i + k
            BY <2>1, <4>7, <5>2
          <6>2. gs[k - 1] = ds[(i + 1) + (k - 1)] /\ Len(gs) = j - (i + 1)
            BY <4>5, <6>1
          <6> HIDE DEF fs, gs
          <6> QED
            BY <4>8, <6>1, <6>2
        <5> QED
          BY <5>1, <5>2
      <4> QED
        BY <4>5, <4>6, <4>7, <4>8, <4>9 DEF o
    <3> QED
      BY <3>6, <3>7
  <2> QED
    BY <2>4, <2>6, <2>7
<1>2. 0 \in S
  <2>1. ASSUME NEW i \in lo..hi, i >= hi - 0, at[i] <= Len(b) PROVE Good(i)
    <3>1. ~(i < hi)
      BY <1>0, <2>1
    <3> HIDE DEF Good
    <3> QED
      BY <1>1, <2>1, <3>1
  <2> HIDE DEF Good
  <2> QED
    BY <2>1
<1>3. ASSUME NEW m \in S PROVE m + 1 \in S
  <2>1. m \in Nat /\ m + 1 \in Nat
    OBVIOUS
  <2>2. ASSUME NEW i \in lo..hi, i >= hi - (m + 1), at[i] <= Len(b) PROVE Good(i)
    <3>1. ASSUME i < hi, at[i + 1] <= Len(b) PROVE Good(i + 1)
      <4>1. i + 1 \in lo..hi /\ i + 1 >= hi - m
        BY <1>0, <2>1, <2>2, <3>1
      <4>2. \A q \in lo..hi : q >= hi - m /\ at[q] <= Len(b) => Good(q)
        OBVIOUS
      <4> HIDE DEF Good, S
      <4> QED
        BY <3>1, <4>1, <4>2
    <3> HIDE DEF Good, S
    <3> QED
      BY <1>1, <2>2, <3>1
  <2> HIDE DEF Good
  <2> QED
    BY <2>1, <2>2
<1>4. hi \in S
  <2> HIDE DEF S
  <2>1. S \in SUBSET Nat
    BY DEF S
  <2> QED
    BY <1>0, <1>2, <1>3, <2>1, Induction
<1>5. lo \in lo..hi /\ lo >= hi - hi /\ at[lo] = 0 /\ 0 <= Len(b)
  BY <1>0 DEF Lay
<1>6. Good(lo)
  <2> HIDE DEF Good
  <2> QED
    BY <1>4, <1>5
<1> QED
  BY <1>5, <1>6 DEF TakesTo

-----------------------------------------------------------------------------
(* The invariant, action by action.                                        *)

LEMMA AheadType ==
    ASSUME TypeOK, NEW e \in Ends
    PROVE  /\ Ahead(e) \in Seq(Byte)
           /\ Len(Ahead(e)) = (Len(buffer[Other(e)]) + Len(wire[e])) + Len(pending[e])
           /\ Len(buffer[Other(e)]) <= Len(Ahead(e))
           /\ buffer[Other(e)] \in Seq(Byte) /\ wire[e] \in Seq(Byte)
           /\ pending[e] \in Seq(Byte)
           /\ accepted[e] \in Seq(Datagrams)
           /\ delivered[Other(e)] \in Seq(Datagrams)
           /\ Len(delivered[Other(e)]) \in Nat /\ Len(accepted[e]) \in Nat
<1>1. /\ buffer[Other(e)] \in Seq(Byte) /\ wire[e] \in Seq(Byte)
      /\ pending[e] \in Seq(Byte) /\ accepted[e] \in Seq(Datagrams)
      /\ delivered[Other(e)] \in Seq(Datagrams)
  BY OtherEnd DEF TypeOK
<1>2. ASSUME NEW a \in Seq(Byte), NEW b \in Seq(Byte), NEW c \in Seq(Byte)
      PROVE  /\ (a \o b) \o c \in Seq(Byte)
             /\ Len((a \o b) \o c) = (Len(a) + Len(b)) + Len(c)
  BY CatBytes
<1>3. /\ Ahead(e) \in Seq(Byte)
      /\ Len(Ahead(e)) = (Len(buffer[Other(e)]) + Len(wire[e])) + Len(pending[e])
  BY <1>1, <1>2 DEF Ahead
<1>4. \A a, b, c \in Seq(Byte) : Len(a) <= (Len(a) + Len(b)) + Len(c)
  OBVIOUS
<1>5. Len(buffer[Other(e)]) <= Len(Ahead(e))
  BY <1>1, <1>3, <1>4
<1>6. Len(delivered[Other(e)]) \in Nat /\ Len(accepted[e]) \in Nat
  BY <1>1
<1> QED
  BY <1>1, <1>3, <1>5, <1>6, Zenon

\* A step that leaves this direction alone, or only ends it.
LEMMA FlowKept ==
    ASSUME NEW e \in Ends, Flow(e),
           buffer'[Other(e)] = buffer[Other(e)], wire'[e] = wire[e],
           pending'[e] = pending[e], accepted'[e] = accepted[e],
           delivered'[Other(e)] = delivered[Other(e)],
           opened'[e] = opened[e], broken'[e] = broken[e],
           ending => ending',
           end'[Other(e)] = "live" => end[Other(e)] = "live"
    PROVE  Flow(e)'
<1> DEFINE f == Other(e)
<1>1. Ahead(e)' = Ahead(e)
  BY DEF Ahead
<1>2. ASSUME NEW hi, NEW at, FramesAhead(e, hi, at) PROVE FramesAhead(e, hi, at)'
  BY <1>1, <1>2 DEF FramesAhead
<1>3. ASSUME end'[f] = "live"
      PROVE  \E hi \in Len(delivered'[f])..Len(accepted'[e]) :
                \E at \in [Len(delivered'[f])..hi -> 0..Len(Ahead(e)')] :
                   FramesAhead(e, hi, at)'
  <2>1. PICK hi, at : /\ hi \in Len(delivered[f])..Len(accepted[e])
                      /\ at \in [Len(delivered[f])..hi -> 0..Len(Ahead(e))]
                      /\ FramesAhead(e, hi, at)
    BY <1>3 DEF Flow
  <2>2. FramesAhead(e, hi, at)'
    BY <1>2, <2>1
  <2> QED
    BY <1>1, <2>1, <2>2
<1> QED
  BY <1>3 DEF Flow

\* One more frame is accepted.
LEMMA FlowAppends ==
    ASSUME TypeOK, TypeOK', NEW e \in Ends, Flow(e), NEW d \in Datagrams,
           Ahead(e)' = Ahead(e) \o Frame(d),
           accepted'[e] = Append(accepted[e], d),
           buffer'[Other(e)] = buffer[Other(e)],
           delivered'[Other(e)] = delivered[Other(e)],
           opened'[e] = opened[e], broken'[e] = broken[e],
           UNCHANGED <<end, ending>>, ~ending \/ ~opened[e],
           opened[e] => pending'[e] = pending[e],
           ~opened[e] => wire'[e] = wire[e]
    PROVE  Flow(e)'
<1> DEFINE f  == Other(e)
           ds == accepted[e]
           es == Append(ds, d)
           x  == Ahead(e)
           y  == x \o Frame(d)
           lo == Len(delivered[f])
<1>1. /\ x \in Seq(Byte) /\ ds \in Seq(Datagrams) /\ buffer[f] \in Seq(Byte)
      /\ lo \in Nat /\ delivered[f] \in Seq(Datagrams)
  BY AheadType
<1>2. lo <= Len(ds) /\ \A i \in 1..lo : delivered[f][i] = ds[i]
  BY DEF Flow
<1>3. /\ Frame(d) \in Seq(Byte) /\ Len(Frame(d)) = Total(Len(d))
      /\ Len(d) \in Nat
  BY FrameType, DatagramFacts
<1> DEFINE fr == Frame(d)
<1>4. /\ y \in Seq(Byte) /\ Len(y) = Len(x) + Total(Len(d)) /\ Begins(x, y)
  <2>1. y = x \o fr /\ fr \in Seq(Byte) /\ Len(fr) = Total(Len(d))
    BY <1>3
  <2> HIDE DEF y, x, fr
  <2>2. y \in Seq(Byte) /\ Len(y) = Len(x) + Len(fr) /\ \A k \in 1..Len(x) : y[k] = x[k]
    BY <1>1, <2>1, CatBytes, ZenonT(40)
  <2> QED
    BY <1>1, <1>3, <2>1, <2>2 DEF Begins, Total
<1>5. /\ es \in Seq(Datagrams) /\ Len(es) = Len(ds) + 1 /\ Begins(ds, es)
  <2> HIDE DEF ds
  <2> QED
    BY <1>1 DEF Begins
<1>6. Len(buffer[f]) <= Len(x)
  BY AheadType
<1>7. Ahead(e)' = y /\ accepted'[e] = es /\ delivered'[f] = delivered[f]
  OBVIOUS
<1>8. /\ lo <= Len(es) /\ \A i \in 1..lo : delivered[f][i] = es[i]
  <2> HIDE DEF es, ds
  <2> QED
    BY <1>1, <1>2, <1>5 DEF Begins
<1>9. ASSUME end[f] = "live"
      PROVE  \E hi \in lo..Len(es) : \E at \in [lo..hi -> 0..Len(y)] :
                FramesAhead(e, hi, at)'
  <2>1. PICK hi, at : /\ hi \in lo..Len(ds) /\ at \in [lo..hi -> 0..Len(x)]
                      /\ FramesAhead(e, hi, at)
    BY <1>9 DEF Flow
  <2>2. /\ Lay(x, ds, lo, hi, at)
        /\ lo < hi => Len(buffer[f]) < at[lo + 1]
        /\ broken[e] => HeaderIsAt(x, at[hi], MaxDatagram + 1)
        /\ ~broken[e] => at[hi] = Len(x) /\ hi = Len(ds)
    BY <2>1 DEF FramesAhead
  <2>3. at[hi] \in Nat
    BY <1>1, <2>1
  <2>4. CASE broken[e]
    <3>1. Lay(y, es, lo, hi, at)
      <4> HIDE DEF y, x, es, ds, lo
      <4> QED
        BY <1>1, <1>4, <1>5, <2>1, <2>2, LayExtends
    <3>2. HeaderIsAt(y, at[hi], MaxDatagram + 1)
      <4> HIDE DEF y, x
      <4> QED
        BY <1>1, <1>4, <2>2, <2>3, <2>4, HeaderMoves
    <3>3. FramesAhead(e, hi, at)'
      <4> HIDE DEF y, x, es, ds
      <4> QED
        BY <1>7, <2>2, <2>4, <3>1, <3>2 DEF FramesAhead
    <3>4. hi \in lo..Len(es)
      BY <1>1, <1>5, <2>1
    <3>5. at \in [lo..hi -> 0..Len(y)]
      BY <3>1 DEF Lay
    <3> QED
      BY <3>3, <3>4, <3>5
  <2>5. CASE ~broken[e]
    <3>0. PICK bt : bt = [i \in lo..(hi + 1) |->
                            IF i = hi + 1 THEN Len(y) ELSE at[i]]
      OBVIOUS
    <3>1. Lay(y, es, lo, hi + 1, bt)
      <4>1. hi = Len(ds) /\ lo \in 0..Len(ds) /\ at[Len(ds)] = Len(x)
            /\ Lay(x, ds, lo, Len(ds), at)
        BY <1>1, <1>2, <2>2, <2>5
      <4> HIDE DEF x, ds, lo
      <4> QED
        BY <1>1, <3>0, <4>1, LayAppends
    <3>2. bt[hi + 1] = Len(y) /\ hi + 1 = Len(es)
      BY <1>1, <1>5, <2>1, <2>2, <2>5, <3>0
    <3>3. lo < hi + 1 => Len(buffer[f]) < bt[lo + 1]
      <4>1. CASE lo < hi
        <5>1. bt[lo + 1] = at[lo + 1]
          BY <1>1, <2>1, <3>0, <4>1, SMTT(30)
        <5> QED
          BY <2>2, <4>1, <5>1
      <4>2. CASE ~(lo < hi)
        <5>1. bt[lo + 1] = Len(y)
          BY <1>1, <2>1, <3>0, <4>2, SMTT(30)
        <5> HIDE DEF y, x
        <5> QED
          BY <1>1, <1>3, <1>4, <1>6, <5>1 DEF Total
      <4> QED
        BY <4>1, <4>2
    <3> DEFINE h1 == hi + 1
    <3>7. hi < h1 /\ h1 \in lo..Len(es)
      BY <1>1, <1>5, <2>1, <3>2
    <3>8. /\ Lay(y, es, lo, h1, bt) /\ bt[h1] = Len(y) /\ h1 = Len(es)
          /\ lo < h1 => Len(buffer[f]) < bt[lo + 1]
      BY <3>1, <3>2, <3>3
    <3> HIDE DEF h1, y, x, es, ds
    <3>4. FramesAhead(e, h1, bt)'
      BY <1>7, <2>5, <3>8 DEF FramesAhead
    <3>5. h1 \in lo..Len(es)
      BY <3>7
    <3>6. bt \in [lo..h1 -> 0..Len(y)]
      BY <3>8 DEF Lay
    <3> QED
      BY <3>4, <3>5, <3>6
  <2> QED
    BY <2>4, <2>5
<1>10. /\ ~opened[e] => wire'[e] = <<>> /\ buffer'[f] = <<>> /\ ~broken'[e]
       /\ opened[e] => pending'[e] = <<>>
  BY DEF Flow
<1> HIDE DEF y, x, es, ds
<1> QED
  BY <1>7, <1>8, <1>9, <1>10 DEF Flow

\* The next datagrams after those already delivered.
LEMMA NextOnes ==
    ASSUME NEW old \in Seq(Datagrams), NEW fs \in Seq(Datagrams), NEW ds,
           NEW j \in Nat, Len(old) <= j, Len(fs) = j - Len(old),
           \A i \in 1..Len(old) : old[i] = ds[i],
           \A k \in 1..(j - Len(old)) : fs[k] = ds[Len(old) + k]
    PROVE  /\ Len(old \o fs) = j
           /\ \A i \in 1..j : (old \o fs)[i] = ds[i]
<1> DEFINE all == old \o fs
           lo  == Len(old)
<1>1. /\ Len(all) = Len(old) + Len(fs)
      /\ \A k \in 1..Len(old) : all[k] = old[k]
      /\ \A k \in 1..Len(fs) : all[Len(old) + k] = fs[k]
  BY CatDatagrams
<1> HIDE DEF all
<1>2. lo \in Nat /\ lo <= j
  OBVIOUS
<1>3. ASSUME NEW i \in 1..j PROVE all[i] = ds[i]
  <2>1. CASE i <= lo
    BY <1>1, <1>2, <2>1
  <2>2. CASE ~(i <= lo)
    <3>1. i - lo \in 1..(j - lo) /\ lo + (i - lo) = i
      BY <1>2, <2>2
    <3>2. PICK k \in 1..(j - lo) : lo + k = i
      BY <3>1
    <3> QED
      BY <1>1, <3>2
  <2> QED
    BY <2>1, <2>2
<1>4. Len(all) = j
  BY <1>1, <1>2
<1> QED
  BY <1>3, <1>4 DEF all

\* The stream opens: what was buffered is written, or is lost with it.
LEMMA FlowOpens ==
    ASSUME TypeOK, TypeOK', NEW e \in Ends, Flow(e), StreamOpenCb(e)
    PROVE  Flow(e)'
<1> USE DEF sendVars, recvVars, lifeVars
<1> DEFINE f  == Other(e)
           lo == Len(delivered[f])
           ds == accepted[e]
           p  == pending[e]
<1>1. /\ f \in Ends /\ f # e
      /\ ds \in Seq(Datagrams) /\ delivered[f] \in Seq(Datagrams)
      /\ lo \in Nat /\ Len(ds) \in Nat /\ p \in Seq(Byte)
  BY OtherEnd, AheadType
<1>2. /\ ~opened[e] /\ opened'[e] /\ pending'[e] = <<>>
      /\ buffer' = buffer /\ delivered' = delivered /\ accepted' = accepted
      /\ broken' = broken
  BY DEF StreamOpenCb, TypeOK
<1>3. /\ wire[e] = <<>> /\ buffer[f] = <<>> /\ ~broken[e]
      /\ lo <= Len(ds) /\ \A i \in 1..lo : delivered[f][i] = ds[i]
  BY <1>2 DEF Flow
<1>4. end'[f] = "live" => end[f] = "live"
  BY <1>1, GiveUpType DEF StreamOpenCb
<1>5. ASSUME end'[f] = "live"
      PROVE  \E hi \in lo..Len(ds) : \E at \in [lo..hi -> 0..Len(Ahead(e)')] :
                FramesAhead(e, hi, at)'
  <2>1. CASE ~ending
    <3>1. wire'[e] = wire[e] \o p /\ ending' = ending
      BY <2>1 DEF StreamOpenCb, TypeOK
    <3>2. \A s \in Seq(Byte) : /\ (<<>> \o (<<>> \o s)) \o <<>> = s
                               /\ (<<>> \o <<>>) \o s = s
      OBVIOUS
    <3>3. Ahead(e) = p /\ Ahead(e)' = p
      BY <1>1, <1>2, <1>3, <3>1, <3>2 DEF Ahead
    <3>4. PICK hi, at : /\ hi \in lo..Len(ds) /\ at \in [lo..hi -> 0..Len(Ahead(e))]
                        /\ FramesAhead(e, hi, at)
      BY <1>4, <1>5 DEF Flow
    <3>5. Ahead(e)' = Ahead(e)
      BY <3>3
    <3>6. FramesAhead(e, hi, at)'
      BY <1>2, <1>3, <2>1, <3>1, <3>4, <3>5 DEF FramesAhead
    <3> QED
      BY <3>4, <3>5, <3>6
  <2>2. CASE ending
    <3>1. wire' = wire /\ ending'
      BY <2>2 DEF StreamOpenCb, GiveUp
    <3>2. Ahead(e)' = <<>>
      <4>1. (<<>> \o <<>>) \o <<>> = <<>>
        OBVIOUS
      <4> QED
        BY <1>2, <1>3, <3>1, <4>1 DEF Ahead
    <3>3. PICK hi, at : hi = lo /\ at = [i \in lo..hi |-> 0]
      OBVIOUS
    <3>4. Lay(<<>>, ds, lo, hi, at)
      <4>1. lo..(hi - 1) = {} /\ Len(<<>>) = 0
        BY <1>1, <3>3
      <4> HIDE DEF lo, ds
      <4> QED
        BY <1>1, <3>3, <4>1 DEF Lay
    <3>5. at[hi] = 0 /\ Len(<<>>) = 0 /\ ~(lo < hi)
      BY <1>1, <3>3
    <3>6. FramesAhead(e, hi, at)'
      BY <1>2, <1>3, <3>1, <3>2, <3>4, <3>5 DEF FramesAhead
    <3>7. hi \in lo..Len(ds) /\ at \in [lo..hi -> 0..Len(Ahead(e)')]
      BY <1>1, <1>3, <3>2, <3>3, <3>4 DEF Lay
    <3> QED
      BY <3>6, <3>7
  <2> QED
    BY <2>1, <2>2
<1> QED
  BY <1>2, <1>3, <1>5 DEF Flow

\* A header above the cap goes out.
LEMMA FlowBreaks ==
    ASSUME TypeOK, NEW e \in Ends, Flow(e), OversizedHeader(e)
    PROVE  Flow(e)'
<1> USE DEF sendVars, recvVars, lifeVars
<1> DEFINE f  == Other(e)
           lo == Len(delivered[f])
           ds == accepted[e]
           h  == Header(MaxDatagram + 1)
           x  == Ahead(e)
           y  == x \o h
<1>1. /\ opened[e] /\ ~broken[e] /\ ~ending /\ pending[e] = <<>>
      /\ broken'[e] /\ wire'[e] = wire[e] \o h
      /\ UNCHANGED <<opened, pending, received, accepted, buffer, delivered,
                     end, over, ending>>
  BY DEF OversizedHeader, Flow, TypeOK
<1>2. /\ x \in Seq(Byte) /\ ds \in Seq(Datagrams)
      /\ lo \in Nat /\ buffer[f] \in Seq(Byte) /\ wire[e] \in Seq(Byte)
  BY AheadType
<1>3. h \in Seq(Byte) /\ Len(h) = HeaderBytes
  BY HeaderType, PlaceFacts
<1>4. Ahead(e)' = y
  <2>2. h \in Seq(Byte) /\ buffer[f] \in Seq(Byte) /\ wire[e] \in Seq(Byte)
    BY <1>2, <1>3
  <2>3. /\ x = (buffer[f] \o wire[e]) \o <<>>
        /\ Ahead(e)' = (buffer[f] \o (wire[e] \o h)) \o <<>>
    BY <1>1 DEF Ahead
  <2>4. y = x \o h
    OBVIOUS
  <2> HIDE DEF h, x, y
  <2> QED
    BY <2>2, <2>3, <2>4, JoinLast, Zenon
<1>5. /\ y \in Seq(Byte) /\ Len(y) = Len(x) + HeaderBytes
      /\ Begins(x, y) /\ HeaderIsAt(y, Len(x), MaxDatagram + 1)
  <2>1. y = x \o h /\ x \in Seq(Byte) /\ h \in Seq(Byte)
    BY <1>2, <1>3
  <2>2. h = Header(MaxDatagram + 1)
    OBVIOUS
  <2> HIDE DEF y, x, h
  <2>3. /\ y \in Seq(Byte) /\ Len(y) = Len(x) + Len(h)
        /\ \A k \in 1..Len(x) : y[k] = x[k]
        /\ \A k \in 1..Len(h) : y[Len(x) + k] = h[k]
    BY <2>1, CatBytes
  <2>4. Len(x) \in Nat /\ Len(h) = HeaderBytes
    BY <1>3, <2>1
  <2>5. Begins(x, y)
    BY <2>3, <2>4 DEF Begins
  <2>6. HeaderIsAt(y, Len(x), MaxDatagram + 1)
    BY <2>2, <2>3, <2>4 DEF HeaderIsAt
  <2> QED
    BY <2>3, <2>4, <2>5, <2>6, Zenon
<1>6. ASSUME end[f] = "live"
      PROVE  \E hi \in lo..Len(ds) : \E at \in [lo..hi -> 0..Len(y)] :
                FramesAhead(e, hi, at)'
  <2>1. PICK hi, at : /\ hi \in lo..Len(ds) /\ at \in [lo..hi -> 0..Len(x)]
                      /\ FramesAhead(e, hi, at)
    BY <1>6 DEF Flow
  <2>2. /\ Lay(x, ds, lo, hi, at) /\ at[hi] = Len(x)
        /\ lo < hi => Len(buffer[f]) < at[lo + 1]
    BY <1>1, <2>1 DEF FramesAhead
  <2>3. Lay(y, ds, lo, hi, at)
    <3>1. Begins(ds, ds)
      BY <1>2 DEF Begins
    <3> HIDE DEF y, x, ds, lo
    <3> QED
      BY <1>2, <1>5, <2>1, <2>2, <3>1, LayExtends
  <2>4. HeaderIsAt(y, at[hi], MaxDatagram + 1)
    BY <1>5, <2>2
  <2> HIDE DEF y, x, h
  <2>5. FramesAhead(e, hi, at)'
    BY <1>1, <1>4, <2>2, <2>3, <2>4 DEF FramesAhead
  <2>6. at \in [lo..hi -> 0..Len(y)]
    BY <2>3 DEF Lay
  <2> QED
    BY <2>1, <2>5, <2>6
<1> HIDE DEF y, x, h
<1> QED
  BY <1>1, <1>4, <1>6 DEF Flow

\* What the loop emits is delivered, and what it has passed is forgotten.
LEMMA FlowDelivers ==
    ASSUME TypeOK, TypeOK', NEW e \in Ends, Flow(e), NEW g \in Ends,
           g = Other(e), OnStreamData(g)
    PROVE  Flow(e)'
<1> USE DEF sendVars, recvVars, lifeVars
<1> DEFINE lo == Len(delivered[g])
           ds == accepted[e]
           x  == Ahead(e)
<1>0. Other(g) = e /\ Other(e) = g
  BY OtherEnd
<1> DEFINE out(m) == Decode(buffer[g] \o SubSeq(wire[e], 1, m))
<1>1. PICK m \in 1..Len(wire[e]) :
         /\ wire' = [wire EXCEPT ![e] = SubSeq(@, m + 1, Len(@))]
         /\ IF end[g] = "live"
            THEN /\ buffer' = [buffer EXCEPT ![g] = out(m).rest]
                 /\ delivered' = [delivered EXCEPT ![g] = @ \o out(m).frames]
                 /\ IF out(m).ok THEN UNCHANGED lifeVars ELSE GiveUp(g)
            ELSE UNCHANGED <<recvVars, lifeVars>>
  BY <1>0 DEF OnStreamData
<1>2. UNCHANGED <<sendVars, broken>>
  BY DEF OnStreamData
<1>3. /\ x \in Seq(Byte) /\ ds \in Seq(Datagrams) /\ delivered[g] \in Seq(Datagrams)
      /\ lo \in Nat /\ Len(ds) \in Nat
      /\ buffer[g] \in Seq(Byte) /\ wire[e] \in Seq(Byte)
  BY <1>0, AheadType
<1>4. /\ lo <= Len(ds) /\ \A i \in 1..lo : delivered[g][i] = ds[i]
  BY <1>0 DEF Flow
<1>5. opened[e] /\ pending[e] = <<>>
  <2>1. wire[e] # <<>>
    BY <1>1
  <2> QED
    BY <2>1 DEF Flow, TypeOK
<1>6. CASE end[g] # "live"
  BY <1>0, <1>1, <1>2, <1>4, <1>5, <1>6 DEF Flow
<1>7. CASE end[g] = "live"
  <2>1. PICK b : b = buffer[g] \o SubSeq(wire[e], 1, m)
    OBVIOUS
  <2>2. PICK w : w = SubSeq(wire[e], m + 1, Len(wire[e]))
    OBVIOUS
  <2>3. PICK all : all = PushLoop(b)[0]
    OBVIOUS
  <2>4. PICK hi, at : /\ hi \in lo..Len(ds) /\ at \in [lo..hi -> 0..Len(x)]
                      /\ FramesAhead(e, hi, at)
    BY <1>0, <1>7 DEF Flow
  <2>5. /\ Lay(x, ds, lo, hi, at)
        /\ broken[e] => HeaderIsAt(x, at[hi], MaxDatagram + 1)
        /\ ~broken[e] => at[hi] = Len(x)
        /\ ~broken[e] /\ (~ending \/ ~opened[e]) => hi = Len(ds)
    BY <1>0, <2>4 DEF FramesAhead
  <2>6. b \in Seq(Byte) /\ w \in Seq(Byte) /\ x = b \o w /\ Begins(b, x)
    <3>1. PICK bu, wi : bu = buffer[g] /\ wi = wire[e]
      OBVIOUS
    <3>2. bu \in Seq(Byte) /\ wi \in Seq(Byte) /\ m \in 1..Len(wi)
      BY <1>1, <1>3, <3>1
    <3>3. /\ b = bu \o SubSeq(wi, 1, m) /\ w = SubSeq(wi, m + 1, Len(wi))
          /\ x = (bu \o wi) \o <<>>
      BY <1>0, <1>5, <2>1, <2>2, <3>1 DEF Ahead
    <3> HIDE DEF x
    <3> QED
      BY <3>2, <3>3, FirstBytes
  <2>7. PICK j \in lo..hi :
           /\ all.rest = at[j]
           /\ Len(all.frames) = j - lo
           /\ \A k \in 1..(j - lo) : all.frames[k] = ds[lo + k]
           /\ all.ok => (j < hi => Len(b) < at[j + 1])
    <3>1. Len(x) = at[hi] \/ HeaderIsAt(x, at[hi], MaxDatagram + 1)
      BY <2>5 DEF TypeOK
    <3> HIDE DEF x, ds, lo
    <3>2. /\ x \in Seq(Byte) /\ b \in Seq(Byte) /\ Begins(b, x)
          /\ ds \in Seq(Datagrams) /\ lo \in Nat /\ hi \in lo..Len(ds)
          /\ Lay(x, ds, lo, hi, at)
      BY <1>3, <2>4, <2>5, <2>6
    <3>3. TakesTo(PushLoop(b)[0], b, ds, lo, hi, at)
      BY <3>1, <3>2, LoopOnFrames
    <3> QED
      BY <2>3, <3>3 DEF TakesTo
  <2>8. all \in Results(b)
    <3>1. 0 \in 0..Len(b)
      BY <2>6
    <3>2. PushLoop(b)[0] \in Results(b)
      BY <2>6, <3>1, LoopBounded
    <3> QED
      BY <2>3, <3>2
  <2>9. /\ all.rest \in 0..Len(b) /\ all.frames \in Seq(Datagrams)
        /\ all.ok \in BOOLEAN /\ j \in Nat /\ lo <= j /\ j <= hi /\ hi \in Nat
        /\ hi <= Len(ds)
    BY <1>3, <2>4, <2>8 DEF Results
  <2>10. PICK r : r = SubSeq(b, all.rest + 1, Len(b))
    OBVIOUS
  <2>11. out(m).rest = r /\ out(m).frames = all.frames /\ out(m).ok = all.ok
    <3>1. Decode(b) = [all EXCEPT !.rest = r]
      BY <2>3, <2>10 DEF Decode
    <3>2. Decode(b).rest = r /\ Decode(b).frames = all.frames /\ Decode(b).ok = all.ok
      BY <2>8, <3>1 DEF Results
    <3> QED
      BY <2>1, <3>2
  <2> HIDE DEF out
  <2>12. /\ buffer'[g] = r /\ delivered'[g] = delivered[g] \o all.frames
         /\ wire'[e] = w
         /\ IF all.ok THEN UNCHANGED lifeVars ELSE GiveUp(g)
    <3>1. PICK fs : fs = delivered[g] \o all.frames
      OBVIOUS
    <3>2. /\ wire' = [wire EXCEPT ![e] = w]
          /\ buffer' = [buffer EXCEPT ![g] = r]
          /\ delivered' = [delivered EXCEPT ![g] = fs]
          /\ IF all.ok THEN UNCHANGED lifeVars ELSE GiveUp(g)
      BY <1>1, <1>7, <2>2, <2>11, <3>1
    <3>3. wire'[e] = w /\ buffer'[g] = r /\ delivered'[g] = fs
      BY <3>2 DEF TypeOK
    <3> QED
      BY <3>1, <3>2, <3>3
  <2>13. r \in Seq(Byte) /\ Len(r) = Len(b) - at[j] /\ IsWithout(r, b, at[j])
    <3>1. PICK c : c = all.rest
      OBVIOUS
    <3>2. c \in 0..Len(b) /\ r = SubSeq(b, c + 1, Len(b)) /\ c = at[j]
      BY <2>7, <2>9, <2>10, <3>1
    <3>3. r \in Seq(Byte) /\ Len(r) = Len(b) - c /\ IsWithout(r, b, c)
      BY <2>6, <3>2, DropBytes
    <3> QED
      BY <3>2, <3>3
  <2>14. PICK y : y = Ahead(e)'
    OBVIOUS
  <2>15. y \in Seq(Byte) /\ IsWithout(y, x, at[j])
    <3>1. y = (r \o w) \o <<>>
      BY <1>0, <1>2, <1>5, <2>12, <2>14 DEF Ahead
    <3>3. y = r \o w
      <4>1. (r \o w) \o <<>> = r \o w
        BY <2>6, <2>13, JoinTwo, Zenon
      <4> QED
        BY <3>1, <4>1
    <3>4. at[j] \in 0..Len(b)
      BY <2>7, <2>9
    <3> HIDE DEF x
    <3> QED
      BY <2>6, <2>13, <3>3, <3>4, DropThenJoin
  <2>16. PICK bt : bt = [i \in j..hi |-> at[i] - at[j]]
    OBVIOUS
  <2>17. Lay(y, ds, j, hi, bt)
    <3> HIDE DEF x, ds, lo
    <3>1. /\ x \in Seq(Byte) /\ y \in Seq(Byte) /\ ds \in Seq(Datagrams)
          /\ lo \in Nat /\ hi \in lo..Len(ds) /\ Lay(x, ds, lo, hi, at)
          /\ j \in lo..hi /\ IsWithout(y, x, at[j])
      BY <1>3, <2>4, <2>5, <2>15
    <3>2. Lay(y, ds, j, hi, [i \in j..hi |-> at[i] - at[j]])
      BY <3>1, LayDrops
    <3> QED
      BY <2>16, <3>2
  <2>18. /\ Len(delivered'[g]) = j
         /\ \A i \in 1..j : delivered'[g][i] = ds[i]
    <3>1. /\ all.frames \in Seq(Datagrams) /\ delivered[g] \in Seq(Datagrams)
          /\ Len(delivered[g]) <= j /\ j \in Nat
          /\ Len(all.frames) = j - Len(delivered[g])
          /\ \A i \in 1..Len(delivered[g]) : delivered[g][i] = ds[i]
          /\ \A k \in 1..(j - Len(delivered[g])) :
                all.frames[k] = ds[Len(delivered[g]) + k]
      BY <1>3, <1>4, <2>7, <2>9
    <3> HIDE DEF ds
    <3>2. PICK old, fs, d : old = delivered[g] /\ fs = all.frames /\ d = ds
      OBVIOUS
    <3>4. /\ old \in Seq(Datagrams) /\ fs \in Seq(Datagrams)
          /\ Len(old) <= j /\ j \in Nat /\ Len(fs) = j - Len(old)
          /\ \A i \in 1..Len(old) : old[i] = d[i]
          /\ \A k \in 1..(j - Len(old)) : fs[k] = d[Len(old) + k]
      BY <3>1, <3>2
    <3>3. /\ Len(old \o fs) = j
          /\ \A i \in 1..j : (old \o fs)[i] = d[i]
      BY <3>4, NextOnes
    <3> QED
      BY <2>12, <3>2, <3>3
  <2>19. ASSUME end'[g] = "live"
         PROVE  FramesAhead(e, hi, bt)'
    <3>1. all.ok
      BY <2>9, <2>12, <2>19, GiveUpType
    <3>2. UNCHANGED <<end, over, ending>>
      BY <2>12, <3>1
    <3>3. /\ at[hi] \in Nat /\ at[j] \in 0..at[hi] /\ bt[hi] = at[hi] - at[j]
          /\ at[hi] \in 0..Len(x)
      <4> HIDE DEF x, lo
      <4> QED
        BY <1>3, <2>4, <2>5, <2>9, <2>16 DEF Lay
    <3>4. j < hi => Len(r) < bt[j + 1]
      <4>1. ASSUME j < hi PROVE Len(r) < bt[j + 1]
        <5>1. j + 1 \in j..hi /\ j + 1 \in lo..hi /\ j \in lo..hi
          BY <1>3, <2>9, <4>1
        <5>2. bt[j + 1] = at[j + 1] - at[j] /\ at[j + 1] \in Nat /\ at[j] \in Nat
          <6>1. at[j + 1] \in 0..Len(x) /\ at[j] \in 0..Len(x)
            BY <2>4, <5>1
          <6>2. bt[j + 1] = at[j + 1] - at[j]
            BY <2>16, <5>1
          <6> HIDE DEF x
          <6> QED
            BY <6>1, <6>2
        <5>3. Len(b) < at[j + 1]
          BY <2>7, <3>1, <4>1
        <5> QED
          BY <2>6, <2>13, <5>2, <5>3
      <4> QED
        BY <4>1
    <3>5. broken[e] => HeaderIsAt(y, bt[hi], MaxDatagram + 1)
      <4> HIDE DEF x
      <4> QED
        BY <1>3, <2>5, <2>15, <3>3, HeaderMoves
    <3>6. ~broken[e] => bt[hi] = Len(y)
      BY <2>5, <2>15, <3>3 DEF IsWithout
    <3> HIDE DEF x
    <3> QED
      BY <1>0, <1>2, <2>5, <2>12, <2>14, <2>17, <2>18, <3>2, <3>4, <3>5, <3>6
      DEF FramesAhead
  <2>20. hi \in j..Len(ds) /\ bt \in [j..hi -> 0..Len(y)]
    BY <1>3, <2>9, <2>17 DEF Lay
  <2>21. /\ j <= Len(ds) /\ opened'[e] /\ pending'[e] = <<>> /\ accepted' = accepted
    BY <1>2, <1>3, <1>5, <2>9
  <2> QED
    BY <1>0, <2>14, <2>18, <2>19, <2>20, <2>21 DEF Flow
<1> QED
  BY <1>6, <1>7

LEMMA UdpInit == Init => UdpIInv
<1> SUFFICES ASSUME Init PROVE UdpIInv
  OBVIOUS
<1>1. TypeOK
  BY UdpTypeInit
<1>2. ASSUME NEW e \in Ends PROVE Flow(e)
  <2> DEFINE f == Other(e)
  <2>1. /\ f \in Ends
        /\ delivered[f] = <<>> /\ accepted[e] = <<>> /\ wire[e] = <<>>
        /\ buffer[f] = <<>> /\ pending[e] = <<>> /\ ~broken[e] /\ ~opened[e]
    BY OtherEnd DEF Init
  <2>2. Ahead(e) = <<>>
    <3>1. (<<>> \o <<>>) \o <<>> = <<>>
      OBVIOUS
    <3> QED
      BY <2>1, <3>1 DEF Ahead
  <2>3. Len(<<>>) = 0
    OBVIOUS
  <2>4. PICK at : at = [i \in 0..0 |-> 0]
    OBVIOUS
  <2>5. at \in [0..0 -> 0..0] /\ at[0] = 0
    BY <2>4
  <2>6. Lay(<<>>, <<>>, 0, 0, at)
    BY <2>3, <2>5 DEF Lay
  <2>7. FramesAhead(e, 0, at)
    BY <2>1, <2>2, <2>3, <2>5, <2>6 DEF FramesAhead
  <2>8. Len(delivered[f]) = 0 /\ Len(accepted[e]) = 0 /\ Len(Ahead(e)) = 0 /\ 0 \in 0..0
    BY <2>1, <2>2, <2>3
  <2> QED
    BY <2>1, <2>5, <2>7, <2>8 DEF Flow
<1> QED
  BY <1>1, <1>2 DEF UdpIInv

LEMMA UdpStep == UdpIInv /\ [Next]_vars => UdpIInv'
<1> SUFFICES ASSUME UdpIInv, [Next]_vars PROVE UdpIInv'
  OBVIOUS
<1> USE DEF sendVars, recvVars, lifeVars
<1>1. TypeOK /\ TypeOK' /\ \A e \in Ends : Flow(e)
  BY UdpTypeStep DEF UdpIInv
<1> SUFFICES ASSUME NEW e \in Ends PROVE Flow(e)'
  BY <1>1 DEF UdpIInv
<1>2. /\ Flow(e) /\ Other(e) \in Ends /\ Other(e) # e
      /\ \A g \in Ends : g = e \/ g = Other(e)
  BY <1>1, OtherEnd
\* A step of g that only ends it, or touches only the other direction.
<1>3. ASSUME buffer'[Other(e)] = buffer[Other(e)], wire'[e] = wire[e],
             pending'[e] = pending[e], accepted'[e] = accepted[e],
             delivered'[Other(e)] = delivered[Other(e)],
             opened'[e] = opened[e], broken'[e] = broken[e],
             \/ UNCHANGED <<end, ending>>
             \/ \E g \in Ends : GiveUp(g)
      PROVE  Flow(e)'
  <2>1. ending => ending'
    BY <1>3 DEF GiveUp
  <2>2. end'[Other(e)] = "live" => end[Other(e)] = "live"
    BY <1>1, <1>2, <1>3, GiveUpType
  <2> QED
    BY <1>2, <1>3, <2>1, <2>2, FlowKept
<1>4. ASSUME NEW g \in Ends, RecvCb(g) PROVE Flow(e)'
  <2>1. PICK n \in 0..MaxDatagram :
           LET d == [k \in 1..n |-> received[g] % Base]
           IN  \/ /\ ~opened[g]
                  /\ BufferFrame(g, d)
                  /\ UNCHANGED <<wire, lifeVars>>
               \/ /\ opened[g] /\ ~ending
                  /\ WriteFrame(g, d)
                  /\ UNCHANGED <<pending, lifeVars>>
               \/ /\ opened[g] /\ ending
                  /\ GiveUp(g)
                  /\ UNCHANGED <<wire, pending, accepted>>
    BY <1>4 DEF RecvCb
  <2>2. PICK d : d = [k \in 1..n |-> received[g] % Base]
    OBVIOUS
  <2>3. d \in Datagrams
    <3>1. received[g] \in Nat
      BY <1>1 DEF TypeOK
    <3> QED
      BY <2>2, <3>1, PayloadType
  <2>4. UNCHANGED <<opened, broken, recvVars>>
    BY <1>4 DEF RecvCb
  <2>5. CASE ~opened[g] /\ BufferFrame(g, d) /\ UNCHANGED <<wire, lifeVars>>
    <3>1. CASE UNCHANGED <<pending, accepted>>
      BY <1>3, <2>4, <2>5, <3>1
    <3>2. CASE /\ pending' = [pending EXCEPT ![g] = @ \o Frame(d)]
               /\ accepted' = [accepted EXCEPT ![g] = Append(@, d)]
      <4>1. CASE g = e
        <5>1. /\ pending'[e] = pending[e] \o Frame(d)
              /\ accepted'[e] = Append(accepted[e], d)
          BY <1>1, <3>2, <4>1 DEF TypeOK
        <5>2. Ahead(e)' = Ahead(e) \o Frame(d)
          <6>1. /\ buffer[Other(e)] \in Seq(Byte) /\ wire[e] \in Seq(Byte)
                /\ pending[e] \in Seq(Byte) /\ Frame(d) \in Seq(Byte)
            BY <1>1, <2>3, AheadType, FrameType
          <6>2. PICK a, c, fr : /\ a = buffer[Other(e)] \o wire[e]
                                /\ c = pending[e] /\ fr = Frame(d)
            OBVIOUS
          <6>3. a \in Seq(Byte) /\ c \in Seq(Byte) /\ fr \in Seq(Byte)
            BY <6>1, <6>2, CatBytes
          <6>4. a \o (c \o fr) = (a \o c) \o fr
            BY <6>3, JoinThree, ZenonT(40)
          <6>5. Ahead(e) = a \o c /\ Ahead(e)' = a \o (c \o fr)
            BY <2>4, <2>5, <5>1, <6>2 DEF Ahead
          <6> QED
            BY <6>2, <6>4, <6>5
        <5> QED
          BY <1>1, <1>2, <2>3, <2>4, <2>5, <4>1, <5>1, <5>2, FlowAppends
      <4>2. CASE g # e
        <5>1. pending'[e] = pending[e] /\ accepted'[e] = accepted[e]
          BY <1>1, <3>2, <4>2 DEF TypeOK
        <5> QED
          BY <1>3, <2>4, <2>5, <5>1
      <4> QED
        BY <4>1, <4>2
    <3> QED
      BY <2>5, <3>1, <3>2 DEF BufferFrame
  <2>6. CASE opened[g] /\ ~ending /\ WriteFrame(g, d) /\ UNCHANGED <<pending, lifeVars>>
    <3>1. CASE g = e
      <4>1. /\ wire'[e] = wire[e] \o Frame(d)
            /\ accepted'[e] = Append(accepted[e], d)
            /\ pending[e] = <<>> /\ pending' = pending
        BY <1>1, <1>2, <2>6, <3>1 DEF TypeOK, WriteFrame, Flow
      <4>2. Ahead(e)' = Ahead(e) \o Frame(d)
        <5>1. /\ buffer[Other(e)] \in Seq(Byte) /\ wire[e] \in Seq(Byte)
              /\ Frame(d) \in Seq(Byte)
          BY <1>1, <2>3, AheadType, FrameType
        <5>2. PICK a, c, fr : a = buffer[Other(e)] /\ c = wire[e] /\ fr = Frame(d)
          OBVIOUS
        <5>5. a \in Seq(Byte) /\ c \in Seq(Byte) /\ fr \in Seq(Byte)
          BY <5>1, <5>2
        <5>3. (a \o (c \o fr)) \o <<>> = ((a \o c) \o <<>>) \o fr
          BY <5>5, JoinLast, ZenonT(40)
        <5>4. /\ Ahead(e) = (a \o c) \o <<>>
              /\ Ahead(e)' = (a \o (c \o fr)) \o <<>>
          BY <2>4, <4>1, <5>2 DEF Ahead
        <5> QED
          BY <5>2, <5>3, <5>4
      <4> QED
        BY <1>1, <1>2, <2>3, <2>4, <2>6, <3>1, <4>1, <4>2, FlowAppends
    <3>2. CASE g # e
      <4>1. wire'[e] = wire[e] /\ accepted'[e] = accepted[e]
        BY <1>1, <2>6, <3>2 DEF TypeOK, WriteFrame
      <4> QED
        BY <1>3, <2>4, <2>6, <4>1
    <3> QED
      BY <3>1, <3>2
  <2>7. CASE GiveUp(g) /\ UNCHANGED <<wire, pending, accepted>>
    BY <1>3, <2>4, <2>7
  <2> QED
    BY <2>1, <2>2, <2>5, <2>6, <2>7
<1>5. ASSUME NEW g \in Ends, RecvTruncated(g) PROVE Flow(e)'
  BY <1>3, <1>5 DEF RecvTruncated
<1>6. CASE RecvError
  <2>1. "server" \in Ends
    BY DEF Ends
  <2> QED
    BY <1>3, <1>6, <2>1 DEF RecvError
<1>7. ASSUME NEW g \in Ends, StreamOpenCb(g) PROVE Flow(e)'
  <2>1. CASE g = e
    BY <1>1, <1>2, <1>7, <2>1, FlowOpens
  <2>2. CASE g # e
    <3>1. /\ buffer' = buffer /\ delivered' = delivered /\ accepted' = accepted
          /\ broken' = broken /\ wire'[e] = wire[e] /\ pending'[e] = pending[e]
          /\ opened'[e] = opened[e]
      BY <1>1, <1>7, <2>2 DEF StreamOpenCb, TypeOK
    <3>2. UNCHANGED lifeVars \/ GiveUp(g)
      BY <1>7 DEF StreamOpenCb
    <3> QED
      BY <1>3, <3>1, <3>2
  <2> QED
    BY <2>1, <2>2
<1>8. ASSUME NEW g \in Ends, OversizedHeader(g) PROVE Flow(e)'
  <2>1. CASE g = e
    BY <1>1, <1>2, <1>8, <2>1, FlowBreaks
  <2>2. CASE g # e
    BY <1>1, <1>3, <1>8, <2>2 DEF OversizedHeader, TypeOK
  <2> QED
    BY <2>1, <2>2
<1>9. ASSUME NEW g \in Ends, OnStreamData(g) PROVE Flow(e)'
  <2>1. CASE g = Other(e)
    BY <1>1, <1>2, <1>9, <2>1, FlowDelivers
  <2>2. CASE g = e
    <3>1. Other(e) # e
      BY <1>2
    <3>6. PICK s : wire' = [wire EXCEPT ![Other(g)] = s]
      BY <1>9 DEF OnStreamData
    <3>2. wire'[e] = wire[e]
      BY <1>1, <2>2, <3>1, <3>6 DEF TypeOK
    <3>7. \/ UNCHANGED recvVars
          \/ \E r, fs : /\ buffer' = [buffer EXCEPT ![g] = r]
                        /\ delivered' = [delivered EXCEPT ![g] = fs]
      BY <1>9 DEF OnStreamData
    <3>3. /\ buffer'[Other(e)] = buffer[Other(e)]
          /\ delivered'[Other(e)] = delivered[Other(e)]
      BY <1>1, <1>2, <2>2, <3>1, <3>7 DEF TypeOK
    <3>4. UNCHANGED lifeVars \/ GiveUp(g)
      BY <1>9 DEF OnStreamData
    <3>5. UNCHANGED <<sendVars, broken>>
      BY <1>9 DEF OnStreamData
    <3> QED
      BY <1>3, <3>2, <3>3, <3>4, <3>5
  <2> QED
    BY <1>2, <2>1, <2>2
<1>10. ASSUME NEW g \in Ends, OnStreamClose(g) PROVE Flow(e)'
  <2>1. ending' /\ UNCHANGED <<sendVars, recvVars, wire, broken>>
    BY <1>10 DEF OnStreamClose
  <2>2. end'[Other(e)] = "live" => end[Other(e)] = "live"
    BY <1>1, <1>2, <1>10 DEF OnStreamClose, EndLets, TypeOK
  <2> QED
    BY <1>2, <2>1, <2>2, FlowKept
<1>11. ASSUME NEW g \in Ends, OwnerDestroy(g) PROVE Flow(e)'
  BY <1>3, <1>11 DEF OwnerDestroy
<1>12. CASE HandleClosed
  <2>1. UNCHANGED <<ending, sendVars, recvVars, wire, broken>>
    BY <1>12 DEF HandleClosed
  <2>2. end'[Other(e)] = "live" => end[Other(e)] = "live"
    BY <1>1, <1>2, <1>12 DEF HandleClosed, TypeOK
  <2> QED
    BY <1>2, <2>1, <2>2, FlowKept
<1>13. CASE UNCHANGED vars
  BY <1>3, <1>13 DEF vars
<1> QED
  BY <1>4, <1>5, <1>6, <1>7, <1>8, <1>9, <1>10, <1>11, <1>12, <1>13 DEF Next

\* The invariant says that nothing is lost: what has been delivered is what
\* was accepted first, and when nothing is ahead it is all of it.
LEMMA UdpIInvIntact == UdpIInv => FramesIntact
<1> SUFFICES ASSUME UdpIInv, NEW f \in Ends
             PROVE  LET e == Other(f)
                    IN  /\ IsPrefix(delivered[f], accepted[e])
                        /\ /\ end[f] = "live" /\ ~ending /\ ~broken[e]
                           /\ wire[e] = <<>> /\ pending[e] = <<>>
                           => delivered[f] = accepted[e] /\ buffer[f] = <<>>
  BY DEF FramesIntact
<1> DEFINE e  == Other(f)
           ds == accepted[e]
           dl == delivered[f]
           x  == Ahead(e)
<1>1. TypeOK /\ e \in Ends /\ Other(e) = f /\ Flow(e)
  BY OtherEnd DEF UdpIInv
<1>2. /\ ds \in Seq(Datagrams) /\ dl \in Seq(Datagrams) /\ buffer[f] \in Seq(Byte)
      /\ Len(dl) \in Nat /\ Len(ds) \in Nat /\ x \in Seq(Byte)
  BY <1>1, AheadType
<1>3. Len(dl) <= Len(ds) /\ \A i \in 1..Len(dl) : dl[i] = ds[i]
  BY <1>1 DEF Flow
<1>4. IsPrefix(dl, ds)
  <2> HIDE DEF dl, ds
  <2>1. /\ SubSeq(ds, 1, Len(dl)) \in Seq(Datagrams)
        /\ Len(SubSeq(ds, 1, Len(dl))) = Len(dl)
        /\ \A i \in 1..Len(dl) : SubSeq(ds, 1, Len(dl))[i] = ds[i]
    BY <1>2, <1>3
  <2>2. dl = SubSeq(ds, 1, Len(dl))
    BY <1>2, <1>3, <2>1, SeqEqual, SMTT(30)
  <2> QED
    BY <1>3, <2>2 DEF IsPrefix
<1>5. ASSUME end[f] = "live", ~ending, ~broken[e], wire[e] = <<>>, pending[e] = <<>>
      PROVE  dl = ds /\ buffer[f] = <<>>
  <2>1. x = buffer[f]
    <3>1. \A s \in Seq(Byte) : (s \o <<>>) \o <<>> = s
      OBVIOUS
    <3> QED
      BY <1>1, <1>2, <1>5, <3>1 DEF Ahead
  <2>2. PICK hi, at : /\ hi \in Len(dl)..Len(ds)
                      /\ at \in [Len(dl)..hi -> 0..Len(x)]
                      /\ FramesAhead(e, hi, at)
    BY <1>1, <1>5 DEF Flow
  <2>3. /\ Lay(x, ds, Len(dl), hi, at) /\ at[hi] = Len(x) /\ hi = Len(ds)
        /\ Len(dl) < hi => Len(x) < at[Len(dl) + 1]
    BY <1>1, <1>5, <2>1, <2>2 DEF FramesAhead
  <2>4. Len(dl) = hi
    <3>1. ASSUME Len(dl) < hi PROVE FALSE
      <4> HIDE DEF x, dl, ds
      <4>1. /\ Len(dl) + 1 \in Len(dl)..hi /\ hi \in Len(dl)..hi
            /\ Len(dl) + 1 <= hi
        BY <1>2, <2>2, <3>1
      <4>2. at[Len(dl) + 1] <= at[hi] /\ at[Len(dl) + 1] \in 0..Len(x)
        BY <2>2, <2>3, <4>1 DEF Lay
      <4> QED
        BY <1>2, <2>3, <3>1, <4>2
    <3> QED
      BY <1>2, <2>2, <3>1
  <2>5. Len(x) = 0
    BY <2>3, <2>4 DEF Lay
  <2>6. buffer[f] = <<>>
    BY <1>2, <2>1, <2>5
  <2>7. dl = ds
    <3> HIDE DEF dl, ds
    <3> QED
      BY <1>2, <1>3, <2>3, <2>4, SeqEqual
  <2> QED
    BY <2>6, <2>7
<1> QED
  BY <1>4, <1>5

\* However the stream cuts the frames up, and whatever is dropped before it
\* opens, each application is given what the other end accepted, whole, in
\* order, and on a stream that stays up all of it (udp_pipe.cpp:67-115,
\* client.cpp:374-379, server.cpp:287-297).
THEOREM UdpFramesIntact == Spec => []FramesIntact
<1>1. Spec => []UdpIInv
  BY UdpInit, UdpStep, PTL DEF Spec
<1> QED
  BY <1>1, UdpIInvIntact, PTL
=============================================================================
