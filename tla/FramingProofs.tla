----------------------------- MODULE FramingProofs -----------------------------
(***************************************************************************)
(* Proofs about the two parsers that cut a stream of bytes into frames:    *)
(* decodeFrame of WebSocket, between its two ends, and parseInputData of   *)
(* HTTP/2's FrameParser.                                                   *)
(*                                                                         *)
(* WebSocket, for every set of payload lengths and every bound.  The       *)
(* inductive invariant is WsInv.  Its core is InStep, for each end x and   *)
(* its open peer: there is a stream S, the upgrade message of x and the    *)
(* encoding of every frame it said; R bytes of S were read, the rest of S  *)
(* is on the wire and, while the socket is there, in the send buffer; the  *)
(* frames given to the peer are the first ones said, and its decoder       *)
(* stands R bytes into S, within the next one.                             *)
(*                                                                         *)
(* FrameParser, for every size of the header, every limit and every set of *)
(* lengths: it implements FrameStream.  The inductive invariant is         *)
(* FrameInv; its core is Position: the bytes kept are those from the last  *)
(* frame's end to the point that the parser has reached, and readState     *)
(* says how they are split.                                                *)
(***************************************************************************)
EXTENDS WebSocket, FrameParser, SequenceTheorems, WellFoundedInduction, NaturalsInduction, TLAPS

-----------------------------------------------------------------------------
(* Induction over an interval, as a fact about sets: a set of numbers of   *)
(* 0..L that has 0, and i + 1 with i, has them all.                        *)

\* A set of numbers that is not empty has a least element.
LEMMA LeastNatural ==
  ASSUME NEW S \in SUBSET Nat, S # {}
  PROVE  \E m \in S : \A k \in S : ~(k < m)
<1>1. PICK m \in S : \A k \in S : <<k, m>> \notin OpToRel(<, Nat)
  BY NatLessThanWellFounded, WFMin, Zenon
<1> QED
  BY <1>1 DEF OpToRel

\* A set of 0..L with 0, and with i also i + 1, is all of 0..L.
LEMMA Upward ==
  ASSUME NEW L \in Nat, NEW S \in SUBSET (0..L), 0 \in S,
         \A i \in 0..L : i < L /\ i \in S => i + 1 \in S
  PROVE  S = 0..L
<1>1. SUFFICES ASSUME NEW x \in 0..L, x \notin S PROVE FALSE
  OBVIOUS
<1>2. PICK m \in {j \in 0..L : j \notin S} : \A k \in {j \in 0..L : j \notin S} : ~(k < m)
  <2>1. x \in {j \in 0..L : j \notin S} /\ {j \in 0..L : j \notin S} \in SUBSET Nat
    BY <1>1
  <2> QED
    BY <2>1, LeastNatural
<1>3. m # 0 /\ m \in Nat /\ m <= L
  BY <1>2
<1>4. m - 1 \in 0..L /\ m - 1 < L /\ (m - 1) + 1 = m /\ m - 1 < m
  BY <1>3
<1>5. m - 1 \in S
  BY <1>2, <1>4
<1> QED
  BY <1>2, <1>4, <1>5

\* Four sequences, one behind the other.
LEMMA Joined ==
  ASSUME NEW S, NEW a \in Seq(S), NEW b \in Seq(S), NEW c \in Seq(S), NEW d \in Seq(S)
  PROVE  /\ a \o b \o c \o d \in Seq(S)
         /\ Len(a \o b \o c \o d) = Len(a) + Len(b) + Len(c) + Len(d)
         /\ \A i \in 1..(Len(a) + Len(b) + Len(c) + Len(d)) :
              (a \o b \o c \o d)[i] =
                IF i <= Len(a) THEN a[i] ELSE IF i <= Len(a) + Len(b) THEN b[i - Len(a)]
                ELSE IF i <= Len(a) + Len(b) + Len(c) THEN c[i - (Len(a) + Len(b))]
                ELSE d[i - (Len(a) + Len(b) + Len(c))]
<1> DEFINE ab == a \o b
           abc == ab \o c
           q == abc \o d
<1>1. /\ ab \in Seq(S) /\ Len(ab) = Len(a) + Len(b)
      /\ \A i \in 1..(Len(a) + Len(b)) : ab[i] = IF i <= Len(a) THEN a[i] ELSE b[i - Len(a)]
  BY ConcatProperties
<1> HIDE DEF ab
<1>10. ab \in Seq(S)
  BY <1>1
<1>2. /\ abc \in Seq(S) /\ Len(abc) = Len(ab) + Len(c)
      /\ \A i \in 1..(Len(ab) + Len(c)) : abc[i] = IF i <= Len(ab) THEN ab[i] ELSE c[i - Len(ab)]
  BY <1>10, ConcatProperties
<1> HIDE DEF abc
<1>20. abc \in Seq(S)
  BY <1>2
<1>3. /\ q \in Seq(S) /\ Len(q) = Len(abc) + Len(d)
      /\ \A i \in 1..(Len(abc) + Len(d)) : q[i] = IF i <= Len(abc) THEN abc[i] ELSE d[i - Len(abc)]
  BY <1>20, ConcatProperties
<1> HIDE DEF q
<1>4. Len(a) \in Nat /\ Len(b) \in Nat /\ Len(c) \in Nat /\ Len(d) \in Nat
  BY LenProperties
<1>5. q = a \o b \o c \o d
  BY DEF q, abc, ab
<1>6. \A i \in 1..(Len(a) + Len(b) + Len(c) + Len(d)) :
        q[i] = IF i <= Len(a) THEN a[i] ELSE IF i <= Len(a) + Len(b) THEN b[i - Len(a)]
               ELSE IF i <= Len(a) + Len(b) + Len(c) THEN c[i - (Len(a) + Len(b))]
               ELSE d[i - (Len(a) + Len(b) + Len(c))]
  BY <1>1, <1>2, <1>3, <1>4
<1> QED
  BY <1>1, <1>2, <1>3, <1>4, <1>5, <1>6 DEF q

-----------------------------------------------------------------------------
(* The bytes of a frame.                                                   *)

Ops == {"text", "cont", "ping", "pong", "close"}
Frame == [op : Ops, fin : BOOLEAN, id : Nat, length : Nat]
Kinds == {"request", "response", "hdr1", "hdr2", "ext", "key", "data"}
Byte == Kinds \X (Ops \cup BOOLEAN \cup Nat) \X (BOOLEAN \cup Nat)

Ext(f) == IF f.length < LongLen THEN 0 ELSE ExtLen
Key(x, f) == IF Masked(x, f) THEN KeyLen ELSE 0
Plen(f) == IF f.length < LongLen THEN f.length ELSE 126
Hdr1(f) == <<"hdr1", f.op, f.fin>>
Hdr2(x, f) == <<"hdr2", Masked(x, f), Plen(f)>>
ExtByte(f) == <<"ext", f.length, 0>>
KeyByte == <<"key", 0, 0>>
DataByte(x, f) == <<"data", f.id, Masked(x, f)>>

EncLen(x, f) == 2 + Ext(f) + Key(x, f) + f.length
ByteOf(x, f, i) ==
  IF i = 1 THEN Hdr1(f)
  ELSE IF i = 2 THEN Hdr2(x, f)
  ELSE IF i <= 2 + Ext(f) THEN ExtByte(f)
  ELSE IF i <= 2 + Ext(f) + Key(x, f) THEN KeyByte
  ELSE DataByte(x, f)

\* n times the byte b.
LEMMA RepeatType ==
  ASSUME NEW S, NEW b \in S, NEW n \in Nat
  PROVE  /\ Repeat(b, n) \in Seq(S) /\ Len(Repeat(b, n)) = n
         /\ \A i \in 1..n : Repeat(b, n)[i] = b
BY DEF Repeat

\* What a frame is encoded as are bytes; it has two at least.
LEMMA ByteTypes ==
  ASSUME NEW x \in Ends, NEW f \in Frame
  PROVE  /\ Hdr1(f) \in Byte /\ Hdr2(x, f) \in Byte /\ ExtByte(f) \in Byte
         /\ KeyByte \in Byte /\ DataByte(x, f) \in Byte
         /\ Ext(f) \in Nat /\ Key(x, f) \in Nat /\ f.length \in Nat /\ Masked(x, f) \in BOOLEAN
         /\ EncLen(x, f) \in Nat /\ EncLen(x, f) >= 2
<1>1. /\ f.op \in Ops /\ f.fin \in BOOLEAN /\ f.id \in Nat /\ f.length \in Nat
      /\ Masked(x, f) \in BOOLEAN /\ Plen(f) \in Nat
  <2>1. f.op \in Ops /\ f.fin \in BOOLEAN /\ f.id \in Nat /\ f.length \in Nat
    BY DEF Frame
  <2>3. Masked(x, f) \in BOOLEAN
    BY Zenon DEF Masked
  <2>4. Plen(f) \in Nat
    BY <2>1 DEF Plen
  <2> QED
    BY <2>1, <2>3, <2>4
<1>2. Ext(f) \in Nat /\ Key(x, f) \in Nat
  BY DEF Ext, Key, ExtLen, KeyLen
<1>3. 0 \in Nat
  OBVIOUS
<1>4. /\ Hdr1(f) \in Byte /\ Hdr2(x, f) \in Byte /\ ExtByte(f) \in Byte
      /\ KeyByte \in Byte /\ DataByte(x, f) \in Byte
  <2> DEFINE A == Kinds
             B == Ops \cup BOOLEAN \cup Nat
             C == BOOLEAN \cup Nat
  <2>1. \A a \in A, b \in B, c \in C : <<a, b, c>> \in A \X B \X C
    OBVIOUS
  <2>2. /\ "hdr1" \in A /\ "hdr2" \in A /\ "ext" \in A /\ "key" \in A /\ "data" \in A
        /\ f.op \in B /\ Masked(x, f) \in B /\ f.length \in B /\ 0 \in B /\ f.id \in B
        /\ f.fin \in C /\ Plen(f) \in C /\ 0 \in C /\ Masked(x, f) \in C
    <3>1. /\ "hdr1" \in A /\ "hdr2" \in A /\ "ext" \in A /\ "key" \in A /\ "data" \in A
      BY DEF Kinds
    <3> QED
      BY <1>1, <1>3, <3>1
  <2>3. Byte = A \X B \X C
    BY DEF Byte
  <2> HIDE DEF A, B, C
  <2> QED
    BY <2>1, <2>2, <2>3, Zenon DEF Hdr1, Hdr2, ExtByte, KeyByte, DataByte
<1> QED
  BY <1>1, <1>2, <1>4 DEF EncLen

\* Encode, byte by byte.
LEMMA EncodeBytes ==
  ASSUME NEW x \in Ends, NEW f \in Frame
  PROVE  /\ Encode(x, f) \in Seq(Byte) /\ Len(Encode(x, f)) = EncLen(x, f)
         /\ \A i \in 1..EncLen(x, f) : Encode(x, f)[i] = ByteOf(x, f, i)
<1> DEFINE h == <<Hdr1(f), Hdr2(x, f)>>
           e == Repeat(ExtByte(f), Ext(f))
           k == Repeat(KeyByte, Key(x, f))
           d == Repeat(DataByte(x, f), f.length)
<1>1. /\ Hdr1(f) \in Byte /\ Hdr2(x, f) \in Byte /\ ExtByte(f) \in Byte
      /\ KeyByte \in Byte /\ DataByte(x, f) \in Byte
      /\ Ext(f) \in Nat /\ Key(x, f) \in Nat /\ f.length \in Nat
  BY ByteTypes
<1>2. h \in Seq(Byte) /\ Len(h) = 2 /\ h[1] = Hdr1(f) /\ h[2] = Hdr2(x, f)
  BY <1>1
<1>3. e \in Seq(Byte) /\ Len(e) = Ext(f) /\ \A i \in 1..Ext(f) : e[i] = ExtByte(f)
  BY <1>1, RepeatType
<1>4. k \in Seq(Byte) /\ Len(k) = Key(x, f) /\ \A i \in 1..Key(x, f) : k[i] = KeyByte
  BY <1>1, RepeatType
<1>5. d \in Seq(Byte) /\ Len(d) = f.length /\ \A i \in 1..f.length : d[i] = DataByte(x, f)
  BY <1>1, RepeatType
<1>6. Encode(x, f) = h \o e \o k \o d
  <2>1. (IF f.length < LongLen THEN <<>> ELSE Repeat(ExtByte(f), ExtLen)) = e
    BY <1>3 DEF Ext, Repeat, ExtLen
  <2>2. (IF Masked(x, f) THEN Repeat(KeyByte, KeyLen) ELSE <<>>) = k
    BY <1>4 DEF Key, Repeat, KeyLen
  <2> QED
    BY <2>1, <2>2, Zenon DEF Encode, ExtByte, KeyByte, DataByte, Hdr1, Hdr2, Plen
<1> HIDE DEF h, e, k, d
<1> DEFINE q == h \o e \o k \o d
<1>7. /\ q \in Seq(Byte) /\ Len(q) = 2 + Ext(f) + Key(x, f) + f.length
      /\ \A i \in 1..(2 + Ext(f) + Key(x, f) + f.length) :
           q[i] = IF i <= 2 THEN h[i] ELSE IF i <= 2 + Ext(f) THEN e[i - 2]
                  ELSE IF i <= 2 + Ext(f) + Key(x, f) THEN k[i - (2 + Ext(f))]
                  ELSE d[i - (2 + Ext(f) + Key(x, f))]
  <2>1. h \in Seq(Byte) /\ e \in Seq(Byte) /\ k \in Seq(Byte) /\ d \in Seq(Byte)
    BY <1>2, <1>3, <1>4, <1>5
  <2>2. /\ q \in Seq(Byte) /\ Len(q) = Len(h) + Len(e) + Len(k) + Len(d)
        /\ \A i \in 1..(Len(h) + Len(e) + Len(k) + Len(d)) :
             q[i] = IF i <= Len(h) THEN h[i] ELSE IF i <= Len(h) + Len(e) THEN e[i - Len(h)]
                    ELSE IF i <= Len(h) + Len(e) + Len(k) THEN k[i - (Len(h) + Len(e))]
                    ELSE d[i - (Len(h) + Len(e) + Len(k))]
    BY <2>1, Joined
  <2>3. Len(h) = 2 /\ Len(e) = Ext(f) /\ Len(k) = Key(x, f) /\ Len(d) = f.length
    BY <1>2, <1>3, <1>4, <1>5
  <2> HIDE DEF q
  <2> QED
    BY <2>2, <2>3
<1> HIDE DEF q
<1>8. ASSUME NEW i \in 1..EncLen(x, f) PROVE q[i] = ByteOf(x, f, i)
  <2> DEFINE a == 2 + Ext(f)
             b == 2 + Ext(f) + Key(x, f)
  <2>1. a \in Nat /\ b \in Nat /\ i \in 1..(b + f.length) /\ i \in Nat
        /\ a = 2 + Ext(f) /\ b = a + Key(x, f)
    BY <1>1, <1>8 DEF EncLen
  <2>2. q[i] = IF i <= 2 THEN h[i] ELSE IF i <= a THEN e[i - 2]
               ELSE IF i <= b THEN k[i - a] ELSE d[i - b]
    BY <1>7, <2>1
  <2>3. ByteOf(x, f, i) = IF i = 1 THEN Hdr1(f) ELSE IF i = 2 THEN Hdr2(x, f)
                          ELSE IF i <= a THEN ExtByte(f) ELSE IF i <= b THEN KeyByte
                          ELSE DataByte(x, f)
    BY DEF ByteOf
  <2> HIDE DEF a, b
  <2>4. CASE i <= 2
    BY <1>2, <2>1, <2>2, <2>3, <2>4
  <2>5. CASE ~(i <= 2) /\ i <= a
    BY <1>1, <1>3, <2>1, <2>2, <2>3, <2>5
  <2>6. CASE ~(i <= 2) /\ ~(i <= a) /\ i <= b
    BY <1>1, <1>4, <2>1, <2>2, <2>3, <2>6, SMTT(60)
  <2>7. CASE ~(i <= 2) /\ ~(i <= a) /\ ~(i <= b)
    <3>1. b \in Nat /\ f.length \in Nat /\ i \in 1..(b + f.length) /\ 2 <= a /\ a <= b
      BY <1>1, <2>1
    <3>2. i - b \in 1..f.length
      BY <2>7, <3>1
    <3>3. d[i - b] = DataByte(x, f)
      BY <1>5, <3>2
    <3>4. i # 1 /\ i # 2
      BY <2>7
    <3> QED
      BY <2>2, <2>3, <2>7, <3>3, <3>4
  <2> QED
    BY <2>4, <2>5, <2>6, <2>7
<1> QED
  BY <1>6, <1>7, <1>8 DEF q, EncLen

-----------------------------------------------------------------------------
(* The loops of decodeFrame and of the frames of a read.                   *)

\* What defines the rounds of a loop has a solution.
Rounds(mode, first, n, run) ==
  run = [i \in 0..n |-> IF i = 0 THEN first ELSE Round(mode, run[i - 1])]

\* The rounds of decodeFrame exist, however many.
LEMMA RoundsExist ==
  ASSUME NEW mode, NEW first, NEW n \in Nat PROVE \E run : Rounds(mode, first, n, run)
<1> DEFINE S == {k \in 0..n : \E run : Rounds(mode, first, k, run)}
<1>1. 0 \in S
  <2> DEFINE g == [i \in 0..0 |-> first]
  <2>1. g = [i \in 0..0 |-> IF i = 0 THEN first ELSE Round(mode, g[i - 1])]
    OBVIOUS
  <2> HIDE DEF g
  <2>2. Rounds(mode, first, 0, g)
    BY <2>1 DEF Rounds
  <2> QED
    BY <2>2
<1>2. ASSUME NEW k \in 0..n, k < n, k \in S PROVE k + 1 \in S
  <2>1. PICK f : Rounds(mode, first, k, f)
    BY <1>2
  <2> DEFINE g == [i \in 0..(k + 1) |-> IF i <= k THEN f[i] ELSE Round(mode, f[k])]
             h == [i \in 0..(k + 1) |-> IF i = 0 THEN first ELSE Round(mode, g[i - 1])]
  <2>2. ASSUME NEW i \in 0..(k + 1) PROVE g[i] = IF i = 0 THEN first ELSE Round(mode, g[i - 1])
    <3>1. CASE i = 0
      BY <1>2, <2>1, <3>1 DEF Rounds
    <3>2. CASE i # 0 /\ i <= k
      <4>1. i \in 0..k /\ i - 1 \in 0..k /\ i - 1 \in 0..(k + 1) /\ i - 1 <= k
        BY <3>2
      <4>2. f[i] = Round(mode, f[i - 1])
        BY <2>1, <3>2, <4>1 DEF Rounds
      <4> QED
        BY <3>2, <4>1, <4>2
    <3>3. CASE i = k + 1
      <4>1. i # 0 /\ ~(i <= k) /\ i - 1 = k /\ k \in 0..(k + 1) /\ k <= k
        BY <1>2, <3>3
      <4> QED
        BY <4>1
    <3> QED
      BY <1>2, <3>1, <3>2, <3>3
  <2>3. g = h
    BY <2>2
  <2>4. Rounds(mode, first, k + 1, g)
    <3> HIDE DEF g
    <3> QED
      BY <2>3 DEF Rounds
  <2>5. k + 1 \in 0..n
    BY <1>2
  <2> HIDE DEF g, h
  <2> QED
    BY <2>4, <2>5
<1>3. S = 0..n
  <2> HIDE DEF S
  <2>1. S \in SUBSET (0..n)
    BY DEF S
  <2> QED
    BY <1>1, <1>2, <2>1, Upward
<1>4. n \in 0..n
  OBVIOUS
<1> QED
  BY <1>3, <1>4

Begin(c, d) == [dctx |-> c, data |-> d, frames |-> <<>>]

IsDecoding(mode, c, d, n, run) ==
  /\ run[0] = Begin(c, d) /\ Decode(mode, c, d) = run[n]
  /\ \A i \in 1..n : run[i] = Round(mode, run[i - 1])

\* Decode is the last of its rounds.
LEMMA DecodeRounds ==
  ASSUME NEW mode, NEW c, NEW d, NEW n \in Nat, n = 3 * Len(d) + 3
  PROVE  \E run : IsDecoding(mode, c, d, n, run)
<1> DEFINE k == 3 * Len(d) + 3
           first == Begin(c, d)
           f == CHOOSE f : Rounds(mode, first, k, f)
<1>1. k \in Nat
  OBVIOUS
<1>2. Rounds(mode, first, k, f)
  <2> HIDE DEF first, k
  <2> QED
    BY <1>1, RoundsExist
<1>3. Decode(mode, c, d) = f[k]
  BY DEF Decode, Rounds, Begin
<1> HIDE DEF f
<1>4. f[0] = first /\ \A i \in 1..k : f[i] = Round(mode, f[i - 1])
  <2> HIDE DEF first, k
  <2>1. 0 \in 0..k /\ \A i \in 1..k : i \in 0..k /\ i # 0
    BY <1>1
  <2> QED
    BY <1>2, <2>1 DEF Rounds
<1> HIDE DEF first
<1>5. n = k
  OBVIOUS
<1> HIDE DEF k
<1>6. IsDecoding(mode, c, d, n, f)
  BY <1>3, <1>4, <1>5, Zenon DEF IsDecoding, first
<1> QED
  BY <1>6

\* The same for the frames that are handled one after the other.
Handles(x, first, fs, room, quits, n, run) ==
  run = [i \in 0..n |-> IF i = 0 THEN first ELSE OnWsFrame(x, run[i - 1], fs[i], room, quits)]

\* The calls of onWsFrame for the frames of a read exist.
LEMMA HandlesExist ==
  ASSUME NEW x, NEW first, NEW fs, NEW room, NEW quits, NEW n \in Nat
  PROVE  \E run : Handles(x, first, fs, room, quits, n, run)
<1> DEFINE S == {k \in 0..n : \E run : Handles(x, first, fs, room, quits, k, run)}
<1>1. 0 \in S
  <2> DEFINE g == [i \in 0..0 |-> first]
  <2>1. g = [i \in 0..0 |-> IF i = 0 THEN first ELSE OnWsFrame(x, g[i - 1], fs[i], room, quits)]
    OBVIOUS
  <2> HIDE DEF g
  <2>2. Handles(x, first, fs, room, quits, 0, g)
    BY <2>1 DEF Handles
  <2> QED
    BY <2>2
<1>2. ASSUME NEW k \in 0..n, k < n, k \in S PROVE k + 1 \in S
  <2>1. PICK f : Handles(x, first, fs, room, quits, k, f)
    BY <1>2
  <2> DEFINE g == [i \in 0..(k + 1) |-> IF i <= k THEN f[i] ELSE OnWsFrame(x, f[k], fs[k + 1], room, quits)]
             h == [i \in 0..(k + 1) |-> IF i = 0 THEN first ELSE OnWsFrame(x, g[i - 1], fs[i], room, quits)]
  <2>2. ASSUME NEW i \in 0..(k + 1) PROVE g[i] = IF i = 0 THEN first ELSE OnWsFrame(x, g[i - 1], fs[i], room, quits)
    <3>1. CASE i = 0
      BY <1>2, <2>1, <3>1 DEF Handles
    <3>2. CASE i # 0 /\ i <= k
      <4>1. i \in 0..k /\ i - 1 \in 0..k /\ i - 1 \in 0..(k + 1) /\ i - 1 <= k
        BY <3>2
      <4>2. f[i] = OnWsFrame(x, f[i - 1], fs[i], room, quits)
        BY <2>1, <3>2, <4>1 DEF Handles
      <4> QED
        BY <3>2, <4>1, <4>2
    <3>3. CASE i = k + 1
      <4>1. i # 0 /\ ~(i <= k) /\ i - 1 = k /\ k \in 0..(k + 1) /\ k <= k
        BY <1>2, <3>3
      <4> QED
        BY <4>1
    <3> QED
      BY <1>2, <3>1, <3>2, <3>3
  <2>3. g = h
    BY <2>2
  <2>4. Handles(x, first, fs, room, quits, k + 1, g)
    <3> HIDE DEF g
    <3> QED
      BY <2>3 DEF Handles
  <2>5. k + 1 \in 0..n
    BY <1>2
  <2> HIDE DEF g, h
  <2> QED
    BY <2>4, <2>5
<1>3. S = 0..n
  <2> HIDE DEF S
  <2>1. S \in SUBSET (0..n)
    BY DEF S
  <2> QED
    BY <1>1, <1>2, <2>1, Upward
<1>4. n \in 0..n
  OBVIOUS
<1> QED
  BY <1>3, <1>4

IsHandling(x, first, fs, room, quits, n, run) ==
  /\ run[0] = first /\ AfterFrames(x, first, fs, room, quits) = run[n]
  /\ \A i \in 1..n : run[i] = OnWsFrame(x, run[i - 1], fs[i], room, quits)

\* AfterFrames is the last of these calls.
LEMMA FramesHandled ==
  ASSUME NEW x, NEW first, NEW fs, NEW room, NEW quits, Len(fs) \in Nat
  PROVE  \E run : IsHandling(x, first, fs, room, quits, Len(fs), run)
<1> DEFINE n == Len(fs)
           f == CHOOSE f : Handles(x, first, fs, room, quits, n, f)
<1>1. n \in Nat
  OBVIOUS
<1>2. Handles(x, first, fs, room, quits, n, f)
  <2> HIDE DEF n
  <2> QED
    BY <1>1, HandlesExist
<1>3. AfterFrames(x, first, fs, room, quits) = f[n]
  BY DEF AfterFrames, Handles
<1> HIDE DEF f
<1>4. f[0] = first /\ \A i \in 1..n : f[i] = OnWsFrame(x, f[i - 1], fs[i], room, quits)
  <2> HIDE DEF n
  <2>1. 0 \in 0..n /\ \A i \in 1..n : i \in 0..n /\ i # 0
    BY <1>1
  <2> QED
    BY <1>2, <2>1 DEF Handles
<1> HIDE DEF n
<1>5. IsHandling(x, first, fs, room, quits, n, f)
  BY <1>3, <1>4, Zenon DEF IsHandling
<1> QED
  BY <1>5 DEF n

-----------------------------------------------------------------------------
(* A round of decodeFrame, on the bytes of a frame.                        *)

Contexts ==
  [state : {"hdr1", "hdr2", "hdrex", "maskey", "data", "closed", "error"},
   op : Ops \cup {"none"}, fin : BOOLEAN, mask : BOOLEAN, plen : Nat, length : Nat, pos : Nat,
   buf : Seq(Byte)]
Given == [op : Ops, fin : BOOLEAN, payload : Seq(Byte)]
Loop == [dctx : Contexts, data : Seq(Byte), frames : Seq(Given)]

\* The context c stands behind p bytes of the frame f of x.
InData(x, c, f) ==
  /\ c.buf = Repeat(DataByte(x, f), Len(c.buf))
  /\ Len(c.buf) < f.length \/ (f.length = 0 /\ Len(c.buf) = 0)
Stands(x, c, f, p) ==
  /\ c.state \in {"hdr1", "hdr2", "hdrex", "maskey", "data"}
  /\ c.state = "hdr1" => p = 0
  /\ c.state # "hdr1" => c.op = f.op /\ c.fin = f.fin
  /\ c.state = "hdr2" => p = 1
  /\ c.state \in {"hdrex", "maskey", "data"} => c.mask = Masked(x, f)
  /\ c.state = "hdrex" => c.plen = Plen(f) /\ p = 2 + c.pos /\ (c.pos = 0 \/ c.pos < Ext(f))
  /\ c.state \in {"maskey", "data"} => c.length = f.length
  /\ c.state = "maskey" => p = 2 + Ext(f) + c.pos /\ (c.pos = 0 \/ c.pos < Key(x, f))
  /\ c.state = "data" => p = 2 + Ext(f) + Key(x, f) + Len(c.buf) /\ InData(x, c, f)

\* What is still to read begins with the rest of f.
Ahead(x, f, p, d) ==
  \A j \in 1..Len(d) : p + j <= EncLen(x, f) => d[j] = ByteOf(x, f, p + j)

\* The rounds that can go by before a byte is taken.
Rank(c) == CASE c.state = "hdrex" -> 3 [] c.state = "maskey" -> 2
             [] c.state \in {"hdr2", "data"} -> 1 [] OTHER -> 0
Less(s, r) == s.data = <<>> \/ 3 * Len(s.data) + Rank(s.dctx) < 3 * Len(r.data) + Rank(r.dctx)

Moves(x, f, p, r, s) ==
  /\ s \in Loop /\ Less(s, r) /\ s.frames = r.frames
  /\ \E n \in 0..Len(r.data) : Stands(x, s.dctx, f, p + n) /\ s.data = Rest(r.data, n)
Completes(x, f, p, r, s) ==
  /\ s \in Loop /\ Less(s, r) /\ s.frames = Append(r.frames, Meant(f))
  /\ IF f.op = "close" THEN s.dctx.state = "closed" /\ s.data = <<>>
     ELSE /\ s.dctx = Fresh
          /\ \E n \in 0..Len(r.data) : p + n = EncLen(x, f) /\ s.data = Rest(r.data, n)

\* The rest of a sequence, element by element.
LEMMA RestProperties ==
  ASSUME NEW S, NEW d \in Seq(S), NEW n \in 0..Len(d)
  PROVE  /\ Rest(d, n) \in Seq(S) /\ Len(Rest(d, n)) = Len(d) - n
         /\ \A j \in 1..(Len(d) - n) : Rest(d, n)[j] = d[n + j]
<1> DEFINE m == n + 1
           l == Len(d)
<1>1. l \in Nat /\ n \in Nat /\ n <= l
  BY LenProperties
<1>2. m \in 1..(l + 1) /\ l \in Int /\ m \in Int /\ \A i \in m..l : d[i] \in S
  BY <1>1
<1>3. /\ SubSeq(d, m, l) \in Seq(S)
      /\ Len(SubSeq(d, m, l)) = IF m <= l THEN l - m + 1 ELSE 0
      /\ \A i \in 1..(l - m + 1) : SubSeq(d, m, l)[i] = d[m + i - 1]
  <2> HIDE DEF m, l
  <2> QED
    BY <1>2, SubSeqProperties
<1>4. (IF m <= l THEN l - m + 1 ELSE 0) = l - n /\ l - m + 1 = l - n
  BY <1>1
<1>5. ASSUME NEW j \in 1..(l - n) PROVE m + j - 1 = n + j
  BY <1>1
<1>6. Rest(d, n) = SubSeq(d, m, l)
  BY DEF Rest
<1> HIDE DEF m, l
<1>7. \A j \in 1..(l - n) : SubSeq(d, m, l)[j] = d[n + j]
  BY <1>3, <1>4, <1>5
<1> QED
  BY <1>3, <1>4, <1>6, <1>7 DEF l

\* A round that takes n bytes of its input.
LEMMA GoesOn ==
  ASSUME NEW r \in Loop, NEW c \in Contexts, NEW n \in 0..Len(r.data)
  PROVE  /\ GoOn(r, c, n) \in Loop /\ GoOn(r, c, n).dctx = c
         /\ GoOn(r, c, n).data = Rest(r.data, n) /\ GoOn(r, c, n).frames = r.frames
<1>1. r.data \in Seq(Byte)
  BY DEF Loop
<1>2. Rest(r.data, n) \in Seq(Byte)
  BY <1>1, RestProperties
<1> QED
  BY <1>2 DEF GoOn, Loop

\* A round that returns takes all of its input.
LEMMA Returned ==
  ASSUME NEW r \in Loop, NEW c \in Contexts
  PROVE  /\ Returns(r, c) \in Loop /\ Returns(r, c).dctx = c
         /\ Returns(r, c).data = <<>> /\ Returns(r, c).frames = r.frames
<1>1. <<>> \in Seq(Byte)
  OBVIOUS
<1> QED
  BY <1>1 DEF Returns, Loop

\* What a loop and a byte of its input are.
LEMMA LoopTypes ==
  ASSUME NEW r \in Loop, r.data # <<>>
  PROVE  /\ r.dctx \in Contexts /\ r.data \in Seq(Byte) /\ r.frames \in Seq(Given)
         /\ Len(r.data) \in Nat /\ Len(r.data) >= 1
<1>1. r.dctx \in Contexts /\ r.data \in Seq(Byte) /\ r.frames \in Seq(Given)
  BY DEF Loop
<1>2. \A q \in Seq(Byte) : q # <<>> => Len(q) \in Nat /\ Len(q) >= 1
  OBVIOUS
<1> QED
  BY <1>1, <1>2

\* Within a frame, a round that takes n bytes moves on by n.
LEMMA GoesOnMoves ==
  ASSUME NEW x \in Ends, NEW f \in Frame, NEW p \in Nat, NEW r \in Loop, r.data # <<>>,
         NEW c \in Contexts, NEW n \in 0..Len(r.data), Stands(x, c, f, p + n),
         Rank(c) < 3 * n + Rank(r.dctx)
  PROVE  Moves(x, f, p, r, GoOn(r, c, n))
<1> DEFINE s == GoOn(r, c, n)
<1>1. s \in Loop /\ s.dctx = c /\ s.data = Rest(r.data, n) /\ s.frames = r.frames
  BY GoesOn
<1>2. r.data \in Seq(Byte) /\ Len(r.data) \in Nat
  BY LoopTypes
<1>3. Len(s.data) = Len(r.data) - n
  BY <1>1, <1>2, RestProperties
<1>4. Rank(c) \in Nat /\ Rank(r.dctx) \in Nat
  BY Zenon, 0 \in Nat /\ 1 \in Nat /\ 2 \in Nat /\ 3 \in Nat DEF Rank
<1> HIDE DEF s
<1>5. Less(s, r)
  BY <1>1, <1>2, <1>3, <1>4 DEF Less
<1> QED
  BY <1>1, <1>5 DEF Moves, s

\* The round that reads the first byte of a header.
LEMMA Hdr1Round ==
  ASSUME NEW x \in Ends, NEW f \in Frame, NEW p \in Nat, NEW r \in Loop, r.data # <<>>,
         Stands(x, r.dctx, f, p), Ahead(x, f, p, r.data), r.dctx.state = "hdr1"
  PROVE  Moves(x, f, p, r, ReadHdr1(r))
<1> DEFINE c == [r.dctx EXCEPT !.op = r.data[1][2], !.fin = r.data[1][3], !.state = "hdr2"]
<1>1. p = 0 /\ r.dctx \in Contexts /\ Len(r.data) \in Nat /\ Len(r.data) >= 1
  BY LoopTypes DEF Stands
<1>2. r.data[1] = Hdr1(f)
  <2>1. 1 \in 1..Len(r.data) /\ p + 1 = 1 /\ 1 <= EncLen(x, f)
    BY <1>1, ByteTypes
  <2>2. r.data[1] = ByteOf(x, f, 1)
    BY <2>1 DEF Ahead
  <2> QED
    BY <2>2 DEF ByteOf
<1>3. r.data[1][2] = f.op /\ r.data[1][3] = f.fin /\ f.op \in Ops /\ f.fin \in BOOLEAN
  BY <1>2 DEF Hdr1, Frame
<1>4. c \in Contexts /\ c.op = f.op /\ c.fin = f.fin /\ c.state = "hdr2"
  BY <1>1, <1>3 DEF Contexts
<1>5. ReadHdr1(r) = GoOn(r, c, 1)
  BY DEF ReadHdr1
<1> HIDE DEF c
<1>6. 1 \in 0..Len(r.data)
  BY <1>1
<1>7. Stands(x, c, f, p + 1)
  BY <1>1, <1>4 DEF Stands
<1>8. Rank(c) = 1 /\ Rank(r.dctx) = 0
  BY <1>4 DEF Rank
<1> QED
  BY <1>4, <1>5, <1>6, <1>7, <1>8, GoesOnMoves

\* The round that reads the second byte.
LEMMA Hdr2Round ==
  ASSUME NEW x \in Ends, NEW f \in Frame, NEW p \in Nat, NEW r \in Loop, r.data # <<>>,
         Stands(x, r.dctx, f, p), Ahead(x, f, p, r.data), r.dctx.state = "hdr2"
  PROVE  Moves(x, f, p, r, ReadHdr2(r))
<1> DEFINE c == [r.dctx EXCEPT !.mask = r.data[1][2], !.plen = r.data[1][3], !.pos = 0,
                               !.buf = <<>>, !.state = "hdrex"]
<1>1. p = 1 /\ r.dctx \in Contexts /\ Len(r.data) \in Nat /\ Len(r.data) >= 1
      /\ r.dctx.op = f.op /\ r.dctx.fin = f.fin
  BY LoopTypes DEF Stands
<1>2. r.data[1] = Hdr2(x, f)
  <2>1. 1 \in 1..Len(r.data) /\ p + 1 = 2 /\ 2 <= EncLen(x, f)
    BY <1>1, ByteTypes
  <2>2. r.data[1] = ByteOf(x, f, 2)
    BY <2>1 DEF Ahead
  <2> QED
    BY <2>2 DEF ByteOf
<1>3. r.data[1][2] = Masked(x, f) /\ r.data[1][3] = Plen(f)
  BY <1>2 DEF Hdr2
<1>4. Masked(x, f) \in BOOLEAN /\ Plen(f) \in Nat /\ <<>> \in Seq(Byte) /\ 0 \in Nat
  <2>1. Plen(f) \in Nat
    BY DEF Plen, Frame
  <2> QED
    BY <2>1, ByteTypes
<1>5. /\ c \in Contexts /\ c.op = f.op /\ c.fin = f.fin /\ c.state = "hdrex" /\ c.mask = Masked(x, f)
      /\ c.plen = Plen(f) /\ c.pos = 0
  BY <1>1, <1>3, <1>4 DEF Contexts
<1>6. ReadHdr2(r) = GoOn(r, c, 1)
  BY DEF ReadHdr2
<1> HIDE DEF c
<1>7. 1 \in 0..Len(r.data)
  BY <1>1
<1>8. Stands(x, c, f, p + 1)
  BY <1>1, <1>5 DEF Stands
<1>9. Rank(c) = 3 /\ Rank(r.dctx) = 1
  BY <1>5 DEF Rank
<1> QED
  BY <1>5, <1>6, <1>7, <1>8, <1>9, GoesOnMoves

\* The round of a length that the second byte holds.
LEMMA ShortRound ==
  ASSUME NEW x \in Ends, NEW f \in Frame, NEW p \in Nat, NEW r \in Loop, r.data # <<>>,
         Stands(x, r.dctx, f, p), r.dctx.state = "hdrex", r.dctx.plen < LongLen
  PROVE  Moves(x, f, p, r, Short(r))
<1> DEFINE c == [r.dctx EXCEPT !.length = r.dctx.plen, !.state = "maskey"]
<1>1. /\ p = 2 + r.dctx.pos /\ r.dctx \in Contexts /\ Len(r.data) \in Nat /\ r.dctx.plen = Plen(f)
      /\ r.dctx.pos = 0 \/ r.dctx.pos < Ext(f)
      /\ r.dctx.op = f.op /\ r.dctx.fin = f.fin /\ r.dctx.mask = Masked(x, f)
  BY LoopTypes DEF Stands
<1>2. r.dctx.plen = f.length /\ Ext(f) = 0 /\ r.dctx.pos = 0
  BY <1>1 DEF Plen, LongLen, Ext, Contexts, Frame
<1>3. r.dctx.plen \in Nat
  BY <1>1 DEF Contexts
<1>4. /\ c \in Contexts /\ c.op = f.op /\ c.fin = f.fin /\ c.state = "maskey" /\ c.mask = Masked(x, f)
      /\ c.length = f.length /\ c.pos = 0
  BY <1>1, <1>2, <1>3 DEF Contexts
<1>5. Short(r) = GoOn(r, c, 0)
  BY DEF Short
<1> HIDE DEF c
<1>6. 0 \in 0..Len(r.data)
  BY <1>1
<1>7. Stands(x, c, f, p + 0)
  BY <1>1, <1>2, <1>4 DEF Stands
<1>8. Rank(c) = 2 /\ Rank(r.dctx) = 3
  BY <1>4 DEF Rank
<1> QED
  BY <1>4, <1>5, <1>6, <1>7, <1>8, GoesOnMoves

\* The lesser of two numbers.
LEMMA LeastOf ==
  ASSUME NEW a \in Nat, NEW b \in Nat
  PROVE  Least(a, b) \in Nat /\ Least(a, b) <= a /\ Least(a, b) <= b
         /\ (Least(a, b) = a \/ Least(a, b) = b)
BY DEF Least

\* The round that reads bytes of an extended length.
LEMMA ExtRound ==
  ASSUME NEW x \in Ends, NEW f \in Frame, NEW p \in Nat, NEW r \in Loop, r.data # <<>>,
         Stands(x, r.dctx, f, p), Ahead(x, f, p, r.data), r.dctx.state = "hdrex",
         ~(r.dctx.plen < LongLen)
  PROVE  Moves(x, f, p, r, ReadExt(r))
<1> DEFINE n == Least(ExtLen - r.dctx.pos, Len(r.data))
           c == [r.dctx EXCEPT !.pos = @ + n]
           d == [r.dctx EXCEPT !.pos = 0, !.length = r.data[1][2], !.state = "maskey"]
<1>1. /\ p = 2 + r.dctx.pos /\ r.dctx \in Contexts /\ Len(r.data) \in Nat /\ Len(r.data) >= 1
      /\ r.dctx.plen = Plen(f) /\ r.dctx.pos \in Nat
      /\ r.dctx.pos = 0 \/ r.dctx.pos < Ext(f)
      /\ r.dctx.op = f.op /\ r.dctx.fin = f.fin /\ r.dctx.mask = Masked(x, f)
  BY LoopTypes DEF Stands, Contexts
<1>2. Ext(f) = ExtLen /\ ~(f.length < LongLen)
  <2>1. ~(f.length < LongLen)
    BY <1>1 DEF Plen
  <2> QED
    BY <2>1 DEF Ext
<1>3. r.dctx.pos < ExtLen /\ ExtLen = 2
  BY <1>1, <1>2 DEF ExtLen
<1>4. ExtLen - r.dctx.pos \in Nat /\ ExtLen - r.dctx.pos >= 1
  BY <1>1, <1>3
<1>5. n \in Nat /\ 1 <= n /\ n <= Len(r.data) /\ r.dctx.pos + n <= ExtLen
  <2>1. n \in Nat /\ n <= ExtLen - r.dctx.pos /\ n <= Len(r.data)
        /\ (n = ExtLen - r.dctx.pos \/ n = Len(r.data))
    BY <1>1, <1>4, LeastOf
  <2> HIDE DEF n
  <2> QED
    BY <1>1, <1>3, <1>4, <2>1
<1>6. r.data[1][2] = f.length
  <2>0. Key(x, f) \in Nat /\ f.length \in Nat
    BY ByteTypes
  <2>1. 1 \in 1..Len(r.data) /\ p + 1 \in 3..4 /\ p + 1 <= EncLen(x, f) /\ p + 1 <= 2 + Ext(f)
    <3>1. Ext(f) = 2 /\ p = 2 + r.dctx.pos /\ r.dctx.pos \in Nat /\ r.dctx.pos < 2
      BY <1>1, <1>2, <1>3
    <3>2. EncLen(x, f) = 4 + Key(x, f) + f.length
      BY <2>0, <3>1 DEF EncLen
    <3>3. p \in 2..3 /\ p + 1 \in 3..4
      BY <3>1
    <3> QED
      BY <1>1, <2>0, <3>1, <3>2, <3>3, SMTT(60)
  <2>2. r.data[1] = ByteOf(x, f, p + 1)
    BY <2>1 DEF Ahead
  <2>3. r.data[1] = ExtByte(f)
    BY <2>1, <2>2 DEF ByteOf
  <2> QED
    BY <2>3 DEF ExtByte
<1>7. n \in 0..Len(r.data)
  BY <1>1, <1>5
<1>8. CASE r.dctx.pos + n < ExtLen
  <2>1. ReadExt(r) = GoOn(r, c, n)
    BY <1>8 DEF ReadExt
  <2> HIDE DEF n
  <2>2. r.dctx.pos + n \in Nat
    BY <1>1, <1>5
  <2>3. /\ c \in Contexts /\ c.op = f.op /\ c.fin = f.fin /\ c.state = "hdrex" /\ c.mask = Masked(x, f)
        /\ c.plen = Plen(f) /\ c.pos = r.dctx.pos + n
    BY <1>1, <2>2 DEF Contexts
  <2> HIDE DEF c
  <2>4. Stands(x, c, f, p + n)
    BY <1>1, <1>2, <1>3, <1>5, <1>8, <2>3 DEF Stands
  <2>5. Rank(c) = 3 /\ Rank(r.dctx) = 3
    BY <2>3 DEF Rank
  <2>6. Rank(c) < 3 * n + Rank(r.dctx)
    BY <1>5, <2>5
  <2> QED
    BY <1>7, <2>1, <2>3, <2>4, <2>6, GoesOnMoves
<1>9. CASE ~(r.dctx.pos + n < ExtLen)
  <2>1. ReadExt(r) = GoOn(r, d, n)
    BY <1>9 DEF ReadExt
  <2> HIDE DEF n
  <2>2. f.length \in Nat /\ 0 \in Nat
    BY DEF Frame
  <2>3. /\ d \in Contexts /\ d.op = f.op /\ d.fin = f.fin /\ d.state = "maskey"
        /\ d.mask = Masked(x, f) /\ d.length = f.length /\ d.pos = 0
    BY <1>1, <1>6, <2>2 DEF Contexts
  <2> HIDE DEF d
  <2>4. p + n = 2 + Ext(f) + d.pos
    BY <1>1, <1>2, <1>3, <1>5, <1>9, <2>3
  <2>5. Stands(x, d, f, p + n)
    BY <2>3, <2>4 DEF Stands
  <2>6. Rank(d) = 2 /\ Rank(r.dctx) = 3
    BY <2>3 DEF Rank
  <2>7. Rank(d) < 3 * n + Rank(r.dctx)
    BY <1>5, <2>6
  <2> QED
    BY <1>7, <2>1, <2>3, <2>5, <2>7, GoesOnMoves
<1> QED
  BY <1>8, <1>9

\* The round that reads bytes of a masking key.
LEMMA KeyRound ==
  ASSUME NEW x \in Ends, NEW f \in Frame, NEW p \in Nat, NEW r \in Loop, r.data # <<>>,
         Stands(x, r.dctx, f, p), r.dctx.state = "maskey", r.dctx.mask
  PROVE  Moves(x, f, p, r, ReadKey(r))
<1> DEFINE n == Least(KeyLen - r.dctx.pos, Len(r.data))
           c == [r.dctx EXCEPT !.pos = @ + n]
           d == [r.dctx EXCEPT !.pos = 0, !.buf = <<>>, !.state = "data"]
<1>1. /\ p = 2 + Ext(f) + r.dctx.pos /\ r.dctx \in Contexts /\ Len(r.data) \in Nat
      /\ Len(r.data) >= 1 /\ r.dctx.pos \in Nat
      /\ r.dctx.pos = 0 \/ r.dctx.pos < Key(x, f)
      /\ r.dctx.op = f.op /\ r.dctx.fin = f.fin /\ r.dctx.mask = Masked(x, f)
      /\ r.dctx.length = f.length
  BY LoopTypes DEF Stands, Contexts
<1>2. Masked(x, f)
  BY <1>1
<1>3. /\ Key(x, f) = KeyLen /\ KeyLen = 2 /\ f.length > 0 /\ f.length \in Nat
      /\ Ext(f) \in Nat /\ r.dctx.pos < KeyLen
  <2>1. Key(x, f) = KeyLen /\ f.length > 0
    BY <1>2 DEF Key, Masked
  <2> QED
    BY <1>1, <2>1, ByteTypes DEF KeyLen
<1>4. KeyLen - r.dctx.pos \in Nat /\ KeyLen - r.dctx.pos >= 1
  BY <1>1, <1>3
<1>5. n \in Nat /\ 1 <= n /\ n <= Len(r.data) /\ r.dctx.pos + n <= KeyLen
  <2>1. n \in Nat /\ n <= KeyLen - r.dctx.pos /\ n <= Len(r.data)
        /\ (n = KeyLen - r.dctx.pos \/ n = Len(r.data))
    BY <1>1, <1>4, LeastOf
  <2> HIDE DEF n
  <2> QED
    BY <1>1, <1>3, <1>4, <2>1, SMTT(60)
<1>6. n \in 0..Len(r.data)
  BY <1>1, <1>5
<1>7. CASE r.dctx.pos + n < KeyLen
  <2>1. ReadKey(r) = GoOn(r, c, n)
    BY <1>7 DEF ReadKey
  <2> HIDE DEF n
  <2>2. r.dctx.pos + n \in Nat
    BY <1>1, <1>5
  <2>3. /\ c \in Contexts /\ c.op = f.op /\ c.fin = f.fin /\ c.state = "maskey" /\ c.mask = Masked(x, f)
        /\ c.length = f.length /\ c.pos = r.dctx.pos + n
    BY <1>1, <2>2 DEF Contexts
  <2> HIDE DEF c
  <2>4. Stands(x, c, f, p + n)
    BY <1>1, <1>3, <1>5, <1>7, <2>3 DEF Stands
  <2>5. Rank(c) = 2 /\ Rank(r.dctx) = 2
    BY <2>3 DEF Rank
  <2>6. Rank(c) < 3 * n + Rank(r.dctx)
    BY <1>5, <2>5
  <2> QED
    BY <1>6, <2>1, <2>3, <2>4, <2>6, GoesOnMoves
<1>8. CASE ~(r.dctx.pos + n < KeyLen)
  <2>1. ReadKey(r) = GoOn(r, d, n)
    BY <1>8 DEF ReadKey
  <2> HIDE DEF n
  <2>2. <<>> \in Seq(Byte) /\ Len(<<>>) = 0 /\ 0 \in Nat
    OBVIOUS
  <2>3. /\ d \in Contexts /\ d.op = f.op /\ d.fin = f.fin /\ d.state = "data"
        /\ d.mask = Masked(x, f) /\ d.length = f.length /\ d.buf = <<>>
    BY <1>1, <2>2 DEF Contexts
  <2> HIDE DEF d
  <2>4. p + n = 2 + Ext(f) + Key(x, f) + Len(d.buf)
    BY <1>1, <1>3, <1>5, <1>8, <2>2, <2>3, SMTT(60)
  <2>5. InData(x, d, f)
    <3>1. Repeat(DataByte(x, f), 0) = <<>>
      BY DEF Repeat
    <3> QED
      BY <1>3, <2>2, <2>3, <3>1 DEF InData
  <2>6. Stands(x, d, f, p + n)
    BY <2>3, <2>4, <2>5 DEF Stands
  <2>7. Rank(d) = 1 /\ Rank(r.dctx) = 2
    BY <2>3 DEF Rank
  <2>8. Rank(d) < 3 * n + Rank(r.dctx)
    BY <1>5, <2>7
  <2> QED
    BY <1>6, <2>1, <2>3, <2>6, <2>8, GoesOnMoves
<1> QED
  BY <1>7, <1>8

\* The round of a frame that is not masked.
LEMMA NoKeyRound ==
  ASSUME NEW x \in Ends, NEW f \in Frame, NEW p \in Nat, NEW r \in Loop, r.data # <<>>,
         Stands(x, r.dctx, f, p), r.dctx.state = "maskey", ~r.dctx.mask
  PROVE  Moves(x, f, p, r, NoKey(r))
<1> DEFINE d == [r.dctx EXCEPT !.buf = <<>>, !.state = "data"]
<1>1. /\ p = 2 + Ext(f) + r.dctx.pos /\ r.dctx \in Contexts /\ Len(r.data) \in Nat
      /\ r.dctx.pos \in Nat
      /\ r.dctx.pos = 0 \/ r.dctx.pos < Key(x, f)
      /\ r.dctx.op = f.op /\ r.dctx.fin = f.fin /\ r.dctx.mask = Masked(x, f)
      /\ r.dctx.length = f.length
  BY LoopTypes DEF Stands, Contexts
<1>2. ~Masked(x, f)
  BY <1>1
<1>3. Key(x, f) = 0 /\ f.length \in Nat /\ Ext(f) \in Nat /\ r.dctx.pos = 0
  <2>1. Key(x, f) = 0
    BY <1>2 DEF Key
  <2> QED
    BY <1>1, <2>1, ByteTypes
<1>4. <<>> \in Seq(Byte) /\ Len(<<>>) = 0 /\ 0 \in Nat
  OBVIOUS
<1>5. /\ d \in Contexts /\ d.op = f.op /\ d.fin = f.fin /\ d.state = "data"
      /\ d.mask = Masked(x, f) /\ d.length = f.length /\ d.buf = <<>>
  BY <1>1, <1>4 DEF Contexts
<1>6. NoKey(r) = GoOn(r, d, 0)
  BY DEF NoKey
<1> HIDE DEF d
<1>7. p + 0 = 2 + Ext(f) + Key(x, f) + Len(d.buf)
  BY <1>1, <1>3, <1>4, <1>5
<1>8. InData(x, d, f)
  <2>1. Repeat(DataByte(x, f), 0) = <<>>
    BY DEF Repeat
  <2> QED
    BY <1>3, <1>4, <1>5, <2>1 DEF InData
<1>9. Stands(x, d, f, p + 0)
  BY <1>5, <1>7, <1>8 DEF Stands
<1>10. Rank(d) = 1 /\ Rank(r.dctx) = 2
  BY <1>5 DEF Rank
<1>11. 0 \in 0..Len(r.data) /\ Rank(d) < 3 * 0 + Rank(r.dctx)
  BY <1>1, <1>10
<1> QED
  BY <1>5, <1>6, <1>9, <1>11, GoesOnMoves

\* More of the same byte.
LEMMA RepeatMore ==
  ASSUME NEW b \in Byte, NEW m \in Nat, NEW e \in Seq(Byte), \A j \in 1..Len(e) : e[j] = b
  PROVE  Repeat(b, m) \o e = Repeat(b, m + Len(e))
<1> DEFINE u == Repeat(b, m)
           n == Len(e)
           v == Repeat(b, m + n)
<1>1. u \in Seq(Byte) /\ Len(u) = m /\ \A i \in 1..m : u[i] = b
  BY RepeatType
<1>2. n \in Nat /\ m + n \in Nat
  BY LenProperties
<1>3. v \in Seq(Byte) /\ Len(v) = m + n /\ \A i \in 1..(m + n) : v[i] = b
  <2> HIDE DEF n
  <2> QED
    BY <1>2, RepeatType
<1> HIDE DEF u, v
<1>4. /\ u \o e \in Seq(Byte) /\ Len(u \o e) = Len(u) + Len(e)
      /\ \A i \in 1..(Len(u) + Len(e)) : (u \o e)[i] = IF i <= Len(u) THEN u[i] ELSE e[i - Len(u)]
  BY <1>1, ConcatProperties
<1>5. ASSUME NEW i \in 1..(m + n) PROVE (u \o e)[i] = b
  <2>1. (u \o e)[i] = IF i <= m THEN u[i] ELSE e[i - m]
    BY <1>1, <1>4
  <2>2. CASE i <= m
    BY <1>1, <2>1, <2>2
  <2>3. CASE ~(i <= m)
    <3>1. i - m \in 1..Len(e)
      BY <1>2, <2>3
    <3> QED
      BY <2>1, <2>3, <3>1
  <2> QED
    BY <2>2, <2>3
<1>6. u \o e = v
  <2> DEFINE w == u \o e
  <2>1. w \in Seq(Byte) /\ Len(w) = Len(v) /\ \A i \in 1..Len(w) : w[i] = v[i]
    BY <1>1, <1>2, <1>3, <1>4, <1>5
  <2>2. v \in Seq(Byte)
    BY <1>3
  <2> HIDE DEF w
  <2>3. w = v
    BY <2>1, <2>2, SeqEqual
  <2> QED
    BY <2>3 DEF w
<1> QED
  BY <1>6 DEF u, v

\* The first bytes of the input.
LEMMA FirstOf ==
  ASSUME NEW S, NEW d \in Seq(S), NEW n \in 0..Len(d)
  PROVE  /\ SubSeq(d, 1, n) \in Seq(S) /\ Len(SubSeq(d, 1, n)) = n
         /\ \A j \in 1..n : SubSeq(d, 1, n)[j] = d[j]
<1>1. Len(d) \in Nat /\ n \in Nat /\ n <= Len(d)
  BY LenProperties
<1>2. n \in Int /\ 1 \in Int /\ (1 <= n => n - 1 + 1 = n) /\ (~(1 <= n) => n = 0)
      /\ \A i \in 1..n : d[i] \in S
  BY <1>1
<1>3. \A i \in 1..n : 1 + i - 1 = i
  BY <1>1
<1> QED
  BY <1>1, <1>2, <1>3, SubSeqProperties

\* In the payload of a frame, all bytes are alike.
LEMMA PayloadAhead ==
  ASSUME NEW x \in Ends, NEW f \in Frame, NEW p \in Nat, NEW d \in Seq(Byte), Ahead(x, f, p, d),
         NEW k \in Nat, p = 2 + Ext(f) + Key(x, f) + k, NEW j \in 1..Len(d), k + j <= f.length
  PROVE  d[j] = DataByte(x, f)
<1>1. /\ Ext(f) \in Nat /\ Key(x, f) \in Nat /\ f.length \in Nat /\ Len(d) \in Nat /\ j \in Nat
      /\ j >= 1
  BY ByteTypes, LenProperties
<1>2. p + j <= EncLen(x, f)
  BY <1>1, SMTT(60) DEF EncLen
<1>3. d[j] = ByteOf(x, f, p + j)
  BY <1>2 DEF Ahead
<1>4. /\ p + j # 1 /\ p + j # 2 /\ ~(p + j <= 2 + Ext(f))
      /\ ~(p + j <= 2 + Ext(f) + Key(x, f))
  BY <1>1
<1> QED
  BY <1>3, <1>4 DEF ByteOf

\* The round that keeps part of a payload.
LEMMA KeepRound ==
  ASSUME NEW x \in Ends, NEW f \in Frame, NEW p \in Nat, NEW r \in Loop, r.data # <<>>,
         Stands(x, r.dctx, f, p), Ahead(x, f, p, r.data), r.dctx.state = "data",
         ~HasPayload(r.dctx, r.data)
  PROVE  Moves(x, f, p, r, Returns(r, [r.dctx EXCEPT !.buf = Kept(r.dctx, r.data)]))
<1> DEFINE c == [r.dctx EXCEPT !.buf = Kept(r.dctx, r.data)]
           s == Returns(r, c)
<1>1. /\ p = 2 + Ext(f) + Key(x, f) + Len(r.dctx.buf) /\ r.dctx \in Contexts
      /\ r.data \in Seq(Byte) /\ r.dctx.buf \in Seq(Byte)
      /\ r.dctx.op = f.op /\ r.dctx.fin = f.fin /\ r.dctx.mask = Masked(x, f)
      /\ r.dctx.length = f.length
      /\ r.dctx.buf = Repeat(DataByte(x, f), Len(r.dctx.buf))
  BY LoopTypes DEF Stands, InData, Contexts
<1>2. PICK k \in Nat : k = Len(r.dctx.buf)
  <2>1. Len(r.dctx.buf) \in Nat
    BY <1>1, LenProperties
  <2> QED
    BY <2>1
<1>3. PICK n \in Nat : n = Len(r.data)
  BY LoopTypes
<1>4. PICK l \in Nat : l = f.length
  BY ByteTypes
<1>5. k + n < l
  <2>1. ~(l - k <= n)
    BY <1>1, <1>2, <1>3, <1>4, Zenon DEF HasPayload
  <2> QED
    BY <2>1
<1>6. \A j \in 1..n : r.data[j] = DataByte(x, f)
  <2>1. ASSUME NEW j \in 1..n PROVE r.data[j] = DataByte(x, f)
    <3>1. k + j <= l
      BY <1>5
    <3>2. k + j <= f.length /\ j \in 1..Len(r.data) /\ p = 2 + Ext(f) + Key(x, f) + k
      BY <1>1, <1>2, <1>3, <1>4, <3>1, Zenon
    <3> QED
      BY <1>1, <3>2, PayloadAhead
  <2> QED
    BY <2>1
<1>7. DataByte(x, f) \in Byte /\ k + n \in Nat
  BY ByteTypes
<1>8. Kept(r.dctx, r.data) = Repeat(DataByte(x, f), k + n)
  <2>1. Repeat(DataByte(x, f), k) \o r.data = Repeat(DataByte(x, f), k + Len(r.data))
    <3>1. \A j \in 1..Len(r.data) : r.data[j] = DataByte(x, f)
      BY <1>3, <1>6, Zenon
    <3>2. r.data \in Seq(Byte) /\ DataByte(x, f) \in Byte
      BY <1>1, <1>7
    <3> QED
      BY <3>1, <3>2, RepeatMore
  <2> QED
    BY <1>1, <1>2, <1>3, <2>1, Zenon DEF Kept
<1>9. Kept(r.dctx, r.data) \in Seq(Byte) /\ Len(Kept(r.dctx, r.data)) = k + n
  BY <1>7, <1>8, RepeatType
<1>10. /\ c \in Contexts /\ c.op = f.op /\ c.fin = f.fin /\ c.state = "data"
       /\ c.mask = Masked(x, f) /\ c.length = f.length /\ c.buf = Kept(r.dctx, r.data)
  BY <1>1, <1>9 DEF Contexts
<1> HIDE DEF c
<1>11. s \in Loop /\ s.dctx = c /\ s.data = <<>> /\ s.frames = r.frames
  BY <1>10, Returned
<1>12. Len(c.buf) = k + n
  BY <1>9, <1>10
<1>13. InData(x, c, f)
  <2>1. Len(c.buf) < f.length
    BY <1>4, <1>5, <1>12
  <2> QED
    BY <1>8, <1>10, <1>12, <2>1, Zenon DEF InData
<1>14. p + n = 2 + Ext(f) + Key(x, f) + Len(c.buf)
  <2>1. PICK e \in Nat, y \in Nat : e = Ext(f) /\ y = Key(x, f)
    BY ByteTypes
  <2>2. p = 2 + e + y + k
    BY <1>1, <1>2, <2>1, Zenon
  <2>3. p + n = 2 + e + y + (k + n)
    BY <2>2
  <2> QED
    BY <1>12, <2>1, <2>3, Zenon
<1>15. Stands(x, c, f, p + n)
  BY <1>10, <1>13, <1>14 DEF Stands
<1>16. n \in 0..Len(r.data) /\ Rest(r.data, n) = <<>>
  <2>1. n \in 0..Len(r.data)
    BY <1>3
  <2>2. Rest(r.data, n) \in Seq(Byte) /\ Len(Rest(r.data, n)) = n - n
    BY <1>1, <1>3, <2>1, RestProperties
  <2>3. \A q \in Seq(Byte) : Len(q) = 0 => q = <<>>
    OBVIOUS
  <2> QED
    BY <2>1, <2>2, <2>3
<1>17. Less(s, r)
  BY <1>11 DEF Less
<1> HIDE DEF s
<1>18. Moves(x, f, p, r, s)
  BY <1>11, <1>15, <1>16, <1>17 DEF Moves
<1> QED
  BY <1>18 DEF s, c

\* What is decoded of the payload is the payload, unmasked.
LEMMA Unmasked ==
  ASSUME NEW x \in Ends, NEW f \in Frame, NEW c, c.mask = Masked(x, f),
         c.op = f.op, c.fin = f.fin
  PROVE  [op |-> c.op, fin |-> c.fin, payload |-> Unmask(c, Repeat(DataByte(x, f), f.length))]
           = Meant(f)
<1> DEFINE u == Repeat(DataByte(x, f), f.length)
           v == Repeat(<<"data", f.id, FALSE>>, f.length)
<1>1. DataByte(x, f) \in Byte /\ f.length \in Nat
  BY ByteTypes
<1>2. u \in Seq(Byte) /\ Len(u) = f.length /\ \A i \in 1..f.length : u[i] = DataByte(x, f)
  BY <1>1, RepeatType
<1> HIDE DEF u
<1>3. ASSUME NEW i \in 1..f.length
      PROVE  <<"data", u[i][2], IF c.mask THEN ~u[i][3] ELSE u[i][3]>> = <<"data", f.id, FALSE>>
  <2>1. u[i][2] = f.id /\ u[i][3] = Masked(x, f)
    BY <1>2, <1>3 DEF DataByte
  <2>2. (IF Masked(x, f) THEN ~Masked(x, f) ELSE Masked(x, f)) = FALSE
    BY Zenon DEF Masked
  <2>3. (IF c.mask THEN ~u[i][3] ELSE u[i][3]) = FALSE
    BY <2>1, <2>2, Zenon
  <2> QED
    BY <2>1, <2>3, Zenon
<1>4. Unmask(c, u) = v
  BY <1>2, <1>3, Zenon DEF Unmask, Repeat
<1> QED
  BY <1>4 DEF Meant, u

\* What a frame means to its receiver.
LEMMA MeantType == ASSUME NEW f \in Frame PROVE Meant(f) \in Given
<1>1. f.op \in Ops /\ f.fin \in BOOLEAN /\ f.id \in Nat /\ f.length \in Nat
  BY DEF Frame
<1>2. <<"data", f.id, FALSE>> \in Byte
  <2> DEFINE B == Ops \cup BOOLEAN \cup Nat
             C == BOOLEAN \cup Nat
  <2>1. \A a \in Kinds, b \in B, c \in C : <<a, b, c>> \in Kinds \X B \X C
    OBVIOUS
  <2>2. "data" \in Kinds
    BY DEF Kinds
  <2>3. f.id \in B /\ FALSE \in C
    BY <1>1
  <2>4. Byte = Kinds \X B \X C
    BY DEF Byte
  <2> HIDE DEF B, C
  <2> QED
    BY <2>1, <2>2, <2>3, <2>4, Zenon
<1>3. Repeat(<<"data", f.id, FALSE>>, f.length) \in Seq(Byte)
  BY <1>1, <1>2, RepeatType
<1> QED
  BY <1>1, <1>3 DEF Meant, Given

\* The decoder between frames.
LEMMA FreshType == Fresh \in Contexts /\ Fresh.state = "hdr1"
<1>1. <<>> \in Seq(Byte) /\ 0 \in Nat /\ TRUE \in BOOLEAN /\ FALSE \in BOOLEAN
  OBVIOUS
<1> QED
  BY <1>1 DEF Fresh, Contexts

\* The round that completes a frame: it is the one sent.
LEMMA YieldRound ==
  ASSUME NEW x \in Ends, NEW f \in Frame, NEW p \in Nat, NEW r \in Loop, r.data # <<>>,
         Stands(x, r.dctx, f, p), Ahead(x, f, p, r.data), r.dctx.state = "data",
         HasPayload(r.dctx, r.data)
  PROVE  Completes(x, f, p, r, Yields(r))
<1> DEFINE need == r.dctx.length - Len(r.dctx.buf)
           whole == r.dctx.buf \o SubSeq(r.data, 1, need)
           y == [r EXCEPT !.frames = Append(@, [op |-> r.dctx.op, fin |-> r.dctx.fin,
                                                payload |-> Unmask(r.dctx, whole)])]
<1>1. /\ p = 2 + Ext(f) + Key(x, f) + Len(r.dctx.buf) /\ r.dctx \in Contexts
      /\ r.data \in Seq(Byte) /\ r.frames \in Seq(Given) /\ r.dctx.buf \in Seq(Byte)
      /\ r.dctx.op = f.op /\ r.dctx.fin = f.fin /\ r.dctx.mask = Masked(x, f)
      /\ r.dctx.length = f.length
      /\ r.dctx.buf = Repeat(DataByte(x, f), Len(r.dctx.buf))
  BY LoopTypes DEF Stands, InData, Contexts
<1>2. PICK k \in Nat : k = Len(r.dctx.buf)
  <2>1. Len(r.dctx.buf) \in Nat
    BY <1>1, LenProperties
  <2> QED
    BY <2>1
<1>3. PICK m \in Nat : m = Len(r.data)
  BY LoopTypes
<1>4. PICK l \in Nat : l = f.length
  BY ByteTypes
<1>5. k <= l
  <2>1. k < l \/ (l = 0 /\ k = 0)
    BY <1>2, <1>4, Zenon DEF Stands, InData
  <2> QED
    BY <2>1
<1>6. PICK n \in Nat : n = l - k /\ n <= m /\ n = need
  <2>1. l - k \in Nat
    BY <1>5
  <2>2. l - k <= m /\ l - k = need
    BY <1>1, <1>2, <1>3, <1>4, Zenon DEF HasPayload
  <2> QED
    BY <2>1, <2>2
<1>7. n \in 0..Len(r.data)
  BY <1>3, <1>6
<1>8. DataByte(x, f) \in Byte /\ k + n = l
  BY <1>6, ByteTypes
<1>9. whole = Repeat(DataByte(x, f), f.length)
  <2> DEFINE e == SubSeq(r.data, 1, n)
  <2>1. e \in Seq(Byte) /\ Len(e) = n /\ \A j \in 1..n : e[j] = r.data[j]
    BY <1>1, <1>7, FirstOf
  <2> HIDE DEF e
  <2>2. ASSUME NEW j \in 1..n PROVE e[j] = DataByte(x, f)
    <3>1. k + j <= l /\ j \in 1..m
      BY <1>6
    <3>2. k + j <= f.length /\ j \in 1..Len(r.data) /\ p = 2 + Ext(f) + Key(x, f) + k
      BY <1>1, <1>2, <1>3, <1>4, <3>1, Zenon
    <3>3. r.data[j] = DataByte(x, f)
      BY <1>1, <3>2, PayloadAhead
    <3> QED
      BY <2>1, <3>3
  <2>3. \A j \in 1..Len(e) : e[j] = DataByte(x, f)
    BY <2>1, <2>2
  <2>4. Repeat(DataByte(x, f), k) \o e = Repeat(DataByte(x, f), k + Len(e))
    <3>1. e \in Seq(Byte) /\ DataByte(x, f) \in Byte
      BY <1>8, <2>1
    <3> QED
      BY <2>3, <3>1, RepeatMore
  <2>5. whole = Repeat(DataByte(x, f), k) \o e
    BY <1>1, <1>2, <1>6, Zenon DEF e
  <2> QED
    BY <1>4, <1>8, <2>1, <2>4, <2>5, Zenon
<1>10. y.frames = Append(r.frames, Meant(f)) /\ y \in Loop /\ y.dctx = r.dctx /\ y.data = r.data
  <2>1. [op |-> r.dctx.op, fin |-> r.dctx.fin, payload |-> Unmask(r.dctx, whole)] = Meant(f)
    <3> HIDE DEF whole
    <3>1. [op |-> r.dctx.op, fin |-> r.dctx.fin,
           payload |-> Unmask(r.dctx, Repeat(DataByte(x, f), f.length))] = Meant(f)
      BY <1>1, Unmasked
    <3> QED
      BY <1>9, <3>1, Zenon
  <2>2. y = [r EXCEPT !.frames = Append(@, Meant(f))]
    <3> HIDE DEF whole
    <3> QED
      BY <2>1, Zenon
  <2>3. Append(r.frames, Meant(f)) \in Seq(Given)
    BY <1>1, MeantType, AppendProperties
  <2> HIDE DEF y
  <2> QED
    BY <2>2, <2>3 DEF Loop
<1>11. CASE f.op = "close"
  <2> DEFINE c == [r.dctx EXCEPT !.state = "closed"]
             s == Returns(y, c)
  <2>1. Yields(r) = s
    BY <1>1, <1>11, Zenon DEF Yields
  <2>2. c \in Contexts /\ c.state = "closed"
    BY <1>1 DEF Contexts
  <2> HIDE DEF c, y
  <2>3. s \in Loop /\ s.dctx = c /\ s.data = <<>> /\ s.frames = y.frames
    BY <1>10, <2>2, Returned
  <2> HIDE DEF s
  <2> QED
    BY <1>10, <1>11, <2>1, <2>2, <2>3 DEF Completes, Less
<1>12. CASE f.op # "close"
  <2> DEFINE s == GoOn(y, Fresh, n)
  <2>1. Yields(r) = s
    BY <1>1, <1>6, <1>12, Zenon DEF Yields
  <2> HIDE DEF y
  <2>2. s \in Loop /\ s.dctx = Fresh /\ s.data = Rest(r.data, n) /\ s.frames = y.frames
    BY <1>7, <1>10, FreshType, GoesOn
  <2> HIDE DEF s
  <2>3. p + n = EncLen(x, f)
    <3>1. PICK e \in Nat, z \in Nat : e = Ext(f) /\ z = Key(x, f)
      BY ByteTypes
    <3>2. p = 2 + e + z + k /\ EncLen(x, f) = 2 + e + z + l
      BY <1>1, <1>2, <1>4, <3>1, Zenon DEF EncLen
    <3>3. k + n = l
      BY <1>8
    <3>4. (2 + e + z + k) + n = 2 + e + z + l
      BY <3>3
    <3> QED
      BY <3>2, <3>4, Zenon
  <2>4. Less(s, r)
    <3>1. Len(s.data) = m - n
      BY <1>1, <1>3, <1>7, <2>2, RestProperties
    <3>2. Rank(s.dctx) = 0 /\ Rank(r.dctx) = 1
      BY <2>2, FreshType DEF Rank
    <3> QED
      BY <1>3, <1>6, <3>1, <3>2 DEF Less
  <2> QED
    BY <1>7, <1>10, <1>12, <2>1, <2>2, <2>3, <2>4 DEF Completes
<1> QED
  BY <1>11, <1>12

\* A round on the bytes of a frame takes some of them, or completes the frame.
LEMMA RoundGoesOn ==
  ASSUME NEW x \in Ends, NEW f \in Frame, NEW p \in Nat, NEW r \in Loop, r.data # <<>>,
         Stands(x, r.dctx, f, p), Ahead(x, f, p, r.data)
  PROVE  Moves(x, f, p, r, Round(Peer(x), r)) \/ Completes(x, f, p, r, Round(Peer(x), r))
<1>1. r.dctx.state \in {"hdr1", "hdr2", "hdrex", "maskey", "data"}
  BY DEF Stands
<1>2. CASE r.dctx.state = "hdr1"
  <2>1. Round(Peer(x), r) = ReadHdr1(r)
    BY <1>2 DEF Round
  <2> QED
    BY <1>2, <2>1, Hdr1Round
<1>3. CASE r.dctx.state = "hdr2"
  <2>1. Round(Peer(x), r) = ReadHdr2(r)
    BY <1>3 DEF Round
  <2> QED
    BY <1>3, <2>1, Hdr2Round
<1>4. CASE r.dctx.state = "hdrex"
  <2>1. Round(Peer(x), r) = IF r.dctx.plen < LongLen THEN Short(r) ELSE ReadExt(r)
    BY <1>4 DEF Round
  <2>2. CASE r.dctx.plen < LongLen
    BY <1>4, <2>1, <2>2, ShortRound
  <2>3. CASE ~(r.dctx.plen < LongLen)
    BY <1>4, <2>1, <2>3, ExtRound
  <2> QED
    BY <2>2, <2>3
<1>5. CASE r.dctx.state = "maskey"
  <2>1. ~WrongMask(Peer(x), r.dctx)
    <3>1. r.dctx.mask = Masked(x, f) /\ r.dctx.length = f.length
      BY <1>5 DEF Stands
    <3> QED
      BY <3>1 DEF WrongMask, Masked, Peer, Ends
  <2>2. Round(Peer(x), r) = IF r.dctx.mask THEN ReadKey(r) ELSE NoKey(r)
    BY <1>5, <2>1 DEF Round
  <2>3. CASE r.dctx.mask
    BY <1>5, <2>2, <2>3, KeyRound
  <2>4. CASE ~r.dctx.mask
    BY <1>5, <2>2, <2>4, NoKeyRound
  <2> QED
    BY <2>3, <2>4
<1>6. CASE r.dctx.state = "data"
  <2>1. Round(Peer(x), r) = ReadPayload(r)
    BY <1>6 DEF Round
  <2>2. CASE HasPayload(r.dctx, r.data)
    BY <1>6, <2>1, <2>2, YieldRound DEF ReadPayload
  <2>3. CASE ~HasPayload(r.dctx, r.data)
    <3>1. Round(Peer(x), r) = Returns(r, [r.dctx EXCEPT !.buf = Kept(r.dctx, r.data)])
      BY <2>1, <2>3 DEF ReadPayload
    <3> QED
      BY <1>6, <2>3, <3>1, KeepRound
  <2> QED
    BY <2>2, <2>3
<1> QED
  BY <1>1, <1>2, <1>3, <1>4, <1>5, <1>6

-----------------------------------------------------------------------------
(* What an end sends, as one sequence of bytes, and decodeFrame on a part  *)
(* of it.                                                                  *)

Hello(x) == IF x = "client" THEN Request[1] ELSE Response[1]

\* S is the upgrade message of x and the frames that it said; start tells how many
\* bytes are before each, and before the one to come.
Stream(x, said, S, start) ==
  /\ S \in Seq(Byte) /\ start \in [1..(Len(said) + 1) -> Nat]
  /\ start[1] = 1 /\ S[1] = Hello(x) /\ Len(S) = start[Len(said) + 1]
  /\ \A i \in 1..Len(said) :
       /\ start[i + 1] = start[i] + EncLen(x, said[i])
       /\ \A k \in 1..EncLen(x, said[i]) : S[start[i] + k] = ByteOf(x, said[i], k)
  /\ \A i, j \in 1..(Len(said) + 1) : i <= j => start[i] <= start[j]

\* A decoder that was given P bytes of S, and yielded m frames of them.
Standing(x, said, start, m, c, P) ==
  \/ c.state = "closed" /\ m \in 1..Len(said) /\ said[m].op = "close"
  \/ m < Len(said) /\ start[m + 1] <= P /\ Stands(x, c, said[m + 1], P - start[m + 1])
  \/ m = Len(said) /\ c.state = "hdr1" /\ P = start[m + 1]

\* A decoder at work on the bytes up to E, which had yielded m frames before.
Working(x, said, S, start, m, E, r) ==
  /\ r \in Loop /\ Len(r.data) <= E /\ m + Len(r.frames) <= Len(said)
  /\ \A j \in 1..Len(r.frames) : r.frames[j] = Meant(said[m + j])
  /\ Standing(x, said, start, m + Len(r.frames), r.dctx, E - Len(r.data))
  /\ IF r.dctx.state = "closed" THEN r.data = <<>> /\ r.frames # <<>>
     ELSE \A j \in 1..Len(r.data) : r.data[j] = S[E - Len(r.data) + j]

\* A round on a stream of frames: the decoder stands behind what it has taken, the
\* frames it yields are the next ones said, and the input or the rank is less.
LEMMA WorkStep ==
  ASSUME NEW x \in Ends, NEW said \in Seq(Frame), NEW S, NEW start, Stream(x, said, S, start),
         NEW m \in Nat, NEW E \in Nat, E <= Len(S),
         NEW r, Working(x, said, S, start, m, E, r), r.data # <<>>
  PROVE  /\ Working(x, said, S, start, m, E, Round(Peer(x), r))
         /\ Less(Round(Peer(x), r), r)
<1> DEFINE s == Round(Peer(x), r)
<1>1. r \in Loop /\ r.data \in Seq(Byte) /\ r.frames \in Seq(Given) /\ r.dctx.state # "closed"
  BY LoopTypes DEF Working
<1>2. PICK l \in Nat : l = Len(r.data) /\ l >= 1 /\ l <= E
  BY <1>1, LoopTypes DEF Working
<1>3. PICK g \in Nat : g = Len(r.frames)
  BY <1>1, LenProperties
<1>4. PICK N \in Nat : N = Len(said)
  BY LenProperties
<1>5. PICK P \in Nat : P = E - l
  <2>1. l <= E
    BY <1>2
  <2>2. E - l \in Nat
    BY <2>1
  <2> QED
    BY <2>2
<1>6. PICK q \in Nat : q = m + g /\ q <= N
  BY <1>3, <1>4 DEF Working
<1>7. /\ S \in Seq(Byte) /\ start \in [1..(N + 1) -> Nat] /\ Len(S) = start[N + 1]
      /\ \A i \in 1..N :
           /\ start[i + 1] = start[i] + EncLen(x, said[i])
           /\ \A k \in 1..EncLen(x, said[i]) : S[start[i] + k] = ByteOf(x, said[i], k)
  BY <1>4, Zenon DEF Stream
<1>8. /\ Standing(x, said, start, q, r.dctx, P)
      /\ \A j \in 1..l : r.data[j] = S[P + j]
      /\ \A j \in 1..g : r.frames[j] = Meant(said[m + j])
  BY <1>1, <1>2, <1>3, <1>5, <1>6, Zenon DEF Working
<1>9. q < N /\ start[q + 1] <= P /\ Stands(x, r.dctx, said[q + 1], P - start[q + 1])
  <2>1. ~(q = N /\ P = start[q + 1])
    <3>1. start[N + 1] \in Nat /\ E <= start[N + 1]
      BY <1>7
    <3> QED
      BY <1>2, <1>5, <3>1
  <2>2. \/ q < N /\ start[q + 1] <= P /\ Stands(x, r.dctx, said[q + 1], P - start[q + 1])
        \/ q = N /\ P = start[q + 1]
    BY <1>1, <1>4, <1>8, Zenon DEF Standing
  <2> QED
    BY <2>1, <2>2, Zenon
<1>10. q + 1 \in 1..N /\ q + 1 \in 1..(N + 1) /\ q + 2 \in 1..(N + 1) /\ (q + 1) + 1 = q + 2
  BY <1>9
<1>11. PICK f \in Frame : f = said[q + 1]
  BY <1>4, <1>10, ElementOfSeq
<1>12. PICK b \in Nat : b = start[q + 1]
  BY <1>7, <1>10
<1>13. PICK p \in Nat : p = P - b
  BY <1>9, <1>12
<1>14. Stands(x, r.dctx, f, p)
  BY <1>9, <1>11, <1>12, <1>13, Zenon
<1>15. /\ start[q + 2] = b + EncLen(x, f)
       /\ \A k \in 1..EncLen(x, f) : S[b + k] = ByteOf(x, f, k)
  BY <1>7, <1>10, <1>11, <1>12
<1>16. EncLen(x, f) \in Nat
  BY ByteTypes
<1>17. Ahead(x, f, p, r.data)
  <2> SUFFICES ASSUME NEW j \in 1..Len(r.data), p + j <= EncLen(x, f)
               PROVE  r.data[j] = ByteOf(x, f, p + j)
    BY DEF Ahead
  <2>1. j \in 1..l /\ j \in Nat /\ j >= 1
    BY <1>2
  <2>2. p + j \in 1..EncLen(x, f) /\ b + (p + j) = P + j
    BY <1>13, <1>16, <2>1
  <2>3. S[b + (p + j)] = ByteOf(x, f, p + j)
    BY <1>15, <2>2
  <2> QED
    BY <1>8, <2>1, <2>2, <2>3
<1>18. Moves(x, f, p, r, s) \/ Completes(x, f, p, r, s)
  BY <1>1, <1>14, <1>17, RoundGoesOn
<1> HIDE DEF s
\* What is left of the input is still the stream's.
<1>19. ASSUME NEW n \in 0..Len(r.data), s.data = Rest(r.data, n)
       PROVE  /\ n \in Nat /\ n <= l /\ Len(s.data) = l - n /\ E - Len(s.data) = P + n
              /\ \A j \in 1..Len(s.data) : s.data[j] = S[E - Len(s.data) + j]
  <2>1. n \in Nat /\ n <= l
    BY <1>2
  <2>2. /\ Len(s.data) = l - n
        /\ \A j \in 1..(l - n) : s.data[j] = r.data[n + j]
    BY <1>1, <1>2, <1>19, RestProperties, ZenonT(60)
  <2>3. E - Len(s.data) = P + n
    BY <1>2, <1>5, <2>1, <2>2
  <2>4. ASSUME NEW j \in 1..(l - n) PROVE s.data[j] = S[P + n + j]
    <3>1. n + j \in 1..l /\ P + (n + j) = P + n + j
      BY <2>1
    <3> QED
      BY <1>8, <2>2, <3>1
  <2> QED
    BY <2>1, <2>2, <2>3, <2>4
<1>20. CASE Moves(x, f, p, r, s)
  <2>1. s \in Loop /\ Less(s, r) /\ s.frames = r.frames
    BY <1>20 DEF Moves
  <2>2. PICK n \in 0..Len(r.data) : Stands(x, s.dctx, f, p + n) /\ s.data = Rest(r.data, n)
    BY <1>20 DEF Moves
  <2>3. /\ n \in Nat /\ n <= l /\ Len(s.data) = l - n /\ E - Len(s.data) = P + n
        /\ \A j \in 1..Len(s.data) : s.data[j] = S[E - Len(s.data) + j]
    BY <1>19, <2>2
  <2>4. b <= P + n /\ (P + n) - b = p + n /\ b <= P
    <3>1. b <= P
      BY <1>9, <1>12
    <3>2. n \in Nat
      BY <2>3
    <3> QED
      BY <1>13, <3>1, <3>2
  <2>5. Standing(x, said, start, q, s.dctx, P + n)
    BY <1>4, <1>9, <1>11, <1>12, <2>2, <2>4, Zenon DEF Standing
  <2>6. s.dctx.state # "closed"
    BY <2>2 DEF Stands
  <2>7. Len(s.data) <= E
    BY <1>2, <2>3
  <2>8. Working(x, said, S, start, m, E, s)
    BY <1>3, <1>4, <1>6, <1>8, <2>1, <2>3, <2>5, <2>6, <2>7, Zenon DEF Working
  <2> QED
    BY <2>1, <2>8 DEF s
<1>21. CASE Completes(x, f, p, r, s)
  <2>1. s \in Loop /\ Less(s, r) /\ s.frames = Append(r.frames, Meant(f))
    BY <1>21 DEF Completes
  <2>2. Len(s.frames) = g + 1 /\ \A j \in 1..(g + 1) : s.frames[j] = Meant(said[m + j])
    <3>1. /\ Len(s.frames) = g + 1 /\ s.frames[g + 1] = Meant(f)
          /\ \A j \in 1..g : s.frames[j] = r.frames[j]
      BY <1>1, <1>3, <2>1, MeantType, AppendProperties
    <3>2. m + (g + 1) = q + 1
      BY <1>6
    <3>3. ASSUME NEW j \in 1..(g + 1) PROVE s.frames[j] = Meant(said[m + j])
      <4>1. CASE j = g + 1
        BY <1>11, <3>1, <3>2, <4>1
      <4>2. CASE j # g + 1
        <5>1. j \in 1..g
          BY <4>2
        <5> QED
          BY <1>8, <3>1, <5>1
      <4> QED
        BY <4>1, <4>2
    <3> QED
      BY <3>1, <3>3
  <2>3. m + Len(s.frames) = q + 1 /\ m + Len(s.frames) <= Len(said)
    BY <1>4, <1>6, <1>9, <2>2
  <2>4. CASE f.op = "close"
    <3>1. s.dctx.state = "closed" /\ s.data = <<>> /\ s.frames # <<>>
      <4>1. s.dctx.state = "closed" /\ s.data = <<>>
        BY <1>21, <2>4 DEF Completes
      <4>2. Len(s.frames) >= 1
        BY <2>2
      <4>3. Len(<<>>) = 0
        OBVIOUS
      <4> QED
        BY <4>1, <4>2, <4>3
    <3>2. Len(s.data) <= E
      BY <3>1
    <3>3. Standing(x, said, start, q + 1, s.dctx, E - Len(s.data))
      BY <1>4, <1>10, <1>11, <2>4, <3>1, Zenon DEF Standing
    <3>4. Working(x, said, S, start, m, E, s)
      BY <2>1, <2>2, <2>3, <3>1, <3>2, <3>3, Zenon DEF Working
    <3> QED
      BY <2>1, <3>4 DEF s
  <2>5. CASE f.op # "close"
    <3>1. PICK n \in 0..Len(r.data) : p + n = EncLen(x, f) /\ s.data = Rest(r.data, n)
      BY <1>21, <2>5 DEF Completes
    <3>2. s.dctx = Fresh /\ s.dctx.state = "hdr1"
      BY <1>21, <2>5, FreshType DEF Completes
    <3>3. /\ n \in Nat /\ n <= l /\ Len(s.data) = l - n /\ E - Len(s.data) = P + n
          /\ \A j \in 1..Len(s.data) : s.data[j] = S[E - Len(s.data) + j]
      BY <1>19, <3>1
    <3>4. P + n = start[q + 2]
      <4>1. P = b + p
        BY <1>9, <1>12, <1>13
      <4>2. (b + p) + n = b + (p + n)
        BY <3>3
      <4> QED
        BY <1>15, <3>1, <4>1, <4>2
    <3>5. Standing(x, said, start, q + 1, s.dctx, P + n)
      <4>1. CASE q + 1 = N
        <5>1. start[(q + 1) + 1] = P + n
          BY <1>10, <3>4
        <5> QED
          BY <1>4, <3>2, <4>1, <5>1, Zenon DEF Standing
      <4>2. CASE q + 1 # N
        <5>1. q + 1 < N
          BY <1>9, <4>2
        <5>2. start[(q + 1) + 1] <= P + n /\ (P + n) - start[(q + 1) + 1] = 0
          BY <1>5, <1>10, <3>3, <3>4
        <5>3. Stands(x, s.dctx, said[(q + 1) + 1], 0)
          BY <3>2 DEF Stands
        <5> QED
          BY <1>4, <5>1, <5>2, <5>3, Zenon DEF Standing
      <4> QED
        BY <4>1, <4>2
    <3>6. Len(s.data) <= E /\ s.dctx.state # "closed"
      BY <1>2, <3>2, <3>3
    <3>7. Working(x, said, S, start, m, E, s)
      BY <2>1, <2>2, <2>3, <3>3, <3>5, <3>6, Zenon DEF Working
    <3> QED
      BY <2>1, <3>7 DEF s
  <2> QED
    BY <2>4, <2>5
<1> QED
  BY <1>18, <1>20, <1>21

\* A read, decoded: the rounds are enough, and the decoder stands behind all of it.
LEMMA DecodeRight ==
  ASSUME NEW x \in Ends, NEW said \in Seq(Frame), NEW S, NEW start, Stream(x, said, S, start),
         NEW m \in Nat, m <= Len(said), NEW R \in Nat,
         NEW c \in Contexts, c.state # "closed", Standing(x, said, start, m, c, R),
         NEW d \in Seq(Byte), R + Len(d) <= Len(S), \A j \in 1..Len(d) : d[j] = S[R + j]
  PROVE  /\ Working(x, said, S, start, m, R + Len(d), Decode(Peer(x), c, d))
         /\ Decode(Peer(x), c, d).data = <<>>
<1>1. PICK l \in Nat : l = Len(d)
  BY LenProperties
<1>2. PICK E \in Nat : E = R + l
  OBVIOUS
<1>3. PICK n \in Nat : n = 3 * l + 3
  OBVIOUS
<1> DEFINE first == Begin(c, d)
<1>4. PICK run : /\ run[0] = first /\ Decode(Peer(x), c, d) = run[n]
                 /\ \A i \in 1..n : run[i] = Round(Peer(x), run[i - 1])
  <2>1. n = 3 * Len(d) + 3
    BY <1>1, <1>3
  <2>2. PICK run : IsDecoding(Peer(x), c, d, n, run)
    BY <2>1, DecodeRounds
  <2> QED
    BY <2>2, Zenon DEF IsDecoding
<1>5. E <= Len(S)
  BY <1>1, <1>2
<1> DEFINE Good(i) == /\ Working(x, said, S, start, m, E, run[i])
                      /\ run[i].data = <<>> \/ 3 * Len(run[i].data) + Rank(run[i].dctx) + i <= n
           T == {i \in 0..n : Good(i)}
<1>6. Good(0)
  <2>1. /\ first \in Loop /\ first.dctx = c /\ first.data = d /\ first.frames = <<>>
    <3>1. <<>> \in Seq(Given)
      OBVIOUS
    <3> QED
      BY <3>1 DEF Loop, Begin
  <2>2. Len(<<>>) = 0 /\ m + 0 = m /\ E - l = R /\ l <= E /\ R + l = E
    BY <1>2
  <2> HIDE DEF first
  <2>3. Working(x, said, S, start, m, E, first)
    <3>1. \A j \in 1..Len(first.frames) : first.frames[j] = Meant(said[m + j])
      BY <2>1, <2>2
    <3>2. \A j \in 1..Len(first.data) : first.data[j] = S[E - Len(first.data) + j]
      BY <1>1, <2>1, <2>2, Zenon
    <3>3. Standing(x, said, start, m + Len(first.frames), first.dctx, E - Len(first.data))
      BY <1>1, <2>1, <2>2, Zenon
    <3> QED
      BY <1>1, <2>1, <2>2, <3>1, <3>2, <3>3, Zenon DEF Working
  <2>4. 3 * Len(first.data) + Rank(first.dctx) + 0 <= n
    <3>1. Rank(c) \in 0..3
      BY DEF Rank
    <3>2. 3 * l + Rank(c) + 0 <= n
      BY <1>3, <3>1
    <3> QED
      BY <1>1, <2>1, <3>2, Zenon
  <2> QED
    BY <1>4, <2>3, <2>4, Zenon
<1>7. ASSUME NEW i \in 0..n, i < n, Good(i) PROVE Good(i + 1)
  <2>1. run[i + 1] = Round(Peer(x), run[i])
    <3>1. i + 1 \in 1..n /\ (i + 1) - 1 = i
      BY <1>7
    <3> QED
      BY <1>4, <3>1
  <2>2. CASE run[i].data = <<>>
    <3>1. run[i + 1] = run[i]
      BY <2>1, <2>2 DEF Round
    <3> QED
      BY <1>7, <2>2, <3>1, Zenon
  <2>3. CASE run[i].data # <<>>
    <3>1. /\ Working(x, said, S, start, m, E, run[i + 1])
          /\ Less(run[i + 1], run[i])
      BY <1>5, <1>7, <2>1, <2>3, WorkStep
    <3>2. PICK a \in Nat : a = 3 * Len(run[i].data) + Rank(run[i].dctx)
      <4>1. run[i].data \in Seq(Byte)
        BY <1>7 DEF Working, Loop
      <4>2. Len(run[i].data) \in Nat /\ Rank(run[i].dctx) \in 0..3
        BY <4>1, LenProperties DEF Rank
      <4>3. PICK u \in Nat, v \in Nat : u = Len(run[i].data) /\ v = Rank(run[i].dctx)
        <5>1. Rank(run[i].dctx) \in Nat
          BY <4>2, SMTT(60)
        <5>2. \A a \in Nat, b \in Nat : \E u \in Nat, v \in Nat : u = a /\ v = b
          BY Zenon
        <5> QED
          BY <4>2, <5>1, <5>2, Zenon
      <4>4. 3 * u + v \in Nat
        OBVIOUS
      <4> QED
        BY <4>3, <4>4, Zenon
    <3>3. PICK b \in Nat : b = 3 * Len(run[i + 1].data) + Rank(run[i + 1].dctx)
      <4>1. run[i + 1].data \in Seq(Byte)
        BY <3>1 DEF Working, Loop
      <4>2. Len(run[i + 1].data) \in Nat /\ Rank(run[i + 1].dctx) \in 0..3
        BY <4>1, LenProperties DEF Rank
      <4>3. PICK u \in Nat, v \in Nat : u = Len(run[i + 1].data) /\ v = Rank(run[i + 1].dctx)
        BY <4>2
      <4>4. 3 * u + v \in Nat
        OBVIOUS
      <4> QED
        BY <4>3, <4>4, Zenon
    <3>4. a + i <= n
      BY <1>7, <2>3, <3>2, Zenon
    <3>5. CASE run[i + 1].data = <<>>
      BY <3>1, <3>5, Zenon
    <3>6. CASE b < a
      <4>1. b + (i + 1) <= n
        BY <3>4, <3>6
      <4>2. 3 * Len(run[i + 1].data) + Rank(run[i + 1].dctx) + (i + 1) <= n
        BY <3>3, <4>1, Zenon
      <4> QED
        BY <3>1, <4>2, Zenon
    <3>7. run[i + 1].data = <<>> \/ b < a
      BY <3>1, <3>2, <3>3, Zenon DEF Less
    <3> QED
      BY <3>5, <3>6, <3>7
  <2> QED
    BY <2>2, <2>3
<1>8. Good(n)
  <2> HIDE DEF Good
  <2>1. 0 \in T
    BY <1>6
  <2>2. T \in SUBSET (0..n) /\ \A i \in 0..n : i < n /\ i \in T => i + 1 \in T
    BY <1>7
  <2>3. T = 0..n
    <3> HIDE DEF T
    <3> QED
      BY <2>1, <2>2, Upward
  <2> QED
    BY <2>3
<1>9. run[n].data = <<>>
  <2>1. run[n].data \in Seq(Byte)
    BY <1>8 DEF Working, Loop
  <2>2. Rank(run[n].dctx) \in 0..3
    BY DEF Rank
  <2>3. PICK a \in Nat : a = Len(run[n].data)
    BY <2>1, LenProperties
  <2>4. CASE 3 * Len(run[n].data) + Rank(run[n].dctx) + n <= n
    <3>1. 3 * a + Rank(run[n].dctx) + n <= n
      BY <2>3, <2>4, Zenon
    <3>2. a = 0
      BY <2>2, <3>1
    <3>3. \A q \in Seq(Byte) : Len(q) = 0 => q = <<>>
      OBVIOUS
    <3> QED
      BY <2>1, <2>3, <3>2, <3>3
  <2> QED
    BY <1>8, <2>4
<1> QED
  <2>1. E = R + Len(d)
    BY <1>1, <1>2
  <2> QED
    BY <1>4, <1>8, <1>9, <2>1, Zenon

-----------------------------------------------------------------------------
(* The bytes on their way from one end to the other.                       *)

EndType ==
  [state : {"connecting", "idle", "upgrading", "open", "closed", "error"},
   handler : {"handshake", "open", "error"}, dctx : Contexts, fragmented : BOOLEAN,
   up : BOOLEAN, buffer : Seq(Byte), armed : BOOLEAN, wire : Seq(Byte), sent : Nat,
   said : Seq(Frame)]

\* Of S, R bytes were read; the rest is on the wire and, while the socket is there, in
\* the send buffer.
Carries(e, S, R) ==
  /\ R \in Nat /\ R + Len(e.wire) <= Len(S)
  /\ \A j \in 1..Len(e.wire) : e.wire[j] = S[R + j]
  /\ e.up => /\ R + Len(e.wire) + Len(e.buffer) = Len(S)
             /\ \A j \in 1..Len(e.buffer) : e.buffer[j] = S[R + Len(e.wire) + j]

\* What the peer g made of these R bytes.
Heard(x, g, heard, said, start, R) ==
  /\ g.handler \in {"handshake", "open"}
  /\ g.handler = "handshake" => R = 0 /\ heard = <<>> /\ g.dctx = Fresh
  /\ g.handler = "open" => R >= 1 /\ Standing(x, said, start, Len(heard), g.dctx, R)
  /\ g.up => g.dctx.state # "closed"
  /\ heard \in Seq(Given) /\ Len(heard) <= Len(said)
  /\ \A i \in 1..Len(heard) : heard[i] = Meant(said[i])

Joins(x, e, g, heard, S, start, R) ==
  Stream(x, e.said, S, start) /\ Carries(e, S, R) /\ Heard(x, g, heard, e.said, start, R)
InStep(x, e, g, heard) == \E S, start, R : Joins(x, e, g, heard, S, start, R)

\* What an end does keeps its peer in step.
Onward(x, e, e2) == \A g, heard : InStep(x, e, g, heard) => InStep(x, e2, g, heard)

\* A step that leaves the wire, the buffer and what was said.
LEMMA SameWire ==
  ASSUME NEW x, NEW e, NEW e2, e2.wire = e.wire, e2.buffer = e.buffer, e2.said = e.said,
         e2.up => e.up
  PROVE  Onward(x, e, e2)
<1> SUFFICES ASSUME NEW g, NEW heard, InStep(x, e, g, heard) PROVE InStep(x, e2, g, heard)
  BY DEF Onward
<1>1. PICK S, start, R : Joins(x, e, g, heard, S, start, R)
  BY DEF InStep
<1>2. Carries(e2, S, R)
  BY <1>1, Zenon DEF Joins, Carries
<1>3. Joins(x, e2, g, heard, S, start, R)
  BY <1>1, <1>2, Zenon DEF Joins
<1> QED
  BY <1>3 DEF InStep

\* clean, and whatever else leaves only the wire.
LEMMA CutWire ==
  ASSUME NEW x, NEW e, NEW e2, e2.wire = e.wire, e2.said = e.said, ~e2.up
  PROVE  Onward(x, e, e2)
<1> SUFFICES ASSUME NEW g, NEW heard, InStep(x, e, g, heard) PROVE InStep(x, e2, g, heard)
  BY DEF Onward
<1>1. PICK S, start, R : Joins(x, e, g, heard, S, start, R)
  BY DEF InStep
<1>2. Carries(e2, S, R)
  BY <1>1, Zenon DEF Joins, Carries
<1>3. Joins(x, e2, g, heard, S, start, R)
  BY <1>1, <1>2, Zenon DEF Joins
<1> QED
  BY <1>3 DEF InStep

\* The first n elements of a sequence.
LEMMA TakeProperties ==
  ASSUME NEW S, NEW d \in Seq(S), NEW n \in 0..Len(d)
  PROVE  /\ SubSeq(d, 1, n) \in Seq(S) /\ Len(SubSeq(d, 1, n)) = n
         /\ \A j \in 1..n : SubSeq(d, 1, n)[j] = d[j]
<1>1. PICK l \in Nat : l = Len(d)
  BY LenProperties
<1>2. n \in Nat /\ n <= l /\ 1 \in Int /\ n \in Int
  BY <1>1
<1>3. \A i \in 1..n : d[i] \in S
  <2>1. \A i \in 1..n : i \in 1..Len(d)
    BY <1>1, <1>2
  <2> QED
    BY <2>1, ElementOfSeq
<1>4. /\ SubSeq(d, 1, n) \in Seq(S)
      /\ Len(SubSeq(d, 1, n)) = IF 1 <= n THEN n - 1 + 1 ELSE 0
      /\ \A i \in 1..(n - 1 + 1) : SubSeq(d, 1, n)[i] = d[1 + i - 1]
  BY <1>2, <1>3, SubSeqProperties
<1>5. (IF 1 <= n THEN n - 1 + 1 ELSE 0) = n /\ n - 1 + 1 = n /\ \A i \in 1..n : 1 + i - 1 = i
  BY <1>2
<1> QED
  BY <1>4, <1>5

\* A part of the send buffer goes to the wire.
Flushed(e, e2, n) ==
  /\ e2.wire = e.wire \o SubSeq(e.buffer, 1, n) /\ e2.buffer = Rest(e.buffer, n)
  /\ e2.said = e.said /\ e2.up = e.up

\* n bytes of the send buffer move to the wire.
LEMMA FlushTypes ==
  ASSUME NEW e, e.wire \in Seq(Byte), e.buffer \in Seq(Byte), NEW n \in 0..Len(e.buffer),
         NEW e2, Flushed(e, e2, n)
  PROVE  /\ e2.wire \in Seq(Byte) /\ e2.buffer \in Seq(Byte)
         /\ Len(e2.wire) = Len(e.wire) + n /\ Len(e2.buffer) = Len(e.buffer) - n
         /\ \A j \in 1..Len(e.wire) : e2.wire[j] = e.wire[j]
         /\ \A j \in 1..n : e2.wire[Len(e.wire) + j] = e.buffer[j]
         /\ \A j \in 1..(Len(e.buffer) - n) : e2.buffer[j] = e.buffer[n + j]
<1> DEFINE t == SubSeq(e.buffer, 1, n)
<1>1. t \in Seq(Byte) /\ Len(t) = n /\ \A j \in 1..n : t[j] = e.buffer[j]
  BY TakeProperties
<1>2. /\ Rest(e.buffer, n) \in Seq(Byte) /\ Len(Rest(e.buffer, n)) = Len(e.buffer) - n
      /\ \A j \in 1..(Len(e.buffer) - n) : Rest(e.buffer, n)[j] = e.buffer[n + j]
  BY RestProperties
<1>3. e2.wire = e.wire \o t /\ e2.buffer = Rest(e.buffer, n)
  BY DEF Flushed
<1> HIDE DEF t
<1>4. PICK w \in Nat : w = Len(e.wire)
  BY LenProperties
<1>5. /\ e.wire \o t \in Seq(Byte) /\ Len(e.wire \o t) = Len(e.wire) + Len(t)
      /\ \A i \in 1..(Len(e.wire) + Len(t)) :
           (e.wire \o t)[i] = IF i <= Len(e.wire) THEN e.wire[i] ELSE t[i - Len(e.wire)]
  BY <1>1, ConcatProperties, ZenonT(60)
<1>6. /\ e2.wire \in Seq(Byte) /\ Len(e2.wire) = w + n
      /\ \A i \in 1..(w + n) : e2.wire[i] = IF i <= w THEN e.wire[i] ELSE t[i - w]
  BY <1>1, <1>3, <1>4, <1>5, Zenon
<1>7. n \in Nat
  OBVIOUS
<1>8. ASSUME NEW j \in 1..w PROVE e2.wire[j] = e.wire[j]
  <2>1. j \in 1..(w + n) /\ j <= w
    BY <1>7
  <2> QED
    BY <1>6, <2>1
<1>9. ASSUME NEW j \in 1..n PROVE e2.wire[w + j] = e.buffer[j]
  <2>1. w + j \in 1..(w + n) /\ ~(w + j <= w) /\ (w + j) - w = j
    BY <1>7
  <2>2. e2.wire[w + j] = t[(w + j) - w]
    BY <1>6, <2>1
  <2> QED
    BY <1>1, <2>1, <2>2
<1> QED
  BY <1>2, <1>3, <1>4, <1>6, <1>8, <1>9

\* The send buffer is flushed: the peer stays in step.
LEMMA FlushKeeps ==
  ASSUME NEW x, NEW e, e.wire \in Seq(Byte), e.buffer \in Seq(Byte), e.up,
         NEW n \in 0..Len(e.buffer), NEW e2, Flushed(e, e2, n)
  PROVE  Onward(x, e, e2)
<1> SUFFICES ASSUME NEW g, NEW heard, InStep(x, e, g, heard) PROVE InStep(x, e2, g, heard)
  BY DEF Onward
<1>1. PICK S, start, R : Joins(x, e, g, heard, S, start, R)
  BY DEF InStep
<1>2. PICK w \in Nat, b \in Nat : w = Len(e.wire) /\ b = Len(e.buffer)
  BY LenProperties
<1>3. /\ Len(e2.wire) = w + n /\ Len(e2.buffer) = b - n
      /\ \A j \in 1..w : e2.wire[j] = e.wire[j]
      /\ \A j \in 1..n : e2.wire[w + j] = e.buffer[j]
      /\ \A j \in 1..(b - n) : e2.buffer[j] = e.buffer[n + j]
  BY <1>2, FlushTypes
<1>4. /\ R \in Nat /\ R + w + b = Len(S) /\ n \in Nat /\ n <= b
      /\ \A j \in 1..w : e.wire[j] = S[R + j]
      /\ \A j \in 1..b : e.buffer[j] = S[R + w + j]
  <2>1. n \in Nat /\ n <= b
    BY <1>2
  <2>2. /\ R \in Nat /\ R + w + b = Len(S)
        /\ \A j \in 1..w : e.wire[j] = S[R + j]
        /\ \A j \in 1..b : e.buffer[j] = S[R + w + j]
    BY <1>1, <1>2, Zenon DEF Joins, Carries
  <2> QED
    BY <2>1, <2>2
<1>5. R + (w + n) <= Len(S) /\ R + (w + n) + (b - n) = Len(S)
  BY <1>4, SMTT(60)
<1>6. ASSUME NEW j \in 1..(w + n) PROVE e2.wire[j] = S[R + j]
  <2>1. CASE j <= w
    <3>1. j \in 1..w
      BY <2>1
    <3> QED
      BY <1>3, <1>4, <3>1
  <2>2. CASE ~(j <= w)
    <3>1. PICK i \in Nat : j = w + i
      <4>1. j - w \in Nat /\ j = w + (j - w)
        BY <2>2
      <4> QED
        BY <4>1
    <3>2. i \in 1..n /\ i \in 1..b /\ R + w + i = R + j
      BY <1>4, <2>2, <3>1
    <3>3. e2.wire[w + i] = e.buffer[i] /\ e.buffer[i] = S[R + w + i]
      BY <1>3, <1>4, <3>2
    <3> QED
      BY <3>1, <3>2, <3>3
  <2> QED
    BY <2>1, <2>2
<1>7. ASSUME NEW j \in 1..(b - n) PROVE e2.buffer[j] = S[R + (w + n) + j]
  <2>1. n + j \in 1..b /\ R + w + (n + j) = R + (w + n) + j
    BY <1>4
  <2>2. e2.buffer[j] = e.buffer[n + j] /\ e.buffer[n + j] = S[R + w + (n + j)]
    BY <1>3, <1>4, <2>1
  <2> QED
    BY <2>1, <2>2
<1>8. Carries(e2, S, R)
  BY <1>3, <1>4, <1>5, <1>6, <1>7, Zenon DEF Carries
<1>9. Joins(x, e2, g, heard, S, start, R)
  BY <1>1, <1>8, Zenon DEF Joins, Flushed
<1> QED
  BY <1>9 DEF InStep

\* One more frame said: the stream is longer by its bytes.
Grows(x, said, S, start, f, T, begin) ==
  /\ Stream(x, Append(said, f), T, begin) /\ Len(T) = Len(S) + EncLen(x, f)
  /\ \A j \in 1..Len(S) : T[j] = S[j]
  /\ \A j \in 1..EncLen(x, f) : T[Len(S) + j] = Encode(x, f)[j]
  /\ \A i \in 1..(Len(said) + 1) : begin[i] = start[i]

\* A stream grows by the encoding of a frame.
LEMMA StreamGrows ==
  ASSUME NEW x \in Ends, NEW said \in Seq(Frame), NEW S, NEW start, Stream(x, said, S, start),
         NEW f \in Frame
  PROVE  \E T, begin : Grows(x, said, S, start, f, T, begin)
<1> DEFINE T == S \o Encode(x, f)
           more == Append(said, f)
           begin == [i \in 1..(Len(said) + 2) |->
                       IF i <= Len(said) + 1 THEN start[i] ELSE start[Len(said) + 1] + EncLen(x, f)]
<1>1. PICK N \in Nat : N = Len(said)
  BY LenProperties
<1>2. PICK k \in Nat : k = EncLen(x, f)
  BY ByteTypes
<1>3. /\ S \in Seq(Byte) /\ start \in [1..(N + 1) -> Nat]
      /\ start[1] = 1 /\ S[1] = Hello(x) /\ Len(S) = start[N + 1]
      /\ \A i \in 1..N :
           /\ start[i + 1] = start[i] + EncLen(x, said[i])
           /\ \A n \in 1..EncLen(x, said[i]) : S[start[i] + n] = ByteOf(x, said[i], n)
      /\ \A i, j \in 1..(N + 1) : i <= j => start[i] <= start[j]
  BY <1>1, Zenon DEF Stream
<1>4. PICK l \in Nat : l = Len(S) /\ l = start[N + 1] /\ l >= 1
  <2>1. 1 \in 1..(N + 1) /\ N + 1 \in 1..(N + 1) /\ 1 <= N + 1
    OBVIOUS
  <2>2. start[1] <= start[N + 1] /\ start[N + 1] \in Nat
    BY <1>3, <2>1
  <2> QED
    BY <1>3, <2>2
<1>5. Encode(x, f) \in Seq(Byte) /\ Len(Encode(x, f)) = k
      /\ \A i \in 1..k : Encode(x, f)[i] = ByteOf(x, f, i)
  BY <1>2, EncodeBytes
<1>6. /\ T \in Seq(Byte) /\ Len(T) = l + k
      /\ \A i \in 1..(l + k) : T[i] = IF i <= l THEN S[i] ELSE Encode(x, f)[i - l]
  <2> DEFINE q == Encode(x, f)
  <2>1. S \in Seq(Byte) /\ q \in Seq(Byte) /\ Len(S) = l /\ Len(q) = k
    BY <1>3, <1>4, <1>5
  <2>2. T = S \o q
    OBVIOUS
  <2> HIDE DEF q, T
  <2>3. /\ S \o q \in Seq(Byte) /\ Len(S \o q) = Len(S) + Len(q)
        /\ \A i \in 1..(Len(S) + Len(q)) : (S \o q)[i] = IF i <= Len(S) THEN S[i] ELSE q[i - Len(S)]
    BY <2>1, ConcatProperties
  <2> QED
    BY <2>1, <2>2, <2>3 DEF q
<1> HIDE DEF T
<1>7. \A j \in 1..l : T[j] = S[j]
  <2> SUFFICES ASSUME NEW j \in 1..l PROVE T[j] = S[j]
    OBVIOUS
  <2>1. j \in 1..(l + k) /\ j <= l
    OBVIOUS
  <2> QED
    BY <1>6, <2>1
<1>8. \A j \in 1..k : T[l + j] = Encode(x, f)[j]
  <2> SUFFICES ASSUME NEW j \in 1..k PROVE T[l + j] = Encode(x, f)[j]
    OBVIOUS
  <2>1. l + j \in 1..(l + k) /\ ~(l + j <= l) /\ (l + j) - l = j
    OBVIOUS
  <2>2. T[l + j] = Encode(x, f)[(l + j) - l]
    BY <1>6, <2>1
  <2> QED
    BY <2>1, <2>2
<1>9. /\ more \in Seq(Frame) /\ Len(more) = N + 1 /\ more[N + 1] = f
      /\ \A i \in 1..N : more[i] = said[i]
  BY <1>1, AppendProperties
<1> HIDE DEF more
<1>10. /\ begin \in [1..(N + 2) -> Nat] /\ begin[N + 2] = l + k
       /\ \A i \in 1..(N + 1) : begin[i] = start[i]
  <2>1. begin = [i \in 1..(N + 2) |-> IF i <= N + 1 THEN start[i] ELSE start[N + 1] + k]
    BY <1>1, <1>2
  <2> HIDE DEF begin
  <2>2. ASSUME NEW i \in 1..(N + 2)
        PROVE (IF i <= N + 1 THEN start[i] ELSE start[N + 1] + k) \in Nat
    <3>1. CASE i <= N + 1
      <4>1. i \in 1..(N + 1)
        BY <3>1
      <4> QED
        BY <1>3, <3>1, <4>1
    <3>2. CASE ~(i <= N + 1)
      <4>1. l + k \in Nat
        OBVIOUS
      <4> QED
        BY <1>4, <3>2, <4>1
    <3> QED
      BY <3>1, <3>2
  <2>3. N + 2 \in 1..(N + 2) /\ ~(N + 2 <= N + 1)
    OBVIOUS
  <2>4. begin[N + 2] = l + k
    BY <1>4, <2>1, <2>3
  <2>5. ASSUME NEW i \in 1..(N + 1) PROVE begin[i] = start[i]
    <3>1. i \in 1..(N + 2) /\ i <= N + 1
      OBVIOUS
    <3> QED
      BY <2>1, <3>1
  <2> QED
    BY <2>1, <2>2, <2>4, <2>5
<1> HIDE DEF begin
<1>11. (N + 1) + 1 = N + 2 /\ 1 \in 1..l /\ 1 \in 1..(N + 1) /\ N + 1 \in 1..(N + 1)
  BY <1>4
<1>12. ASSUME NEW i \in 1..(N + 1)
       PROVE  /\ begin[i + 1] = begin[i] + EncLen(x, more[i])
              /\ \A n \in 1..EncLen(x, more[i]) : T[begin[i] + n] = ByteOf(x, more[i], n)
  <2>1. CASE i = N + 1
    <3>1. begin[i] = l /\ begin[i + 1] = l + k /\ more[i] = f
      BY <1>4, <1>9, <1>10, <1>11, <2>1
    <3>2. ASSUME NEW n \in 1..k PROVE T[l + n] = ByteOf(x, f, n)
      BY <1>5, <1>8
    <3> QED
      BY <1>2, <3>1, <3>2
  <2>2. CASE i # N + 1
    <3>1. i \in 1..N /\ i + 1 \in 1..(N + 1)
      BY <2>2
    <3>2. PICK b \in Nat, m \in Nat : b = start[i] /\ m = EncLen(x, said[i])
      <4>1. said[i] \in Frame
        BY <1>1, <3>1, ElementOfSeq
      <4>2. EncLen(x, said[i]) \in Nat
        BY <4>1, ByteTypes
      <4> QED
        BY <1>3, <4>2
    <3>3. more[i] = said[i] /\ begin[i] = b /\ begin[i + 1] = start[i + 1]
      BY <1>9, <1>10, <3>1, <3>2
    <3>4. /\ start[i + 1] = b + m
          /\ \A n \in 1..m : S[b + n] = ByteOf(x, said[i], n)
      BY <1>3, <3>1, <3>2
    <3>5. start[i + 1] <= l
      BY <1>3, <1>4, <1>11, <3>1
    <3>6. ASSUME NEW n \in 1..m PROVE T[b + n] = ByteOf(x, said[i], n)
      <4>1. b + n \in 1..l
        BY <3>4, <3>5
      <4> QED
        BY <1>7, <3>4, <4>1
    <3> QED
      BY <3>2, <3>3, <3>4, <3>6
  <2> QED
    BY <2>1, <2>2
<1>13. ASSUME NEW i \in 1..(N + 2), NEW j \in 1..(N + 2), i <= j PROVE begin[i] <= begin[j]
  <2>1. CASE j <= N + 1
    <3>1. i \in 1..(N + 1) /\ j \in 1..(N + 1)
      BY <1>13, <2>1
    <3> QED
      BY <1>3, <1>10, <1>13, <3>1
  <2>2. CASE ~(j <= N + 1)
    <3>1. j = N + 2 /\ begin[j] = l + k
      BY <1>10, <2>2
    <3>2. CASE i <= N + 1
      <4>1. i \in 1..(N + 1)
        BY <3>2
      <4>2. start[i] <= l /\ start[i] \in Nat
        BY <1>3, <1>4, <1>11, <4>1
      <4> QED
        BY <1>10, <3>1, <4>1, <4>2
    <3>3. CASE ~(i <= N + 1)
      <4>1. i = j
        BY <3>1, <3>3
      <4> QED
        BY <3>1, <4>1
    <3> QED
      BY <3>2, <3>3
  <2> QED
    BY <2>1, <2>2
<1>14. Stream(x, more, T, begin)
  <2>1. begin[1] = 1 /\ T[1] = Hello(x)
    BY <1>3, <1>7, <1>10, <1>11
  <2>2. Len(T) = begin[(N + 1) + 1] /\ begin \in [1..((N + 1) + 1) -> Nat]
    BY <1>6, <1>10, <1>11
  <2>3. \A i, j \in 1..((N + 1) + 1) : i <= j => begin[i] <= begin[j]
    BY <1>11, <1>13
  <2> QED
    BY <1>6, <1>9, <1>12, <2>1, <2>2, <2>3, Zenon DEF Stream
<1>15. Len(T) = l + k
  BY <1>6
<1>16. Grows(x, said, S, start, f, T, begin)
  BY <1>1, <1>2, <1>4, <1>7, <1>8, <1>10, <1>14, <1>15, Zenon DEF more, Grows
<1> QED
  BY <1>16

\* A frame is encoded into the send buffer: the peer stays in step.
LEMMA GrowKeeps ==
  ASSUME NEW x \in Ends, NEW e, e.wire \in Seq(Byte), e.said \in Seq(Frame),
         e.up, e.buffer = <<>>, NEW f \in Frame,
         NEW e2, e2.wire = e.wire, e2.up, e2.buffer = Encode(x, f), e2.said = Append(e.said, f)
  PROVE  Onward(x, e, e2)
<1> SUFFICES ASSUME NEW g, NEW heard, InStep(x, e, g, heard) PROVE InStep(x, e2, g, heard)
  BY DEF Onward
<1>1. PICK S, start, R : Joins(x, e, g, heard, S, start, R)
  BY DEF InStep
<1>2. Stream(x, e.said, S, start) /\ Carries(e, S, R) /\ Heard(x, g, heard, e.said, start, R)
  BY <1>1 DEF Joins
<1>13. PICK T, begin : Grows(x, e.said, S, start, f, T, begin)
  BY <1>2, StreamGrows
<1>3. /\ Stream(x, Append(e.said, f), T, begin) /\ Len(T) = Len(S) + EncLen(x, f)
      /\ \A j \in 1..Len(S) : T[j] = S[j]
      /\ \A j \in 1..EncLen(x, f) : T[Len(S) + j] = Encode(x, f)[j]
      /\ \A i \in 1..(Len(e.said) + 1) : begin[i] = start[i]
  BY <1>13, Zenon DEF Grows
<1>4. PICK N \in Nat, w \in Nat, k \in Nat : N = Len(e.said) /\ w = Len(e.wire) /\ k = EncLen(x, f)
  BY LenProperties, ByteTypes
<1>5. Len(e2.wire) = w /\ Len(e2.buffer) = k
  BY <1>4, EncodeBytes
<1>6. R \in Nat /\ R + w = Len(S) /\ \A j \in 1..w : e.wire[j] = S[R + j]
  <2>1. Len(e.buffer) = 0
    OBVIOUS
  <2>2. /\ R \in Nat /\ R + w + 0 = Len(S)
        /\ \A j \in 1..w : e.wire[j] = S[R + j]
    BY <1>2, <1>4, <2>1, Zenon DEF Carries
  <2> QED
    BY <2>2
<1>7. Carries(e2, T, R)
  <2>1. PICK l \in Nat : l = Len(S) /\ l = R + w
    BY <1>6
  <2>2. R + w <= Len(T) /\ R + w + k = Len(T)
    BY <1>3, <1>4, <2>1
  <2>3. ASSUME NEW j \in 1..w PROVE e2.wire[j] = T[R + j]
    <3>1. R + j \in 1..l
      BY <1>6, <2>1
    <3> QED
      BY <1>3, <1>6, <2>1, <3>1
  <2>4. ASSUME NEW j \in 1..k PROVE e2.buffer[j] = T[R + w + j]
    <3>1. T[l + j] = Encode(x, f)[j]
      BY <1>3, <1>4, <2>1
    <3> QED
      BY <2>1, <3>1
  <2> QED
    BY <1>5, <1>6, <2>2, <2>3, <2>4, Zenon DEF Carries
<1>8. /\ Append(e.said, f) \in Seq(Frame) /\ Len(Append(e.said, f)) = N + 1
      /\ \A i \in 1..N : Append(e.said, f)[i] = e.said[i]
  BY <1>4, AppendProperties
<1>9. PICK m \in Nat : m = Len(heard) /\ m <= N
  <2>1. Len(heard) <= Len(e.said)
    BY <1>2 DEF Heard
  <2>2. heard \in Seq(Given)
    BY <1>2 DEF Heard
  <2>3. Len(heard) \in Nat
    BY <2>2, LenProperties
  <2> QED
    BY <1>4, <2>1, <2>3
<1> DEFINE more == Append(e.said, f)
<1> HIDE DEF more
<1>10. ASSUME Standing(x, e.said, start, m, g.dctx, R)
       PROVE  Standing(x, more, begin, m, g.dctx, R)
  <2>1. CASE g.dctx.state = "closed" /\ m \in 1..N /\ e.said[m].op = "close"
    <3>1. m \in 1..(N + 1) /\ more[m] = e.said[m]
      BY <1>8, <2>1 DEF more
    <3> QED
      BY <1>8, <2>1, <3>1, Zenon DEF Standing, more
  <2>2. CASE m < N /\ start[m + 1] <= R /\ Stands(x, g.dctx, e.said[m + 1], R - start[m + 1])
    <3>1. m + 1 \in 1..N /\ m + 1 \in 1..(N + 1) /\ m < N + 1
      BY <2>2
    <3>2. more[m + 1] = e.said[m + 1] /\ begin[m + 1] = start[m + 1]
      BY <1>3, <1>4, <1>8, <3>1 DEF more
    <3> QED
      BY <1>8, <2>2, <3>1, <3>2, Zenon DEF Standing, more
  <2>3. CASE m = N /\ g.dctx.state = "hdr1" /\ R = start[m + 1]
    <3>1. m + 1 \in 1..(N + 1) /\ m < N + 1
      BY <2>3
    <3>2. begin[m + 1] = R
      BY <1>3, <1>4, <2>3, <3>1
    <3>3. R - R = 0 /\ R <= R
      BY <1>6
    <3>4. Stands(x, g.dctx, more[m + 1], 0)
      BY <2>3 DEF Stands
    <3> QED
      BY <1>8, <3>1, <3>2, <3>3, <3>4, Zenon DEF Standing, more
  <2> QED
    BY <1>4, <1>10, <2>1, <2>2, <2>3, Zenon DEF Standing
<1>11. Heard(x, g, heard, more, begin, R)
  <2>1. /\ g.handler \in {"handshake", "open"} /\ heard \in Seq(Given)
        /\ g.handler = "handshake" => R = 0 /\ heard = <<>> /\ g.dctx = Fresh
        /\ g.handler = "open" => R >= 1 /\ Standing(x, e.said, start, m, g.dctx, R)
        /\ g.up => g.dctx.state # "closed"
        /\ \A i \in 1..m : heard[i] = Meant(e.said[i])
    BY <1>2, <1>9, Zenon DEF Heard
  <2>2. m <= N + 1 /\ \A i \in 1..m : i \in 1..N
    BY <1>9
  <2>3. \A i \in 1..m : heard[i] = Meant(more[i])
    BY <1>8, <2>1, <2>2, Zenon DEF more
  <2> QED
    BY <1>8, <1>9, <1>10, <2>1, <2>2, <2>3, Zenon DEF Heard, more
<1>12. Joins(x, e2, g, heard, T, begin, R)
  BY <1>3, <1>7, <1>11, Zenon DEF Joins, more
<1> QED
  BY <1>12 DEF InStep

\* All elements of a sequence.
LEMMA TakeAll ==
  ASSUME NEW S, NEW d \in Seq(S) PROVE SubSeq(d, 1, Len(d)) = d /\ Rest(d, Len(d)) = <<>>
<1>1. PICK l \in Nat : l = Len(d)
  BY LenProperties
<1>2. l \in 0..Len(d)
  BY <1>1
<1>3. SubSeq(d, 1, l) \in Seq(S) /\ Len(SubSeq(d, 1, l)) = l /\ \A j \in 1..l : SubSeq(d, 1, l)[j] = d[j]
  BY <1>2, TakeProperties
<1>4. SubSeq(d, 1, l) = d
  BY <1>1, <1>3, SeqEqual
<1>5. Rest(d, l) \in Seq(S) /\ Len(Rest(d, l)) = 0
  <2>1. Rest(d, l) \in Seq(S) /\ Len(Rest(d, l)) = Len(d) - l
    BY <1>2, RestProperties
  <2> QED
    BY <1>1, <2>1
<1>6. \A q \in Seq(S) : Len(q) = 0 => q = <<>>
  OBVIOUS
<1> QED
  BY <1>1, <1>4, <1>5, <1>6

\* A step of an end that only sends.
Kin(e, e2) ==
  e2 \in EndType /\ e2.state = e.state /\ e2.handler = e.handler /\ e2.dctx = e.dctx /\ e2.up = e.up

\* Two steps that keep the peer in step.
LEMMA OnwardTwice ==
  ASSUME NEW x, NEW a, NEW b, NEW c, Onward(x, a, b), Onward(x, b, c) PROVE Onward(x, a, c)
BY DEF Onward

\* The fields of an end.
LEMMA EndTypes ==
  ASSUME NEW e \in EndType
  PROVE  /\ e.wire \in Seq(Byte) /\ e.buffer \in Seq(Byte) /\ e.said \in Seq(Frame)
         /\ e.dctx \in Contexts /\ e.sent \in Nat
BY DEF EndType

\* Bytes none of which is an upgrade message.
Wordless(w) == \A i \in 1..Len(w) : w[i][1] \notin {"request", "response"}

\* Nothing is.
LEMMA NoWords == Wordless(<<>>)
<1>1. Len(<<>>) = 0
  OBVIOUS
<1> QED
  BY <1>1 DEF Wordless

\* What is left of such bytes.
LEMMA WordlessRest ==
  ASSUME NEW w \in Seq(Byte), Wordless(w), NEW n \in 0..Len(w) PROVE Wordless(Rest(w, n))
<1>1. PICK l \in Nat : l = Len(w)
  BY LenProperties
<1>2. Len(Rest(w, n)) = l - n /\ \A i \in 1..(l - n) : Rest(w, n)[i] = w[n + i]
  BY <1>1, RestProperties
<1>3. ASSUME NEW i \in 1..Len(Rest(w, n)) PROVE Rest(w, n)[i][1] \notin {"request", "response"}
  <2>1. i \in 1..(l - n) /\ n + i \in 1..l
    BY <1>1, <1>2
  <2> QED
    BY <1>1, <1>2, <2>1 DEF Wordless
<1> QED
  BY <1>3 DEF Wordless

\* sendWsFrame, with nothing buffered.
LEMMA SaysKeeps ==
  ASSUME NEW x \in Ends, NEW e \in EndType, e.up, e.buffer = <<>>, NEW f \in Frame,
         NEW n \in 0..Len(Encode(x, f))
  PROVE  /\ Kin(e, Says(x, e, f, n)) /\ Onward(x, e, Says(x, e, f, n))
         /\ e.wire = <<>> => Wordless(Says(x, e, f, n).wire)
<1> DEFINE a == [e EXCEPT !.said = Append(@, f), !.buffer = Encode(x, f)]
           s == Says(x, e, f, n)
<1>1. /\ e.wire \in Seq(Byte) /\ e.said \in Seq(Frame)
  BY EndTypes
<1>2. Append(e.said, f) \in Seq(Frame)
  BY <1>1, AppendProperties
<1>3. Encode(x, f) \in Seq(Byte)
  BY EncodeBytes
<1>4. /\ a.wire = e.wire /\ a.up = e.up /\ a.buffer = Encode(x, f) /\ a.said = Append(e.said, f)
  BY DEF EndType
<1>5. Onward(x, e, a)
  <2> HIDE DEF a
  <2> QED
    BY <1>1, <1>4, GrowKeeps
<1>6. /\ s = [e EXCEPT !.said = Append(@, f), !.wire = @ \o SubSeq(Encode(x, f), 1, n),
                       !.armed = @ \/ n < Len(Encode(x, f)), !.buffer = Rest(Encode(x, f), n)]
  BY DEF Says, Written, EndType
<1>7. Flushed(a, s, n)
  <2>1. /\ s.wire = e.wire \o SubSeq(Encode(x, f), 1, n) /\ s.buffer = Rest(Encode(x, f), n)
        /\ s.said = Append(e.said, f) /\ s.up = e.up
    BY <1>6 DEF EndType
  <2> HIDE DEF a, s
  <2> QED
    BY <1>4, <2>1 DEF Flushed
<1>8. n \in 0..Len(a.buffer) /\ a.wire \in Seq(Byte) /\ a.buffer \in Seq(Byte) /\ a.up
  BY <1>1, <1>3, <1>4, Zenon
<1>9. Onward(x, a, s)
  <2> HIDE DEF a, s
  <2> QED
    BY <1>7, <1>8, FlushKeeps
<1>10. /\ s.wire \in Seq(Byte) /\ s.buffer \in Seq(Byte) /\ Len(s.wire) = Len(a.wire) + n
       /\ \A j \in 1..n : s.wire[Len(a.wire) + j] = a.buffer[j]
  <2> HIDE DEF a, s
  <2> QED
    BY <1>7, <1>8, FlushTypes
<1>11. Kin(e, s)
  <2>1. (e.armed \/ n < Len(Encode(x, f))) \in BOOLEAN
    BY Zenon DEF EndType
  <2>2. e.wire \o SubSeq(Encode(x, f), 1, n) \in Seq(Byte) /\ Rest(Encode(x, f), n) \in Seq(Byte)
    <3>1. s.wire = e.wire \o SubSeq(Encode(x, f), 1, n) /\ s.buffer = Rest(Encode(x, f), n)
      BY <1>6 DEF EndType
    <3> HIDE DEF s
    <3> QED
      BY <1>10, <3>1
  <2>3. s \in EndType
    <3> DEFINE ar == e.armed \/ n < Len(Encode(x, f))
               wi == e.wire \o SubSeq(Encode(x, f), 1, n)
               bu == Rest(Encode(x, f), n)
               sa == Append(e.said, f)
    <3>1. s = [e EXCEPT !.said = sa, !.wire = wi, !.armed = ar, !.buffer = bu]
      BY <1>6 DEF EndType
    <3>2. ar \in BOOLEAN /\ wi \in Seq(Byte) /\ bu \in Seq(Byte) /\ sa \in Seq(Frame)
      BY <1>2, <2>1, <2>2
    <3> HIDE DEF ar, wi, bu, sa, s
    <3> QED
      BY <3>1, <3>2 DEF EndType
  <2>4. s.state = e.state /\ s.handler = e.handler /\ s.dctx = e.dctx /\ s.up = e.up
    BY <1>6 DEF EndType
  <2> HIDE DEF s
  <2> QED
    BY <2>3, <2>4 DEF Kin
<1>12. ASSUME e.wire = <<>> PROVE Wordless(s.wire)
  <2> HIDE DEF s
  <2>1. Len(a.wire) = 0
    BY <1>4, <1>12
  <2>2. a.buffer = Encode(x, f)
    BY <1>4
  <2> HIDE DEF a
  <2>3. PICK l \in Nat : l = Len(Encode(x, f)) /\ l = EncLen(x, f)
    BY EncodeBytes, ByteTypes
  <2>4. n \in 0..l
    BY <2>3
  <2>5. ASSUME NEW i \in 1..n PROVE s.wire[i][1] \notin {"request", "response"}
    <3>1. i \in 1..l /\ 0 + i = i
      BY <2>4
    <3>2. s.wire[i] = Encode(x, f)[i]
      BY <1>10, <2>1, <2>2, <3>1
    <3>3. Encode(x, f)[i] = ByteOf(x, f, i)
      BY <2>3, <3>1, EncodeBytes
    <3>4. ByteOf(x, f, i)[1] \in {"hdr1", "hdr2", "ext", "key", "data"}
      BY DEF ByteOf, Hdr1, Hdr2, ExtByte, KeyByte, DataByte
    <3> QED
      BY <3>2, <3>3, <3>4
  <2>6. Len(s.wire) = n
    BY <1>10, <2>1, <2>4
  <2> QED
    BY <2>5, <2>6 DEF Wordless
<1> HIDE DEF s, a
<1>13. Onward(x, e, s)
  BY <1>5, <1>9, OnwardTwice
<1> QED
  BY <1>11, <1>12, <1>13 DEF s

\* What the socket takes of a frame.
LEMMA Fitted ==
  ASSUME NEW x \in Ends, NEW f \in Frame, NEW room \in Rooms
  PROVE  Fitting(room, Encode(x, f)) \in 0..Len(Encode(x, f))
<1>1. PICK l \in Nat : l = Len(Encode(x, f)) /\ l >= 2
  BY EncodeBytes, ByteTypes
<1>2. Fitting(room, Encode(x, f)) \in {0, 1, l}
  BY <1>1, Zenon DEF Fitting
<1> QED
  BY <1>1, <1>2

\* A control frame, sent or not.
LEMMA ControlKeeps ==
  ASSUME NEW x \in Ends, NEW e \in EndType, NEW op \in Ops, NEW len \in Nat, NEW room \in Rooms
  PROVE  /\ Kin(e, Control(x, e, op, len, room)) /\ Onward(x, e, Control(x, e, op, len, room))
         /\ e.wire = <<>> /\ e.buffer = <<>> => Wordless(Control(x, e, op, len, room).wire)
<1> DEFINE f == [op |-> op, fin |-> TRUE, id |-> 0, length |-> len]
           a == [e EXCEPT !.wire = @ \o e.buffer, !.buffer = <<>>]
           n == Fitting(room, Encode(x, f))
           c == Control(x, e, op, len, room)
<1>1. f \in Frame
  BY DEF Frame
<1>2. CASE ~e.up \/ (room = "none" /\ e.buffer # <<>>)
  <2>1. c = e
    BY <1>2 DEF Control
  <2> HIDE DEF c
  <2>2. Kin(e, e)
    BY DEF Kin
  <2>3. Onward(x, e, e)
    BY DEF Onward
  <2>4. e.wire = <<>> => Wordless(e.wire)
    BY NoWords
  <2> QED
    BY <2>1, <2>2, <2>3, <2>4 DEF c
<1>3. CASE ~(~e.up \/ (room = "none" /\ e.buffer # <<>>))
  <2>1. c = Says(x, a, f, n)
    BY <1>3, Zenon DEF Control
  <2>2. /\ e.wire \in Seq(Byte) /\ e.buffer \in Seq(Byte)
    BY EndTypes
  <2>3. /\ a.wire = e.wire \o e.buffer /\ a.buffer = <<>> /\ a.said = e.said
        /\ a.up = e.up /\ a.state = e.state /\ a.handler = e.handler /\ a.dctx = e.dctx
    BY DEF EndType
  <2>4. a \in EndType
    <3>1. e.wire \o e.buffer \in Seq(Byte) /\ <<>> \in Seq(Byte)
      BY <2>2, ConcatProperties
    <3> QED
      BY <3>1 DEF EndType
  <2> HIDE DEF a
  <2>5. Onward(x, e, a)
    <3>1. Flushed(e, a, Len(e.buffer))
      BY <2>2, <2>3, TakeAll DEF Flushed
    <3>2. Len(e.buffer) \in 0..Len(e.buffer)
      <4>1. PICK l \in Nat : l = Len(e.buffer)
        BY <2>2, LenProperties
      <4> QED
        BY <4>1
    <3> QED
      BY <1>3, <2>2, <3>1, <3>2, FlushKeeps
  <2> HIDE DEF f, c
  <2>6. n \in 0..Len(Encode(x, f))
    BY <1>1, Fitted
  <2> HIDE DEF n
  <2>7. /\ Kin(a, c) /\ Onward(x, a, c)
        /\ a.wire = <<>> => Wordless(c.wire)
    BY <1>1, <1>3, <2>1, <2>3, <2>4, <2>6, SaysKeeps
  <2>8. Kin(e, c)
    BY <2>3, <2>7 DEF Kin
  <2>9. Onward(x, e, c)
    BY <2>5, <2>7, OnwardTwice
  <2>10. e.wire = <<>> /\ e.buffer = <<>> => a.wire = <<>>
    BY <2>3
  <2> QED
    BY <2>7, <2>8, <2>9, <2>10 DEF c
<1> QED
  BY <1>2, <1>3

\* A step of an end that is not read from: what it made of its own input stays.
Follows(e, e2) ==
  /\ e2 \in EndType /\ e2.handler = e.handler /\ e2.dctx = e.dctx /\ (e2.up => e.up)
  /\ e2.state = e.state \/ e2.state \in {"open", "closed", "error"}

\* Two steps of an end that is not read from.
LEMMA FollowsTwice ==
  ASSUME NEW a, NEW b, NEW c, Follows(a, b), Follows(b, c) PROVE Follows(a, c)
BY DEF Follows

\* cleanup.
LEMMA CleanKeeps ==
  ASSUME NEW x, NEW e \in EndType, NEW state \in {"closed", "error"},
         NEW e2, e2 = [Cleaned(e) EXCEPT !.state = state]
  PROVE  /\ Follows(e, e2) /\ Onward(x, e, e2) /\ ~e2.up /\ e2.state = state
         /\ e2.wire = e.wire
<1>1. <<>> \in Seq(Byte)
  OBVIOUS
<1>2. e2 = [e EXCEPT !.up = FALSE, !.buffer = <<>>, !.armed = FALSE, !.state = state]
  BY DEF Cleaned, EndType
<1>3. /\ e2.wire = e.wire /\ e2.said = e.said /\ ~e2.up /\ e2.state = state
      /\ e2.handler = e.handler /\ e2.dctx = e.dctx
  BY <1>2 DEF EndType
<1>4. e2 \in EndType
  BY <1>1, <1>2 DEF EndType
<1> QED
  BY <1>3, <1>4, CutWire DEF Follows

\* close, which sends a close frame.
LEMMA ClosedKeeps ==
  ASSUME NEW x \in Ends, NEW e \in EndType, NEW room \in Rooms
  PROVE  /\ Follows(e, Closed(x, e, room)) /\ Onward(x, e, Closed(x, e, room))
         /\ ~Closed(x, e, room).up /\ Closed(x, e, room).state = "closed"
         /\ e.wire = <<>> /\ e.buffer = <<>> => Wordless(Closed(x, e, room).wire)
<1> DEFINE a == IF e.state = "open" THEN Control(x, e, "close", 1, room) ELSE e
           c == Closed(x, e, room)
<1>1. /\ Kin(e, a) /\ Onward(x, e, a)
      /\ e.wire = <<>> /\ e.buffer = <<>> => Wordless(a.wire)
  <2>1. CASE e.state = "open"
    <3>1. "close" \in Ops /\ 1 \in Nat
      BY DEF Ops
    <3>2. a = Control(x, e, "close", 1, room)
      BY <2>1
    <3> HIDE DEF a
    <3> QED
      BY <3>1, <3>2, ControlKeeps
  <2>2. CASE e.state # "open"
    <3>1. a = e
      BY <2>2
    <3> HIDE DEF a
    <3> QED
      BY <3>1, NoWords DEF Kin, Onward
  <2> QED
    BY <2>1, <2>2
<1>2. c = [Cleaned(a) EXCEPT !.state = "closed"]
  BY DEF Closed
<1> HIDE DEF a, c
<1>3. /\ Follows(a, c) /\ Onward(x, a, c) /\ ~c.up /\ c.state = "closed" /\ c.wire = a.wire
  BY <1>1, <1>2, CleanKeeps DEF Kin
<1>4. Follows(e, a)
  BY <1>1 DEF Kin, Follows
<1>5. Follows(e, c) /\ Onward(x, e, c)
  BY <1>1, <1>3, <1>4, FollowsTwice, OnwardTwice
<1> QED
  BY <1>1, <1>3, <1>5 DEF c

\* onWsFrame: its answer, and a close frame ends the connection.
LEMMA FrameKeeps ==
  ASSUME NEW x \in Ends, NEW e \in EndType, NEW f \in Given, NEW room \in Rooms,
         NEW quits \in BOOLEAN
  PROVE  /\ Follows(e, OnWsFrame(x, e, f, room, quits))
         /\ Onward(x, e, OnWsFrame(x, e, f, room, quits))
         /\ f.op = "close" => ~OnWsFrame(x, e, f, room, quits).up
<1> DEFINE o == OnWsFrame(x, e, f, room, quits)
<1>1. f.op \in Ops /\ Len(f.payload) \in Nat /\ "pong" \in Ops /\ "close" \in Ops
  <2>1. f.op \in Ops /\ f.payload \in Seq(Byte) /\ "pong" \in Ops /\ "close" \in Ops
    BY DEF Given, Ops
  <2> QED
    BY <2>1, LenProperties
<1>2. CASE f.op = "ping"
  <2>1. o = Control(x, e, "pong", Len(f.payload), room)
    BY <1>2 DEF OnWsFrame, IsData
  <2> HIDE DEF o
  <2>2. Kin(e, o) /\ Onward(x, e, o)
    BY <1>1, <2>1, ControlKeeps
  <2> QED
    BY <1>2, <2>2 DEF Kin, Follows, o
<1>3. CASE f.op = "close"
  <2> DEFINE a == Control(x, e, "close", Len(f.payload), room)
  <2>1. o = [Cleaned(a) EXCEPT !.state = "error"]
    BY <1>3 DEF OnWsFrame, IsData
  <2>2. Kin(e, a) /\ Onward(x, e, a)
    BY <1>1, ControlKeeps
  <2> HIDE DEF o, a
  <2>3. Follows(a, o) /\ Onward(x, a, o) /\ ~o.up
    BY <2>1, <2>2, CleanKeeps DEF Kin
  <2>4. Follows(e, a)
    BY <2>2 DEF Kin, Follows
  <2>5. Follows(e, o) /\ Onward(x, e, o)
    BY <2>2, <2>3, <2>4, FollowsTwice, OnwardTwice
  <2> QED
    BY <2>3, <2>5 DEF o
<1>4. CASE f.op = "text" /\ quits
  <2>1. o = Closed(x, e, room)
    BY <1>4 DEF OnWsFrame, IsData
  <2> HIDE DEF o
  <2>2. Follows(e, o) /\ Onward(x, e, o) /\ ~o.up
    BY <2>1, ClosedKeeps
  <2> QED
    BY <2>2 DEF o
<1>5. CASE f.op \notin {"ping", "close"} /\ ~(f.op = "text" /\ quits)
  <2>1. o = e
    BY <1>5 DEF OnWsFrame, IsData
  <2> HIDE DEF o
  <2>2. Follows(e, o) /\ Onward(x, e, o)
    BY <2>1 DEF Follows, Onward
  <2> QED
    BY <1>5, <2>2 DEF o
<1> QED
  BY <1>2, <1>3, <1>4, <1>5

\* The frames of a read, to the last.
LEMMA FramesKeep ==
  ASSUME NEW x \in Ends, NEW e \in EndType, NEW fs \in Seq(Given), NEW room \in Rooms,
         NEW quits \in BOOLEAN
  PROVE  /\ Follows(e, AfterFrames(x, e, fs, room, quits))
         /\ Onward(x, e, AfterFrames(x, e, fs, room, quits))
         /\ \A i \in 1..Len(fs) : fs[i].op = "close" => ~AfterFrames(x, e, fs, room, quits).up
<1>1. PICK n \in Nat : n = Len(fs)
  BY LenProperties
<1>2. PICK run : /\ run[0] = e /\ AfterFrames(x, e, fs, room, quits) = run[n]
                 /\ \A i \in 1..n : run[i] = OnWsFrame(x, run[i - 1], fs[i], room, quits)
  <2>1. PICK run : IsHandling(x, e, fs, room, quits, Len(fs), run)
    BY <1>1, FramesHandled
  <2> QED
    BY <1>1, <2>1, Zenon DEF IsHandling
<1> DEFINE Good(i) == /\ Follows(e, run[i]) /\ Onward(x, e, run[i])
                      /\ \A j \in 1..i : fs[j].op = "close" => ~run[i].up
           T == {i \in 0..n : Good(i)}
<1>3. Good(0)
  <2>1. Follows(e, e) /\ Onward(x, e, e)
    BY DEF Follows, Onward
  <2> QED
    BY <1>2, <2>1
<1>4. ASSUME NEW i \in 0..n, i < n, Good(i) PROVE Good(i + 1)
  <2>1. i + 1 \in 1..n /\ (i + 1) - 1 = i /\ \A j \in 1..(i + 1) : j \in 1..i \/ j = i + 1
    BY <1>4
  <2>2. fs[i + 1] \in Given
    BY <1>1, <2>1, ElementOfSeq
  <2>3. run[i + 1] = OnWsFrame(x, run[i], fs[i + 1], room, quits)
    BY <1>2, <2>1
  <2>4. run[i] \in EndType
    BY <1>4 DEF Follows
  <2>5. /\ Follows(run[i], run[i + 1]) /\ Onward(x, run[i], run[i + 1])
        /\ fs[i + 1].op = "close" => ~run[i + 1].up
    BY <2>2, <2>3, <2>4, FrameKeeps
  <2>6. Follows(e, run[i + 1]) /\ Onward(x, e, run[i + 1])
    BY <1>4, <2>5, FollowsTwice, OnwardTwice
  <2>7. ASSUME NEW j \in 1..(i + 1), fs[j].op = "close" PROVE ~run[i + 1].up
    <3>1. CASE j = i + 1
      BY <2>5, <2>7, <3>1
    <3>2. CASE j \in 1..i
      <4>1. ~run[i].up
        BY <1>4, <2>7, <3>2
      <4> QED
        BY <2>5, <4>1 DEF Follows
    <3> QED
      BY <2>1, <3>1, <3>2
  <2> QED
    BY <2>6, <2>7
<1>5. Good(n)
  <2> HIDE DEF Good
  <2>1. 0 \in T
    BY <1>3
  <2>2. T \in SUBSET (0..n) /\ \A i \in 0..n : i < n /\ i \in T => i + 1 \in T
    BY <1>4
  <2>3. T = 0..n
    <3> HIDE DEF T
    <3> QED
      BY <2>1, <2>2, Upward
  <2> QED
    BY <2>3
<1> QED
  BY <1>1, <1>2, <1>5, Zenon

-----------------------------------------------------------------------------
(* What an end reads.                                                      *)

\* Bytes are taken from the wire, and the peer decodes the last ones: all of them, or
\* what is behind the byte of the upgrade message.
LEMMA StandsFirst ==
  ASSUME NEW x, NEW said \in Seq(Frame), NEW S, NEW start, Stream(x, said, S, start)
  PROVE  Standing(x, said, start, 0, Fresh, 1)
<1>1. PICK N \in Nat : N = Len(said)
  BY LenProperties
<1>2. start[0 + 1] = 1 /\ 0 + 1 = 1 /\ 1 - 1 = 0 /\ 1 <= 1
  BY DEF Stream
<1>3. Fresh.state = "hdr1"
  BY DEF Fresh
<1>4. CASE N = 0
  BY <1>1, <1>2, <1>3, <1>4, Zenon DEF Standing
<1>5. CASE N # 0
  <2>1. 0 < N
    BY <1>5
  <2>2. Stands(x, Fresh, said[0 + 1], 0)
    BY <1>3 DEF Stands
  <2>3. start[0 + 1] <= 1 /\ 1 - start[0 + 1] = 0
    BY <1>2
  <2> QED
    BY <1>1, <2>1, <2>2, <2>3, Zenon DEF Standing
<1> QED
  BY <1>4, <1>5

\* The wire after a read of n bytes.
LEMMA CarriesOn ==
  ASSUME NEW e, e.wire \in Seq(Byte), NEW S, NEW R, Carries(e, S, R), NEW n \in 0..Len(e.wire),
         NEW e2, e2.wire = Rest(e.wire, n), e2.buffer = e.buffer, e2.up = e.up
  PROVE  Carries(e2, S, R + n)
<1>1. PICK w \in Nat : w = Len(e.wire)
  BY LenProperties
<1>2. n \in Nat /\ n <= w
  BY <1>1
<1>3. /\ R \in Nat /\ R + w <= Len(S)
      /\ \A j \in 1..w : e.wire[j] = S[R + j]
      /\ e.up => /\ R + w + Len(e.buffer) = Len(S)
                 /\ \A j \in 1..Len(e.buffer) : e.buffer[j] = S[R + w + j]
  BY <1>1, Zenon DEF Carries
<1>4. Len(e2.wire) = w - n /\ \A j \in 1..(w - n) : e2.wire[j] = e.wire[n + j]
  <2> DEFINE d == e.wire
  <2>1. d \in Seq(Byte) /\ n \in 0..Len(d)
    OBVIOUS
  <2> HIDE DEF d
  <2>2. Len(Rest(d, n)) = Len(d) - n /\ \A j \in 1..(Len(d) - n) : Rest(d, n)[j] = d[n + j]
    BY <2>1, RestProperties
  <2> QED
    BY <1>1, <2>2 DEF d
<1>5. R + n \in Nat /\ (R + n) + (w - n) = R + w
  BY <1>2, <1>3
<1>6. ASSUME NEW j \in 1..(w - n) PROVE e2.wire[j] = S[(R + n) + j]
  <2>1. n + j \in 1..w /\ R + (n + j) = (R + n) + j
    BY <1>2, <1>3
  <2> QED
    BY <1>3, <1>4, <2>1
<1> QED
  BY <1>3, <1>4, <1>5, <1>6, ZenonT(60) DEF Carries

\* What the peer of x, which is g, decodes of n bytes of the wire of x.
Part(e, g, n) ==
  IF g.handler = "handshake" THEN Tail(SubSeq(e.wire, 1, n)) ELSE SubSeq(e.wire, 1, n)
Reading(x, e, g, n) == Decode(Peer(x), g.dctx, Part(e, g, n))

\* The bytes of a read, and the decoder before it.
ReadsAt(x, e, g, heard, S, start, R, n, Q) ==
  /\ Q \in Nat /\ Part(e, g, n) \in Seq(Byte) /\ Q + Len(Part(e, g, n)) = R + n
  /\ \A j \in 1..Len(Part(e, g, n)) : Part(e, g, n)[j] = S[Q + j]
  /\ g.dctx.state # "closed" /\ Standing(x, e.said, start, Len(heard), g.dctx, Q)

\* What an open end decodes of a read is the next part of its stream.
LEMMA ReadPart ==
  ASSUME NEW x \in Ends, NEW e \in EndType, NEW g \in EndType, NEW heard, NEW S, NEW start, NEW R,
         Joins(x, e, g, heard, S, start, R), NEW n \in 1..Len(e.wire), g.up
  PROVE  /\ g.handler = "handshake" => SubSeq(e.wire, 1, n)[1] = Hello(x)
         /\ R + n <= Len(S) /\ g.handler \in {"handshake", "open"}
         /\ \E Q : ReadsAt(x, e, g, heard, S, start, R, n, Q)
<1> DEFINE d == SubSeq(e.wire, 1, n)
<1>1. Stream(x, e.said, S, start) /\ Carries(e, S, R) /\ Heard(x, g, heard, e.said, start, R)
  BY DEF Joins
<1>2. e.wire \in Seq(Byte) /\ e.said \in Seq(Frame)
  BY EndTypes
<1>3. PICK w \in Nat : w = Len(e.wire)
  BY <1>2, LenProperties
<1>4. n \in Nat /\ n >= 1 /\ n <= w /\ n \in 0..Len(e.wire)
  BY <1>3
<1>5. d \in Seq(Byte) /\ Len(d) = n /\ \A j \in 1..n : d[j] = e.wire[j]
  BY <1>2, <1>4, TakeProperties
<1> HIDE DEF d
<1>6. /\ R \in Nat /\ R + w <= Len(S)
      /\ \A j \in 1..w : e.wire[j] = S[R + j]
  BY <1>1, <1>3, Zenon DEF Carries
<1>7. \A j \in 1..n : d[j] = S[R + j]
  <2>1. \A j \in 1..n : j \in 1..w
    BY <1>4
  <2> QED
    BY <1>5, <1>6, <2>1
<1>8. R + n <= Len(S)
  <2>1. PICK l \in Nat : l = Len(S)
    BY <1>1, LenProperties DEF Stream
  <2> QED
    BY <1>4, <1>6, <2>1
<1>9. CASE g.handler = "handshake"
  <2>1. R = 0 /\ heard = <<>> /\ g.dctx = Fresh
    BY <1>1, <1>9 DEF Heard
  <2>2. d[1] = S[1]
    <3>1. 1 \in 1..n /\ R + 1 = 1
      BY <1>4, <2>1
    <3> QED
      BY <1>7, <3>1
  <2>3. d # <<>>
    BY <1>4, <1>5
  <2>4. Tail(d) \in Seq(Byte) /\ Len(Tail(d)) = n - 1 /\ \A j \in 1..(n - 1) : Tail(d)[j] = d[j + 1]
    <3>1. Tail(d) \in Seq(Byte) /\ Len(Tail(d)) = Len(d) - 1 /\ \A j \in 1..Len(Tail(d)) : Tail(d)[j] = d[j + 1]
      BY <1>5, <2>3, HeadTailProperties
    <3> QED
      BY <1>5, <3>1
  <2>5. ASSUME NEW j \in 1..(n - 1) PROVE Tail(d)[j] = S[1 + j]
    <3>1. j + 1 \in 1..n /\ R + (j + 1) = 1 + j
      BY <1>4, <2>1
    <3> QED
      BY <1>7, <2>4, <3>1
  <2>6. Part(e, g, n) = Tail(d)
    BY <1>9 DEF Part, d
  <2>7. 1 + (n - 1) = R + n
    BY <1>4, <2>1
  <2>8. Standing(x, e.said, start, Len(heard), g.dctx, 1)
    <3>1. Len(heard) = 0
      BY <2>1
    <3> QED
      BY <1>1, <1>2, <2>1, <3>1, StandsFirst
  <2>9. g.dctx.state # "closed"
    BY <2>1 DEF Fresh
  <2>10. ReadsAt(x, e, g, heard, S, start, R, n, 1)
    BY <2>4, <2>5, <2>6, <2>7, <2>8, <2>9 DEF ReadsAt
  <2>11. S[1] = Hello(x)
    BY <1>1 DEF Stream
  <2> QED
    BY <1>8, <1>9, <2>2, <2>10, <2>11 DEF d
<1>10. CASE g.handler = "open"
  <2>1. R >= 1 /\ Standing(x, e.said, start, Len(heard), g.dctx, R) /\ g.dctx.state # "closed"
    BY <1>1, <1>10 DEF Heard
  <2>2. Part(e, g, n) = d
    BY <1>10 DEF Part, d
  <2>3. ReadsAt(x, e, g, heard, S, start, R, n, R)
    BY <1>5, <1>6, <1>7, <2>1, <2>2 DEF ReadsAt
  <2> QED
    BY <1>8, <1>10, <2>3
<1>11. g.handler \in {"handshake", "open"}
  BY <1>1 DEF Heard
<1> QED
  BY <1>9, <1>10, <1>11

\* handleInputData, in step: the frames given are those that were sent, and the next
\* read finds the decoder where it has to be.
LEMMA ReadInStep ==
  ASSUME NEW x \in Ends, NEW e \in EndType, NEW g \in EndType, NEW heard,
         InStep(x, e, g, heard), NEW n \in 1..Len(e.wire), g.up
  PROVE  /\ g.handler \in {"handshake", "open"}
         /\ g.handler = "handshake" => SubSeq(e.wire, 1, n)[1] = Hello(x)
         /\ Reading(x, e, g, n).dctx \in Contexts /\ Reading(x, e, g, n).frames \in Seq(Given)
         /\ \A e2, g2 :
              /\ e2.wire = Rest(e.wire, n) /\ e2.buffer = e.buffer /\ e2.up = e.up /\ e2.said = e.said
              /\ g2.handler = "open" /\ g2.dctx = Reading(x, e, g, n).dctx
              /\ \A i \in 1..Len(Reading(x, e, g, n).frames) :
                   Reading(x, e, g, n).frames[i].op = "close" => ~g2.up
              => InStep(x, e2, g2, heard \o Reading(x, e, g, n).frames)
<1> DEFINE r == Reading(x, e, g, n)
<1>1. PICK S, start, R : Joins(x, e, g, heard, S, start, R)
  BY DEF InStep
<1>2. Stream(x, e.said, S, start) /\ Carries(e, S, R) /\ Heard(x, g, heard, e.said, start, R)
  BY <1>1 DEF Joins
<1>3. /\ g.handler = "handshake" => SubSeq(e.wire, 1, n)[1] = Hello(x)
      /\ R + n <= Len(S) /\ g.handler \in {"handshake", "open"}
      /\ \E Q : ReadsAt(x, e, g, heard, S, start, R, n, Q)
  BY <1>1, ReadPart
<1>4. PICK Q : ReadsAt(x, e, g, heard, S, start, R, n, Q)
  BY <1>3
<1>5. e.wire \in Seq(Byte) /\ e.said \in Seq(Frame) /\ g.dctx \in Contexts
  BY EndTypes
<1>6. heard \in Seq(Given) /\ Len(heard) <= Len(e.said) /\ R \in Nat
  BY <1>2 DEF Heard, Carries
<1>7. PICK m \in Nat : m = Len(heard) /\ m <= Len(e.said)
  BY <1>6, LenProperties
<1>8. PICK E \in Nat : E = R + n /\ E <= Len(S)
  BY <1>3, <1>6
<1>9. Working(x, e.said, S, start, m, E, r) /\ r.data = <<>>
  <2> DEFINE p == Part(e, g, n)
             c == g.dctx
  <2>1. /\ Q \in Nat /\ p \in Seq(Byte) /\ Q + Len(p) = E
        /\ \A j \in 1..Len(p) : p[j] = S[Q + j]
        /\ c.state # "closed" /\ Standing(x, e.said, start, m, c, Q) /\ c \in Contexts
    BY <1>4, <1>5, <1>7, <1>8 DEF ReadsAt
  <2>2. r = Decode(Peer(x), c, p)
    BY DEF Reading
  <2> HIDE DEF p, c, r
  <2>3. /\ Working(x, e.said, S, start, m, Q + Len(p), Decode(Peer(x), c, p))
        /\ Decode(Peer(x), c, p).data = <<>>
    <3>1. Q + Len(p) <= Len(S)
      BY <1>8, <2>1
    <3> QED
      BY <1>2, <1>5, <1>7, <2>1, <3>1, DecodeRight
  <2> QED
    BY <2>1, <2>2, <2>3
<1> HIDE DEF r
<1>10. r \in Loop /\ r.dctx \in Contexts /\ r.frames \in Seq(Given)
  BY <1>9 DEF Working, Loop
<1>11. PICK k \in Nat : k = Len(r.frames)
  BY <1>10, LenProperties
<1>12. PICK N \in Nat : N = Len(e.said)
  BY <1>5, LenProperties
<1>13. PICK q \in Nat : q = m + k
  OBVIOUS
<1>14. /\ q <= N /\ \A j \in 1..k : r.frames[j] = Meant(e.said[m + j])
       /\ Standing(x, e.said, start, q, r.dctx, E)
       /\ r.dctx.state = "closed" => r.frames # <<>>
  <2>1. Len(r.data) = 0 /\ E - 0 = E
    BY <1>9
  <2> QED
    BY <1>9, <1>11, <1>12, <1>13, <2>1, Zenon DEF Working
<1>15. /\ heard \o r.frames \in Seq(Given) /\ Len(heard \o r.frames) = q
       /\ \A i \in 1..q : (heard \o r.frames)[i] = IF i <= m THEN heard[i] ELSE r.frames[i - m]
  <2>1. /\ heard \o r.frames \in Seq(Given) /\ Len(heard \o r.frames) = Len(heard) + Len(r.frames)
        /\ \A i \in 1..(Len(heard) + Len(r.frames)) :
             (heard \o r.frames)[i] = IF i <= Len(heard) THEN heard[i] ELSE r.frames[i - Len(heard)]
    BY <1>6, <1>10, ConcatProperties
  <2> QED
    BY <1>7, <1>11, <1>13, <2>1, Zenon
<1>16. \A i \in 1..q : (heard \o r.frames)[i] = Meant(e.said[i])
  <2> SUFFICES ASSUME NEW i \in 1..q PROVE (heard \o r.frames)[i] = Meant(e.said[i])
    OBVIOUS
  <2>1. CASE i <= m
    <3>1. i \in 1..m
      BY <2>1
    <3>2. heard[i] = Meant(e.said[i])
      BY <1>2, <1>7, <3>1 DEF Heard
    <3> QED
      BY <1>15, <2>1, <3>2
  <2>2. CASE ~(i <= m)
    <3>1. i - m \in 1..k /\ m + (i - m) = i
      BY <1>13, <2>2
    <3>2. r.frames[i - m] = Meant(e.said[m + (i - m)])
      BY <1>14, <3>1
    <3> QED
      BY <1>15, <2>2, <3>1, <3>2
  <2> QED
    BY <2>1, <2>2
<1>17. r.dctx.state = "closed" => k \in 1..k /\ r.frames[k].op = "close"
  <2> SUFFICES ASSUME r.dctx.state = "closed" PROVE k \in 1..k /\ r.frames[k].op = "close"
    OBVIOUS
  <2>1. \A s \in Seq(Given) : s # <<>> => Len(s) >= 1
    OBVIOUS
  <2>2. k \in 1..k /\ m + k = q
    BY <1>10, <1>11, <1>13, <1>14, <2>1
  <2>3. e.said[q].op = "close"
    BY <1>14 DEF Standing, Stands
  <2>4. r.frames[k] = Meant(e.said[m + k])
    BY <1>14, <2>2
  <2>5. r.frames[k] = Meant(e.said[q])
    BY <2>2, <2>4
  <2>6. Meant(e.said[q]).op = e.said[q].op
    BY DEF Meant
  <2> QED
    BY <2>2, <2>3, <2>5, <2>6
<1>18. ASSUME NEW e2, NEW g2,
              e2.wire = Rest(e.wire, n), e2.buffer = e.buffer, e2.up = e.up, e2.said = e.said,
              g2.handler = "open", g2.dctx = r.dctx,
              \A i \in 1..Len(r.frames) : r.frames[i].op = "close" => ~g2.up
       PROVE  InStep(x, e2, g2, heard \o r.frames)
  <2>1. n \in 0..Len(e.wire)
    <3>1. PICK w \in Nat : w = Len(e.wire)
      BY <1>5, LenProperties
    <3> QED
      BY <3>1
  <2>2. Carries(e2, S, E)
    BY <1>2, <1>5, <1>8, <1>18, <2>1, CarriesOn
  <2>3. g2.up => g2.dctx.state # "closed"
    BY <1>11, <1>17, <1>18
  <2>4. E >= 1
    BY <1>6, <1>8
  <2>5. Heard(x, g2, heard \o r.frames, e.said, start, E)
    <3> DEFINE both == heard \o r.frames
    <3>1. both \in Seq(Given) /\ Len(both) = q /\ \A i \in 1..q : both[i] = Meant(e.said[i])
      BY <1>15, <1>16
    <3> HIDE DEF both
    <3>2. Heard(x, g2, both, e.said, start, E)
      BY <1>12, <1>14, <1>18, <2>3, <2>4, <3>1 DEF Heard
    <3> QED
      BY <3>2 DEF both
  <2>6. Joins(x, e2, g2, heard \o r.frames, S, start, E)
    BY <1>2, <1>18, <2>2, <2>5, Zenon DEF Joins
  <2> QED
    BY <2>6 DEF InStep
<1> QED
  BY <1>3, <1>10, <1>18, Zenon DEF r

-----------------------------------------------------------------------------
(* The inductive invariant.                                                *)

\* Before its upgrade message an end has nothing on the wire, except the close frame of
\* a server that was open too soon and is closed: its peer does not take that for the
\* response.
Quiet(x, e, g, heard) ==
  /\ heard = <<>> /\ g.handler # "open"
  /\ g.handler = "handshake" => g.dctx = Fresh
  /\ e.up \/ x = "client" \/ e.state = "idle" =>
       g.handler = "handshake" /\ e.wire = <<>> /\ e.buffer = <<>> /\ e.said = <<>>
  /\ g.handler = "handshake" => Wordless(e.wire)

SaidHello(x, e) == IF x = "client" THEN e.state # "connecting" ELSE e.handler # "handshake"
Dir(x, e, g, heard) == IF SaidHello(x, e) THEN InStep(x, e, g, heard) ELSE Quiet(x, e, g, heard)

Typed == ends \in [Ends -> EndType] /\ got \in [Ends -> Seq(Given)]
Before ==
  ends["client"].state = "connecting" =>
    ~ends["client"].up /\ ~ends["server"].up /\ ends["server"].state = "idle"
Core ==
  /\ Typed /\ Before
  /\ \A x \in Ends : Dir(x, ends[x], ends[Peer(x)], got[Peer(x)])
WsInv == ~early => Core

\* The peer of the peer.
LEMMA Peers ==
  ASSUME NEW x \in Ends
  PROVE  /\ Peer(x) \in Ends /\ Peer(Peer(x)) = x /\ Peer(x) # x
         /\ \A z \in Ends : z = x \/ z = Peer(x)
BY DEF Ends, Peer

\* An end that is read from does not mind what else the reader does.
LEMMA SameReader ==
  ASSUME NEW x, NEW e, NEW g, NEW heard, InStep(x, e, g, heard),
         NEW g2, g2.handler = g.handler, g2.dctx = g.dctx, g2.up => g.up
  PROVE  InStep(x, e, g2, heard)
<1>1. PICK S, start, R : Joins(x, e, g, heard, S, start, R)
  BY DEF InStep
<1>2. Heard(x, g2, heard, e.said, start, R)
  BY <1>1, Zenon DEF Joins, Heard
<1>3. Joins(x, e, g2, heard, S, start, R)
  BY <1>1, <1>2, Zenon DEF Joins
<1> QED
  BY <1>3 DEF InStep

\* The initial states.
LEMMA WsInitInv == Init => Core
<1> SUFFICES ASSUME Init PROVE Core
  OBVIOUS
<1>1. /\ ends = [client |-> NewEnd("connecting"), server |-> NewEnd("idle")]
      /\ got = [x \in Ends |-> <<>>]
  BY DEF Init
<1>2. ends["client"] = NewEnd("connecting") /\ ends["server"] = NewEnd("idle")
  BY <1>1
<1>3. ASSUME NEW s \in {"connecting", "idle"} PROVE NewEnd(s) \in EndType
  <2>1. <<>> \in Seq(Byte) /\ <<>> \in Seq(Frame)
    OBVIOUS
  <2> QED
    BY <2>1, FreshType DEF NewEnd, EndType
<1>4. Typed
  <2>1. ends \in [Ends -> EndType]
    BY <1>1, <1>3 DEF Ends
  <2>2. <<>> \in Seq(Given)
    OBVIOUS
  <2> QED
    BY <1>1, <2>1, <2>2 DEF Typed
<1>5. Before
  BY <1>2 DEF Before, NewEnd
<1>6. ASSUME NEW x \in Ends PROVE Dir(x, ends[x], ends[Peer(x)], got[Peer(x)])
  <2>1. got[Peer(x)] = <<>>
    BY <1>1, Peers
  <2>2. ~SaidHello(x, ends[x])
    BY <1>2 DEF SaidHello, NewEnd, Ends
  <2>3. Quiet(x, ends[x], ends[Peer(x)], got[Peer(x)])
    BY <1>2, <2>1, NoWords DEF Quiet, NewEnd, Ends, Peer
  <2> QED
    BY <2>2, <2>3 DEF Dir
<1> QED
  BY <1>4, <1>5, <1>6 DEF Core

\* An end without its upgrade message stays quiet.
Hushed(e) ==
  /\ e.up \/ e.state = "idle" => e.wire = <<>> /\ e.buffer = <<>> /\ e.said = <<>>
  /\ Wordless(e.wire)

\* A step of one end that reads nothing.
LEMMA OneEnd ==
  ASSUME Core, NEW y \in Ends, ends[y].up, NEW e2, Follows(ends[y], e2), Onward(y, ends[y], e2),
         ends' = [ends EXCEPT ![y] = e2], got' = got,
         /\ y = "server" /\ ends[y].handler = "handshake"
         /\ ends[y].wire = <<>> /\ ends[y].buffer = <<>> /\ ends[y].said = <<>>
         => Hushed(e2)
  PROVE  Core'
<1> DEFINE x == Peer(y)
           e == ends[y]
           g == ends[x]
<1>1. x \in Ends /\ Peer(x) = y /\ x # y /\ \A z \in Ends : z = y \/ z = x
  BY Peers
<1>2. Typed /\ Before /\ Dir(y, e, g, got[x]) /\ Dir(x, g, e, got[y])
  BY <1>1 DEF Core
<1>3. ends'[y] = e2 /\ ends'[x] = g /\ ends' \in [Ends -> EndType] /\ e2 \in EndType
  BY <1>1, <1>2 DEF Typed, Follows
<1>4. Typed'
  BY <1>2, <1>3 DEF Typed
<1>5. ends["client"].state # "connecting" /\ ends'["client"].state # "connecting"
  <2>1. ends["client"].state # "connecting"
    BY <1>2 DEF Before, Ends
  <2>2. CASE y = "client"
    <3>1. ends'["client"] = e2 /\ e = ends["client"]
      BY <1>3, <2>2
    <3> QED
      BY <2>1, <3>1 DEF Follows
  <2>3. CASE y # "client"
    <3>1. x = "client"
      BY <2>3 DEF Peer
    <3> QED
      BY <1>3, <2>1, <3>1
  <2> QED
    BY <2>1, <2>2, <2>3
<1>6. Before'
  BY <1>5 DEF Before
<1>7. Dir(y, e2, g, got[x])
  <2>1. CASE SaidHello(y, e)
    <3>1. InStep(y, e2, g, got[x])
      BY <1>2, <2>1 DEF Dir, Onward
    <3>2. SaidHello(y, e2)
      BY <1>3, <1>5, <2>1 DEF SaidHello, Follows
    <3> QED
      BY <3>1, <3>2 DEF Dir
  <2>2. CASE ~SaidHello(y, e)
    <3>1. y = "server" /\ e.handler = "handshake" /\ e2.handler = "handshake"
      BY <1>5, <2>2 DEF SaidHello, Ends, Follows
    <3>2. Quiet(y, e, g, got[x])
      BY <1>2, <2>2 DEF Dir
    <3>3. /\ e.wire = <<>> /\ e.buffer = <<>> /\ e.said = <<>> /\ g.handler = "handshake"
          /\ got[x] = <<>> /\ g.dctx = Fresh
      BY <3>2 DEF Quiet
    <3>4. Hushed(e2)
      BY <3>1, <3>3
    <3>5. Quiet(y, e2, g, got[x])
      <4>2. e2.up \/ y = "client" \/ e2.state = "idle" =>
              g.handler = "handshake" /\ e2.wire = <<>> /\ e2.buffer = <<>> /\ e2.said = <<>>
        BY <3>1, <3>3, <3>4 DEF Hushed
      <4>3. Wordless(e2.wire)
        BY <3>4 DEF Hushed
      <4>4. g.handler # "open"
        BY <3>3
      <4> QED
        BY <3>3, <4>2, <4>3, <4>4, Zenon DEF Quiet
    <3>6. ~SaidHello(y, e2)
      BY <3>1 DEF SaidHello
    <3> QED
      BY <3>5, <3>6 DEF Dir
  <2> QED
    BY <2>1, <2>2
<1>8. Dir(x, g, e2, got[y])
  <2>1. e2.handler = e.handler /\ e2.dctx = e.dctx /\ (e2.up => e.up)
    BY DEF Follows
  <2>2. CASE SaidHello(x, g)
    <3>1. InStep(x, g, e, got[y])
      BY <1>2, <2>2 DEF Dir
    <3>2. InStep(x, g, e2, got[y])
      <4> HIDE DEF x, e, g
      <4> QED
        BY <2>1, <3>1, SameReader
    <3> QED
      BY <2>2, <3>2 DEF Dir
  <2>3. CASE ~SaidHello(x, g)
    <3>1. Quiet(x, g, e, got[y])
      BY <1>2, <2>3 DEF Dir
    <3>2. Quiet(x, g, e2, got[y])
      BY <2>1, <3>1 DEF Quiet
    <3> QED
      BY <2>3, <3>2 DEF Dir
  <2> QED
    BY <2>2, <2>3
<1>9. ASSUME NEW z \in Ends PROVE Dir(z, ends'[z], ends'[Peer(z)], got'[Peer(z)])
  <2>1. CASE z = y
    BY <1>3, <1>7, <2>1
  <2>2. CASE z = x
    BY <1>1, <1>3, <1>8, <2>2
  <2> QED
    BY <1>1, <2>1, <2>2
<1> QED
  BY <1>4, <1>6, <1>9 DEF Core

-----------------------------------------------------------------------------
(* Every step keeps the invariant.                                         *)

\* The ends and what they were given have their types.
LEMMA CoreTypes ==
  ASSUME Core, NEW y \in Ends
  PROVE  /\ ends[y] \in EndType /\ ends[Peer(y)] \in EndType
         /\ got[y] \in Seq(Given) /\ got[Peer(y)] \in Seq(Given)
BY Peers DEF Core, Typed

\* An upgrade message is one byte of the model.
LEMMA HelloByte == ASSUME NEW x PROVE Hello(x) \in Byte
<1> DEFINE A == Kinds
           B == Ops \cup BOOLEAN \cup Nat
           C == BOOLEAN \cup Nat
<1>1. Hello(x) = <<"request", 0, 0>> \/ Hello(x) = <<"response", 0, 0>>
  BY DEF Hello, Request, Response
<1>2. "request" \in A /\ "response" \in A /\ 0 \in B /\ 0 \in C
  BY DEF Kinds
<1>3. Byte = A \X B \X C
  BY DEF Byte
<1> HIDE DEF A, B, C
<1>4. \A a \in A, b \in B, c \in C : <<a, b, c>> \in A \X B \X C
  OBVIOUS
<1>5. <<"request", 0, 0>> \in A \X B \X C
  BY <1>2, <1>4
<1>6. <<"response", 0, 0>> \in A \X B \X C
  BY <1>2, <1>4
<1> QED
  BY <1>1, <1>3, <1>5, <1>6

\* The stream of an end begins with its upgrade message.
LEMMA StreamStarts ==
  ASSUME NEW x \in Ends, NEW e, e.wire = <<Hello(x)>>, e.buffer = <<>>, e.said = <<>>,
         NEW g, g.handler = "handshake", g.dctx = Fresh
  PROVE  InStep(x, e, g, <<>>)
<1> DEFINE S == <<Hello(x)>>
           start == [i \in 1..(Len(e.said) + 1) |-> 1]
<1>1. Len(e.said) = 0 /\ 0 + 1 = 1 /\ 1..0 = {} /\ 1..1 = {1}
  OBVIOUS
<1>2. Hello(x) \in Byte
  BY HelloByte
<1>3. S \in Seq(Byte) /\ S[1] = Hello(x) /\ Len(S) = 1
  BY <1>2
<1>4. start \in [1..(Len(e.said) + 1) -> Nat] /\ start[1] = 1 /\ \A i \in 1..(Len(e.said) + 1) : start[i] = 1
  BY <1>1
<1> HIDE DEF S, start
<1>5. Stream(x, e.said, S, start)
  <2>1. start[Len(e.said) + 1] = 1
    BY <1>1, <1>4
  <2>2. \A i, j \in 1..(Len(e.said) + 1) : i <= j => start[i] <= start[j]
    BY <1>4
  <2>3. \A i \in 1..Len(e.said) : FALSE
    BY <1>1
  <2> QED
    BY <1>3, <1>4, <2>1, <2>2, <2>3 DEF Stream
<1>6. Carries(e, S, 0)
  <2>1. Len(e.wire) = 1 /\ Len(e.buffer) = 0 /\ e.wire[1] = Hello(x)
    OBVIOUS
  <2>2. 0 + 1 = 1 /\ 0 + 1 + 0 = 1 /\ 1 <= 1 /\ 0 \in Nat
    OBVIOUS
  <2>3. \A j \in 1..1 : j = 1
    OBVIOUS
  <2>4. \A j \in 1..Len(e.buffer) : FALSE
    BY <2>1
  <2> QED
    BY <1>3, <2>1, <2>2, <2>3, <2>4 DEF Carries
<1>7. Heard(x, g, <<>>, e.said, start, 0)
  <2>1. <<>> \in Seq(Given) /\ Len(<<>>) = 0 /\ 0 <= 0
    OBVIOUS
  <2>2. \A j \in 1..0 : FALSE
    OBVIOUS
  <2>3. g.dctx.state # "closed"
    BY DEF Fresh
  <2> QED
    BY <1>1, <2>1, <2>2, <2>3 DEF Heard
<1>8. Joins(x, e, g, <<>>, S, start, 0)
  BY <1>5, <1>6, <1>7 DEF Joins
<1> QED
  BY <1>8 DEF InStep

\* The upgrade message is sent.
LEMMA HelloWritten ==
  ASSUME NEW x \in Ends, NEW e \in EndType, e.wire = <<>>
  PROVE  LET w == Written(e, <<Hello(x)>>, 1)
         IN  /\ w.wire = <<Hello(x)>> /\ w.buffer = <<>> /\ w.said = e.said /\ w.up = e.up
             /\ w.state = e.state /\ w.handler = e.handler /\ w.dctx = e.dctx /\ w \in EndType
<1> DEFINE d == <<Hello(x)>>
           w == Written(e, d, 1)
<1>1. d \in Seq(Byte)
  <2>5. Hello(x) \in Byte
    BY HelloByte
  <2> QED
    BY <2>5
<1>2. Len(d) = 1
  OBVIOUS
<1>3. SubSeq(d, 1, 1) = d /\ Rest(d, 1) = <<>>
  <2> HIDE DEF d
  <2>1. SubSeq(d, 1, Len(d)) = d /\ Rest(d, Len(d)) = <<>>
    BY <1>1, TakeAll
  <2> QED
    BY <1>2, <2>1
<1>4. e.wire \o d = d
  OBVIOUS
<1>5. w = [e EXCEPT !.wire = d, !.armed = @ \/ 1 < Len(d), !.buffer = <<>>]
  <2> HIDE DEF d
  <2>1. w = [e EXCEPT !.wire = @ \o SubSeq(d, 1, 1), !.armed = @ \/ 1 < Len(d), !.buffer = Rest(d, 1)]
    BY Zenon DEF Written
  <2> QED
    BY <1>3, <1>4, <2>1 DEF EndType
<1>6. (e.armed \/ 1 < Len(d)) \in BOOLEAN
  BY Zenon DEF EndType
<1>7. <<>> \in Seq(Byte)
  OBVIOUS
<1>8. /\ w.wire = d /\ w.buffer = <<>> /\ w.said = e.said /\ w.up = e.up
      /\ w.state = e.state /\ w.handler = e.handler /\ w.dctx = e.dctx
  <2> HIDE DEF w, d
  <2> QED
    BY <1>5 DEF EndType
<1>9. w \in EndType
  <2> DEFINE ar == e.armed \/ 1 < Len(d)
  <2>1. w = [e EXCEPT !.wire = d, !.armed = ar, !.buffer = <<>>] /\ ar \in BOOLEAN
    BY <1>5, <1>6 DEF EndType
  <2> HIDE DEF w, d, ar
  <2> QED
    BY <1>1, <1>7, <2>1 DEF EndType
<1> QED
  BY <1>8, <1>9

\* The connection is established.
LEMMA ConnectedKeeps == ASSUME Core, Connected PROVE Core'
<1> DEFINE c == ends["client"]
           s == ends["server"]
           up == [c EXCEPT !.state = "upgrading", !.up = TRUE]
           c2 == Written(up, Request, 1)
           s2 == [s EXCEPT !.state = "upgrading", !.up = TRUE, !.armed = TRUE]
<1>1. "client" \in Ends /\ "server" \in Ends /\ Peer("client") = "server" /\ Peer("server") = "client"
  BY DEF Ends, Peer
<1>2. c \in EndType /\ s \in EndType /\ c.state = "connecting"
  BY <1>1, CoreTypes DEF Connected
<1>3. ends' = [client |-> c2, server |-> s2] /\ got' = got
  BY Zenon DEF Connected
<1>4. ~s.up /\ s.state = "idle"
  BY <1>2 DEF Core, Before
<1>5. Quiet("client", c, s, got["server"])
  <2>1. Dir("client", c, s, got["server"])
    BY <1>1 DEF Core
  <2>2. ~SaidHello("client", c)
    BY <1>2 DEF SaidHello
  <2> QED
    BY <2>1, <2>2 DEF Dir
<1>6. /\ s.handler = "handshake" /\ s.dctx = Fresh /\ got["server"] = <<>>
      /\ c.wire = <<>> /\ c.buffer = <<>> /\ c.said = <<>>
  BY <1>5 DEF Quiet
<1>7. Quiet("server", s, c, got["client"])
  <2>1. Dir("server", s, c, got["client"])
    BY <1>1 DEF Core
  <2>2. ~SaidHello("server", s)
    BY <1>6 DEF SaidHello
  <2> QED
    BY <2>1, <2>2 DEF Dir
<1>8. /\ c.handler = "handshake" /\ c.dctx = Fresh /\ got["client"] = <<>>
      /\ s.wire = <<>> /\ s.buffer = <<>> /\ s.said = <<>>
  BY <1>4, <1>7 DEF Quiet
<1>9. /\ up \in EndType /\ up.wire = <<>> /\ up.said = <<>> /\ up.state = "upgrading"
      /\ up.handler = "handshake" /\ up.dctx = Fresh
  BY <1>2, <1>6, <1>8 DEF EndType
<1>10. Request = <<Hello("client")>>
  BY DEF Hello, Request
<1>11. /\ c2.wire = <<Hello("client")>> /\ c2.buffer = <<>> /\ c2.said = <<>>
       /\ c2.state = "upgrading" /\ c2.handler = "handshake" /\ c2.dctx = Fresh /\ c2 \in EndType
  <2> HIDE DEF up
  <2> QED
    BY <1>1, <1>9, <1>10, HelloWritten
<1>12. /\ s2 \in EndType /\ s2.wire = <<>> /\ s2.buffer = <<>> /\ s2.said = <<>>
       /\ s2.handler = "handshake" /\ s2.dctx = Fresh
  BY <1>2, <1>6, <1>8 DEF EndType
<1>13. ends'["client"] = c2 /\ ends'["server"] = s2 /\ ends' \in [Ends -> EndType]
  <2> HIDE DEF c2, s2
  <2> QED
    BY <1>3, <1>11, <1>12 DEF Ends
<1> HIDE DEF c2, s2, c, s
<1>14. Typed' /\ Before'
  BY <1>3, <1>11, <1>13 DEF Core, Typed, Before
<1>15. Dir("client", c2, s2, <<>>)
  <2>1. InStep("client", c2, s2, <<>>)
    BY <1>1, <1>11, <1>12, StreamStarts
  <2> QED
    BY <1>11, <2>1 DEF Dir, SaidHello
<1>16. Dir("server", s2, c2, <<>>)
  <2>1. Quiet("server", s2, c2, <<>>)
    BY <1>11, <1>12, NoWords DEF Quiet
  <2> QED
    BY <1>12, <2>1 DEF Dir, SaidHello
<1>17. ASSUME NEW z \in Ends PROVE Dir(z, ends'[z], ends'[Peer(z)], got'[Peer(z)])
  <2>1. CASE z = "client"
    BY <1>1, <1>3, <1>6, <1>13, <1>15, <2>1
  <2>2. CASE z = "server"
    BY <1>1, <1>3, <1>8, <1>13, <1>16, <2>2
  <2> QED
    BY <2>1, <2>2 DEF Ends
<1> QED
  BY <1>14, <1>17 DEF Core

\* The socket is writable.
LEMMA WriteKeeps == ASSUME Core, NEW y \in Ends, NEW n, WriteEvent(y, n) PROVE Core'
<1> DEFINE e == ends[y]
           w == [e EXCEPT !.wire = @ \o SubSeq(e.buffer, 1, n), !.buffer = Rest(@, n),
                          !.armed = n < Len(e.buffer)]
           e2 == IF w.buffer = <<>> /\ OpensOnSend(y, w) THEN [w EXCEPT !.state = "open"] ELSE w
<1>1. e \in EndType /\ e.wire \in Seq(Byte) /\ e.buffer \in Seq(Byte)
  BY CoreTypes, EndTypes
<1>2. /\ e.up /\ n \in Some(e.buffer) /\ ends' = [ends EXCEPT ![y] = e2] /\ got' = got
  BY Zenon DEF WriteEvent
<1>3. n \in 0..Len(e.buffer)
  <2>1. PICK l \in Nat : l = Len(e.buffer) /\ (e.buffer # <<>> => l >= 1)
    <3>1. \A q \in Seq(Byte) : Len(q) \in Nat /\ (q # <<>> => Len(q) >= 1)
      OBVIOUS
    <3> QED
      BY <1>1, <3>1
  <2>2. n = 0 \/ (e.buffer # <<>> /\ n \in {1, l})
    BY <1>2, <2>1 DEF Some
  <2> QED
    BY <2>1, <2>2
<1>4. /\ w.wire = e.wire \o SubSeq(e.buffer, 1, n) /\ w.buffer = Rest(e.buffer, n)
      /\ w.said = e.said /\ w.up = e.up /\ w.handler = e.handler /\ w.dctx = e.dctx /\ w.state = e.state
  BY <1>1 DEF EndType
<1>5. Flushed(e, w, n)
  <2> HIDE DEF w
  <2> QED
    BY <1>4 DEF Flushed
<1>6. Onward(y, e, w) /\ w.wire \in Seq(Byte) /\ w.buffer \in Seq(Byte)
      /\ Len(w.wire) = Len(e.wire) + n /\ Len(w.buffer) = Len(e.buffer) - n
  <2> HIDE DEF w, e
  <2> QED
    BY <1>1, <1>2, <1>3, <1>5, FlushKeeps, FlushTypes
<1>7. w \in EndType
  <2> DEFINE wi == e.wire \o SubSeq(e.buffer, 1, n)
             bu == Rest(e.buffer, n)
             ar == n < Len(e.buffer)
  <2>1. wi \in Seq(Byte) /\ bu \in Seq(Byte)
    BY <1>4, <1>6
  <2>2. ar \in BOOLEAN
    BY <1>1, <1>3
  <2>3. w = [e EXCEPT !.wire = wi, !.buffer = bu, !.armed = ar]
    BY <1>1 DEF EndType
  <2> HIDE DEF w, wi, bu, ar
  <2> QED
    BY <1>1, <2>1, <2>2, <2>3 DEF EndType
<1> HIDE DEF w
<1>8. Follows(e, e2) /\ Onward(y, e, e2) /\ e2.wire = w.wire /\ e2.buffer = w.buffer /\ e2.said = e.said
      /\ (e2.state = w.state \/ e2.state = "open")
  <2>1. CASE w.buffer = <<>> /\ OpensOnSend(y, w)
    <3>1. e2 = [w EXCEPT !.state = "open"]
      BY <2>1
    <3>2. /\ e2 \in EndType /\ e2.handler = w.handler /\ e2.dctx = w.dctx /\ e2.up = w.up
          /\ e2.wire = w.wire /\ e2.buffer = w.buffer /\ e2.said = w.said /\ e2.state = "open"
      BY <1>7, <3>1 DEF EndType
    <3> HIDE DEF e2
    <3>3. Onward(y, w, e2)
      BY <3>2, SameWire
    <3>4. Onward(y, e, e2)
      BY <1>6, <3>3, OnwardTwice
    <3> QED
      BY <1>4, <3>2, <3>4 DEF Follows
  <2>2. CASE ~(w.buffer = <<>> /\ OpensOnSend(y, w))
    <3>1. e2 = w
      BY <2>2
    <3> HIDE DEF e2
    <3> QED
      BY <1>4, <1>6, <1>7, <3>1 DEF Follows
  <2> QED
    BY <2>1, <2>2
<1> HIDE DEF e2
<1>9. ASSUME e.wire = <<>>, e.buffer = <<>>, e.said = <<>> PROVE Hushed(e2)
  <2>1. n = 0 /\ Len(e.wire) = 0 /\ Len(e.buffer) = 0
    BY <1>3, <1>9
  <2>2. Len(w.wire) = 0 /\ Len(w.buffer) = 0
    BY <1>6, <2>1
  <2>3. \A q \in Seq(Byte) : Len(q) = 0 => q = <<>>
    OBVIOUS
  <2>4. w.wire = <<>> /\ w.buffer = <<>>
    BY <1>6, <2>2, <2>3
  <2> QED
    BY <1>8, <1>9, <2>4, NoWords DEF Hushed
<1> QED
  BY <1>2, <1>8, <1>9, OneEnd

\* sendData of the application.
LEMMA SendDataKeeps ==
  ASSUME Core, NEW y \in Ends, NEW len \in Lengths, NEW fin \in BOOLEAN, NEW room \in {"none", "all"},
         SendData(y, len, fin, room), ~early'
  PROVE  Core'
<1> DEFINE e == ends[y]
           f == [op |-> Opcode(e), fin |-> fin, id |-> e.sent + 1, length |-> len]
           a == [e EXCEPT !.fragmented = ~fin, !.sent = @ + 1]
           n == Fitting(room, Encode(y, f))
           e2 == Says(y, a, f, n)
<1>1. e \in EndType /\ e.sent \in Nat
  BY CoreTypes, EndTypes
<1>2. /\ e.up /\ e.buffer = <<>> /\ ends' = [ends EXCEPT ![y] = e2] /\ got' = got
      /\ early' = (early \/ (y = "server" /\ e.handler = "handshake"))
  BY Zenon DEF SendData
<1>3. ~(y = "server" /\ e.handler = "handshake")
  BY <1>2
<1>4. f \in Frame
  <2>1. Opcode(e) \in Ops
    BY DEF Opcode, Ops
  <2>2. len \in Nat /\ e.sent + 1 \in Nat
    BY <1>1, WsBounds
  <2> QED
    BY <2>1, <2>2 DEF Frame
<1>5. /\ a \in EndType /\ a.state = e.state /\ a.handler = e.handler /\ a.dctx = e.dctx /\ a.up = e.up
      /\ a.wire = e.wire /\ a.buffer = e.buffer /\ a.said = e.said
  <2>1. (~fin) \in BOOLEAN /\ e.sent + 1 \in Nat
    BY <1>1
  <2> QED
    BY <1>1, <2>1 DEF EndType
<1>6. n \in 0..Len(Encode(y, f))
  <2>1. room \in Rooms
    BY DEF Rooms
  <2> HIDE DEF f
  <2> QED
    BY <1>4, <2>1, Fitted
<1> HIDE DEF a, n, f
<1>7. Kin(a, e2) /\ Onward(y, a, e2)
  BY <1>2, <1>4, <1>5, <1>6, SaysKeeps
<1>8. Onward(y, e, a)
  BY <1>5, SameWire
<1> HIDE DEF e2
<1>9. Onward(y, e, e2)
  BY <1>7, <1>8, OnwardTwice
<1>10. Follows(e, e2)
  BY <1>5, <1>7 DEF Kin, Follows
<1> QED
  BY <1>2, <1>3, <1>9, <1>10, OneEnd

\* A ping.
LEMMA SendPingKeeps == ASSUME Core, NEW y \in Ends, SendPing(y) PROVE Core'
<1> DEFINE e == ends[y]
           a == [e EXCEPT !.sent = @ + 1]
           e2 == Control(y, a, "ping", 0, "all")
<1>1. e \in EndType /\ e.sent \in Nat
  BY CoreTypes, EndTypes
<1>2. e.up /\ e.handler = "open" /\ ends' = [ends EXCEPT ![y] = e2] /\ got' = got
  BY Zenon DEF SendPing
<1>3. /\ a \in EndType /\ a.state = e.state /\ a.handler = e.handler /\ a.dctx = e.dctx /\ a.up = e.up
      /\ a.wire = e.wire /\ a.buffer = e.buffer /\ a.said = e.said
  <2>1. e.sent + 1 \in Nat
    BY <1>1
  <2> QED
    BY <1>1, <2>1 DEF EndType
<1> HIDE DEF a
<1>4. Kin(a, e2) /\ Onward(y, a, e2)
  <2>1. "ping" \in Ops /\ 0 \in Nat /\ "all" \in Rooms
    BY DEF Ops, Rooms
  <2> QED
    BY <1>3, <2>1, ControlKeeps
<1> HIDE DEF e2
<1>5. Onward(y, e, e2)
  <2>1. Onward(y, e, a)
    BY <1>3, SameWire
  <2> QED
    BY <1>4, <2>1, OnwardTwice
<1>6. Follows(e, e2)
  BY <1>3, <1>4 DEF Kin, Follows
<1> QED
  BY <1>2, <1>5, <1>6, OneEnd

\* close of the application.
LEMMA CloseKeeps == ASSUME Core, NEW y \in Ends, NEW room \in Rooms, Close(y, room) PROVE Core'
<1> DEFINE e == ends[y]
           e2 == Closed(y, e, room)
<1>1. e \in EndType
  BY CoreTypes
<1>2. e.up /\ ends' = [ends EXCEPT ![y] = e2] /\ got' = got
  <2>1. ends' = [ends EXCEPT ![y] = Closed(y, ends[y], room)]
    BY Zenon DEF Close
  <2> QED
    BY <2>1 DEF Close
<1>3. /\ Follows(e, e2) /\ Onward(y, e, e2) /\ ~e2.up /\ e2.state = "closed"
      /\ e.wire = <<>> /\ e.buffer = <<>> => Wordless(e2.wire)
  <2> HIDE DEF e
  <2> QED
    BY <1>1, ClosedKeeps
<1> HIDE DEF e2
<1>4. e.wire = <<>> /\ e.buffer = <<>> => Hushed(e2)
  BY <1>3 DEF Hushed
<1> QED
  BY <1>2, <1>3, <1>4, OneEnd

\* The peer is gone and everything was read.
LEMMA EndKeeps == ASSUME Core, NEW y \in Ends, EndEvent(y) PROVE Core'
<1> DEFINE e == ends[y]
           e2 == [Cleaned(e) EXCEPT !.state = "error"]
<1>1. e \in EndType
  BY CoreTypes
<1>2. e.up /\ ends' = [ends EXCEPT ![y] = e2] /\ got' = got
  <2>1. ends' = [ends EXCEPT ![y] = [Cleaned(ends[y]) EXCEPT !.state = "error"]]
    BY Zenon DEF EndEvent
  <2> QED
    BY <2>1 DEF EndEvent
<1>3. Follows(e, e2) /\ Onward(y, e, e2) /\ ~e2.up /\ e2.state = "error" /\ e2.wire = e.wire
  <2> HIDE DEF e
  <2> QED
    BY <1>1, CleanKeeps, ZenonT(60)
<1> HIDE DEF e2
<1>4. e.wire = <<>> => Hushed(e2)
  BY <1>3, NoWords DEF Hushed
<1> QED
  BY <1>2, <1>3, <1>4, OneEnd

-----------------------------------------------------------------------------
(* A read: handleInputData of y, on n bytes of what x said.                *)

Chunk(y, n) == SubSeq(ends[Peer(y)].wire, 1, n)
Firsts(y, n, room) ==
  IF ends[y].handler = "handshake" THEN Handshake(y, ends[y], Chunk(y, n), room) ELSE {ends[y]}
Result(y, n) ==
  Decode(y, ends[y].dctx, IF ends[y].handler = "handshake"
                          THEN Tail(SubSeq(ends[Peer(y)].wire, 1, n))
                          ELSE SubSeq(ends[Peer(y)].wire, 1, n))
Yielded(y, n, f) == IF f.handler = "open" THEN Result(y, n).frames ELSE <<>>
Handled(y, n, f, room, quits) ==
  IF f.handler = "open"
  THEN AfterFrames(y, [f EXCEPT !.dctx = Result(y, n).dctx], Yielded(y, n, f), room, quits)
  ELSE f
Breaks(h) == h.state \in {"open", "upgrading"} /\ (h.handler = "error" \/ h.dctx.state = "error")
Outcome(h) == IF Breaks(h) THEN [Cleaned(h) EXCEPT !.state = "closed"] ELSE h

\* ReadEvent, in the names of this section.
LEMMA ReadUnfolded ==
  ASSUME NEW y, NEW n, ReadEvent(y, n)
  PROVE  /\ CanRead(y, n) /\ early' = early
         /\ \E room \in Rooms, quits \in BOOLEAN : \E f \in Firsts(y, n, room) :
              /\ ends' = [ends EXCEPT ![Peer(y)].wire = Rest(@, n),
                                      ![y] = Outcome(Handled(y, n, f, room, quits))]
              /\ got' = [got EXCEPT ![y] = @ \o Yielded(y, n, f)]
<1>1. CanRead(y, n)
  BY Zenon DEF ReadEvent
<1> DEFINE e == ends[y]
           d == SubSeq(ends[Peer(y)].wire, 1, n)
           r == Decode(y, e.dctx, IF e.handler = "handshake" THEN Tail(d) ELSE d)
           F(room) == IF e.handler = "handshake" THEN Handshake(y, e, d, room) ELSE {e}
           G(f) == IF f.handler = "open" THEN r.frames ELSE <<>>
           H(f, room, quits) == IF f.handler = "open"
                                THEN AfterFrames(y, [f EXCEPT !.dctx = r.dctx], G(f), room, quits)
                                ELSE f
           calm == e.handler = "open" /\ r.frames = <<>>
           B(h) == h.state \in {"open", "upgrading"} /\ (h.handler = "error" \/ h.dctx.state = "error")
<1>4. PICK room \in IF calm THEN {"all"} ELSE Rooms, quits \in IF calm THEN {FALSE} ELSE BOOLEAN :
       \E f \in F(room) :
        /\ ends' = [ends EXCEPT ![Peer(y)].wire = Rest(@, n),
                                ![y] = IF B(H(f, room, quits))
                                       THEN [Cleaned(H(f, room, quits)) EXCEPT !.state = "closed"]
                                       ELSE H(f, room, quits)]
        /\ got' = [got EXCEPT ![y] = @ \o G(f)]
        /\ told' = IF B(H(f, room, quits)) \/ ~H(f, room, quits).up \/ H(f, room, quits).state = "error"
                   THEN told \cup {y} ELSE told
        /\ UNCHANGED early
  BY DEF ReadEvent
<1>10. PICK f \in F(room) :
        /\ ends' = [ends EXCEPT ![Peer(y)].wire = Rest(@, n),
                                ![y] = IF B(H(f, room, quits))
                                       THEN [Cleaned(H(f, room, quits)) EXCEPT !.state = "closed"]
                                       ELSE H(f, room, quits)]
        /\ got' = [got EXCEPT ![y] = @ \o G(f)]
        /\ early' = early
  <2> HIDE DEF F, G, H, B
  <2> QED
    BY <1>4
<1>5. r = Result(y, n)
  BY Zenon DEF Result
<1>6. F(room) = Firsts(y, n, room)
  BY Zenon DEF Firsts, Chunk
<1>7. G(f) = Yielded(y, n, f)
  BY <1>5, Zenon DEF Yielded
<1>8. H(f, room, quits) = Handled(y, n, f, room, quits)
  <2> HIDE DEF G, r
  <2> QED
    BY <1>5, <1>7 DEF Handled
<1>9. B(H(f, room, quits)) <=> Breaks(Handled(y, n, f, room, quits))
  BY <1>8, Zenon DEF Breaks
<1> HIDE DEF H, B, G, F
<1>2. /\ ends' = [ends EXCEPT ![Peer(y)].wire = Rest(@, n),
                              ![y] = Outcome(Handled(y, n, f, room, quits))]
      /\ got' = [got EXCEPT ![y] = @ \o Yielded(y, n, f)]
  <2>1. (IF B(H(f, room, quits)) THEN [Cleaned(H(f, room, quits)) EXCEPT !.state = "closed"]
         ELSE H(f, room, quits))
        = Outcome(Handled(y, n, f, room, quits))
    BY <1>8, <1>9, Zenon DEF Outcome
  <2> QED
    BY <1>7, <1>10, <2>1, Zenon
<1>3. room \in Rooms /\ quits \in BOOLEAN
  BY DEF Rooms
<1>11. f \in Firsts(y, n, room)
  BY <1>6, <1>10
<1> QED
  BY <1>1, <1>2, <1>3, <1>10, <1>11

\* n bytes are read off the wire.
LEMMA WireRead ==
  ASSUME NEW e \in EndType, NEW n \in 1..Len(e.wire), NEW e2, e2 = [e EXCEPT !.wire = Rest(@, n)]
  PROVE  /\ e2 \in EndType /\ e2.wire = Rest(e.wire, n) /\ e2.buffer = e.buffer /\ e2.said = e.said
         /\ e2.up = e.up /\ e2.handler = e.handler /\ e2.dctx = e.dctx /\ e2.state = e.state
<1>1. e.wire \in Seq(Byte)
  BY EndTypes
<1>2. n \in 0..Len(e.wire)
  <2>1. PICK w \in Nat : w = Len(e.wire)
    BY <1>1, LenProperties
  <2> QED
    BY <2>1
<1>3. Rest(e.wire, n) \in Seq(Byte)
  BY <1>1, <1>2, RestProperties
<1> QED
  BY <1>3 DEF EndType

\* What follows the frames of a read.
LEMMA OutcomeKeeps ==
  ASSUME NEW y \in Ends, NEW h \in EndType
  PROVE  Follows(h, Outcome(h)) /\ Onward(y, h, Outcome(h))
<1> DEFINE o == Outcome(h)
<1>1. CASE Breaks(h)
  <2>1. o = [Cleaned(h) EXCEPT !.state = "closed"]
    BY <1>1 DEF Outcome
  <2> HIDE DEF o
  <2>2. Follows(h, o) /\ Onward(y, h, o)
    BY <2>1, CleanKeeps
  <2> QED
    BY <2>2 DEF o
<1>2. CASE ~Breaks(h)
  <2>1. o = h
    BY <1>2 DEF Outcome
  <2> HIDE DEF o
  <2>2. Follows(h, o) /\ Onward(y, h, o)
    BY <2>1 DEF Follows, Onward
  <2> QED
    BY <2>2 DEF o
<1> QED
  BY <1>1, <1>2

\* sendUpgradeResponse of a server that has sent nothing.
LEMMA UpgradedStarts ==
  ASSUME NEW e \in EndType, e.wire = <<>>, e.buffer = <<>>, e.said = <<>>,
         NEW room, NEW g, g.handler = "handshake", g.dctx = Fresh
  PROVE  /\ InStep("server", Upgraded(e, room), g, <<>>)
         /\ Upgraded(e, room) \in EndType /\ Upgraded(e, room).handler = "open"
         /\ Upgraded(e, room).up = e.up /\ Upgraded(e, room).state = "open"
<1> DEFINE w == [e EXCEPT !.handler = "open", !.state = "upgrading"]
           a == [w EXCEPT !.wire = @ \o e.buffer]
           b == Written(a, Response, 1)
           u == Upgraded(e, room)
<1>1. u = [b EXCEPT !.state = "open"]
  BY Zenon DEF Upgraded
<1>2. Response = <<Hello("server")>> /\ "server" \in Ends
  BY DEF Response, Hello, Ends
<1>3. /\ w \in EndType /\ w.wire = <<>> /\ w.buffer = <<>> /\ w.said = <<>>
      /\ w.handler = "open" /\ w.up = e.up
  BY DEF EndType
<1> HIDE DEF w
<1>4. /\ a \in EndType /\ a.wire = <<>> /\ a.said = <<>> /\ a.handler = "open" /\ a.up = e.up
  <2>1. w.wire \o e.buffer = <<>> /\ <<>> \in Seq(Byte)
    BY <1>3
  <2>2. a = [w EXCEPT !.wire = <<>>]
    BY <1>3, <2>1 DEF EndType
  <2> HIDE DEF a
  <2> QED
    BY <1>3, <2>1, <2>2 DEF EndType
<1> HIDE DEF a
<1>5. /\ b \in EndType /\ b.wire = <<Hello("server")>> /\ b.buffer = <<>> /\ b.said = <<>>
      /\ b.handler = "open" /\ b.up = e.up
  BY <1>2, <1>4, HelloWritten
<1> HIDE DEF b, u
<1>6. /\ u \in EndType /\ u.wire = <<Hello("server")>> /\ u.buffer = <<>> /\ u.said = <<>>
      /\ u.handler = "open" /\ u.up = e.up /\ u.state = "open"
  BY <1>1, <1>5 DEF EndType
<1>7. InStep("server", u, g, <<>>)
  BY <1>2, <1>6, StreamStarts
<1> QED
  BY <1>6, <1>7 DEF u

\* A read of what a server sent without its upgrade response: the client gives up, or
\* waits for the response.
LEMMA ReadQuiet ==
  ASSUME Core, NEW y \in Ends, NEW n, ReadEvent(y, n), ~SaidHello(Peer(y), ends[Peer(y)])
  PROVE  Core'
<1> DEFINE x == Peer(y)
           e == ends[x]
           g == ends[y]
           e2 == [e EXCEPT !.wire = Rest(@, n)]
<1>1. x \in Ends /\ Peer(x) = y /\ x # y /\ \A z \in Ends : z = y \/ z = x
  BY Peers
<1>2. Typed /\ Before /\ Dir(y, g, e, got[x]) /\ Dir(x, e, g, got[y]) /\ e \in EndType /\ g \in EndType
  BY <1>1, CoreTypes DEF Core
<1>3. CanRead(y, n)
  BY ReadUnfolded
<1>4. g.up /\ g.state \in {"open", "upgrading"} /\ n \in 1..Len(e.wire)
  BY <1>3 DEF CanRead
<1>5. ends["client"].state # "connecting"
  BY <1>2, <1>4 DEF Before, Ends
<1>6. x = "server" /\ y = "client"
  BY <1>5 DEF SaidHello, Ends, Peer
<1>7. Quiet(x, e, g, got[y])
  BY <1>2 DEF Dir
<1>8. e.wire # <<>>
  <2>1. \A q \in Seq(Byte) : q = <<>> => Len(q) = 0
    OBVIOUS
  <2>2. ASSUME e.wire = <<>> PROVE FALSE
    <3>1. Len(e.wire) = 0
      BY <2>2
    <3> QED
      BY <1>4, <3>1
  <2> QED
    BY <2>2
<1>9. ~e.up /\ e.state # "idle" /\ got[y] = <<>> /\ g.handler \in {"handshake", "error"}
  <2>1. g.handler \in {"handshake", "open", "error"}
    BY <1>2 DEF EndType
  <2> QED
    BY <1>7, <1>8, <2>1 DEF Quiet
<1>10. PICK room \in Rooms, quits \in BOOLEAN : \E f \in Firsts(y, n, room) :
         /\ ends' = [ends EXCEPT ![x].wire = Rest(@, n), ![y] = Outcome(Handled(y, n, f, room, quits))]
         /\ got' = [got EXCEPT ![y] = @ \o Yielded(y, n, f)]
  BY ReadUnfolded
<1>23. PICK f \in Firsts(y, n, room) :
         /\ ends' = [ends EXCEPT ![x].wire = Rest(@, n), ![y] = Outcome(Handled(y, n, f, room, quits))]
         /\ got' = [got EXCEPT ![y] = @ \o Yielded(y, n, f)]
  BY <1>10
<1>24. e.wire \in Seq(Byte) /\ n \in 1..Len(e.wire) /\ n \in 0..Len(e.wire)
  <2>1. e.wire \in Seq(Byte)
    BY <1>2, EndTypes
  <2>2. PICK w \in Nat : w = Len(e.wire)
    BY <2>1, LenProperties
  <2> QED
    BY <1>4, <2>1, <2>2
<1> DEFINE g2 == Outcome(Handled(y, n, f, room, quits))
<1>11. f = [g EXCEPT !.handler = "error"] \/ (f = g /\ g.handler = "handshake" /\ Wordless(e.wire))
  <2>1. CASE g.handler = "handshake"
    <3> DEFINE d == Chunk(y, n)
    <3>1. Wordless(e.wire)
      BY <1>7, <2>1 DEF Quiet
    <3>2. PICK l \in Nat : l = Len(e.wire)
      BY <1>24, LenProperties
    <3>3. n \in 1..l /\ Len(d) = n /\ \A j \in 1..n : d[j] = e.wire[j]
      BY <1>24, <3>2, TakeProperties DEF Chunk
    <3>4. \A i \in 1..Len(d) : d[i][1] \notin {"request", "response"}
      BY <3>1, <3>2, <3>3 DEF Wordless
    <3>5. d[1][1] \notin {"request", "response"} /\ ~\E i \in 1..Len(d) : d[i][1] = "response"
      BY <3>3, <3>4
    <3>6. f \in Handshake(y, g, d, room)
      BY <1>23, <2>1 DEF Firsts
    <3> HIDE DEF d
    <3>7. Handshake(y, g, d, room) = {g, [g EXCEPT !.handler = "error"]}
      BY <3>5 DEF Handshake
    <3> QED
      BY <2>1, <3>1, <3>6, <3>7
  <2>2. CASE g.handler = "error"
    <3>1. f = g
      BY <1>23, <2>2 DEF Firsts
    <3> QED
      BY <1>2, <2>2, <3>1 DEF EndType
  <2> QED
    BY <1>9, <2>1, <2>2
<1>12. /\ f \in EndType /\ f.handler \in {"handshake", "error"} /\ f.state = g.state /\ f.wire = g.wire
       /\ f.said = g.said /\ f.dctx = g.dctx
  BY <1>2, <1>11 DEF EndType
<1>13. g2 = Outcome(f) /\ Yielded(y, n, f) = <<>>
  BY <1>12 DEF Handled, Yielded
<1> HIDE DEF g2
<1>14. /\ g2 \in EndType /\ g2.handler \in {"handshake", "error"} /\ g2.wire = g.wire
       /\ g2.said = g.said /\ g2.state # "connecting" /\ Onward(y, g, g2)
       /\ g2.handler = "handshake" => g2.dctx = Fresh /\ Wordless(e.wire)
  <2>1. Follows(f, g2) /\ g2.wire = f.wire /\ g2.said = f.said
        /\ ((g2.up = f.up /\ g2.buffer = f.buffer) \/ ~g2.up)
    <3>1. CASE Breaks(f)
      <4>1. g2 = [Cleaned(f) EXCEPT !.state = "closed"]
        BY <1>13, <3>1 DEF Outcome
      <4>2. Follows(f, g2) /\ ~g2.up /\ g2.state = "closed" /\ g2.wire = f.wire
        BY <1>12, <4>1, CleanKeeps
      <4>3. g2.said = f.said
        BY <1>12, <4>1 DEF Cleaned, EndType
      <4> QED
        BY <4>2, <4>3
    <3>2. CASE ~Breaks(f)
      BY <1>12, <1>13, <3>2 DEF Outcome, Follows
    <3> QED
      BY <3>1, <3>2
  <2>2. /\ g2 \in EndType /\ g2.handler = f.handler /\ g2.dctx = f.dctx
        /\ g2.state # "connecting"
    BY <1>4, <1>12, <2>1 DEF Follows
  <2>3. Onward(y, g, g2)
    <3>1. f.up = g.up /\ f.buffer = g.buffer
      BY <1>2, <1>11 DEF EndType
    <3>2. g2.wire = g.wire /\ g2.said = g.said
      BY <1>12, <2>1
    <3>3. CASE ~g2.up
      BY <3>2, <3>3, CutWire
    <3>4. CASE g2.up
      <4>1. g2.up = g.up /\ g2.buffer = g.buffer
        BY <2>1, <3>1, <3>4
      <4> QED
        BY <3>2, <4>1, SameWire
    <3> QED
      BY <3>3, <3>4
  <2>4. g2.handler = "handshake" => g2.dctx = Fresh /\ Wordless(e.wire)
    <3> SUFFICES ASSUME g2.handler = "handshake" PROVE g2.dctx = Fresh /\ Wordless(e.wire)
      OBVIOUS
    <3>1. f.handler = "handshake"
      BY <2>2
    <3>2. g.handler = "handshake" /\ Wordless(e.wire)
      BY <1>2, <1>11, <3>1 DEF EndType
    <3>3. g.dctx = Fresh
      BY <1>7, <3>2 DEF Quiet
    <3> QED
      BY <1>12, <2>2, <3>2, <3>3
  <2> QED
    BY <1>12, <2>1, <2>2, <2>3, <2>4
<1>15. /\ e2 \in EndType /\ e2.wire = Rest(e.wire, n) /\ e2.buffer = e.buffer /\ e2.said = e.said
       /\ e2.up = e.up /\ e2.handler = e.handler /\ e2.dctx = e.dctx /\ e2.state = e.state
  <2> HIDE DEF e
  <2> QED
    BY <1>2, <1>4, WireRead
<1>16. ends'[x] = e2 /\ ends'[y] = g2 /\ ends' \in [Ends -> EndType]
  <2>1. ends \in [Ends -> EndType]
    BY <1>2 DEF Typed
  <2> HIDE DEF g
  <2> QED
    BY <1>1, <1>14, <1>15, <1>23, <2>1 DEF g2
<1>17. got' = got
  <2>1. got[y] \o <<>> = got[y]
    BY <1>9
  <2>2. got \in [Ends -> Seq(Given)]
    BY <1>2 DEF Typed
  <2> QED
    BY <1>13, <1>23, <2>1, <2>2
<1> HIDE DEF e2, g2
<1>18. Typed'
  BY <1>2, <1>16, <1>17 DEF Typed
<1>19. Before'
  BY <1>6, <1>14, <1>16 DEF Before
<1>20. Dir(x, e2, g2, got[y])
  <2>1. Quiet(x, e2, g2, got[y])
    <3>1. g2.handler = "handshake" => Wordless(e2.wire)
      BY <1>14, <1>15, <1>24, WordlessRest
    <3> QED
      BY <1>6, <1>9, <1>14, <1>15, <3>1 DEF Quiet
  <2>2. ~SaidHello(x, e2)
    BY <1>6, <1>15 DEF SaidHello
  <2> QED
    BY <2>1, <2>2 DEF Dir
<1>21. Dir(y, g2, e2, got[x])
  <2>1. InStep(y, g, e, got[x])
    BY <1>2, <1>5, <1>6 DEF Dir, SaidHello
  <2>2. Onward(y, g, g2)
    BY <1>14
  <2>3. InStep(y, g2, e, got[x])
    BY <2>1, <2>2 DEF Onward
  <2>4. InStep(y, g2, e2, got[x])
    <3> HIDE DEF e, x
    <3> QED
      BY <1>15, <2>3, SameReader
  <2>5. SaidHello(y, g2)
    BY <1>6, <1>14 DEF SaidHello
  <2> QED
    BY <2>4, <2>5 DEF Dir
<1>22. ASSUME NEW z \in Ends PROVE Dir(z, ends'[z], ends'[Peer(z)], got'[Peer(z)])
  <2>1. CASE z = y
    BY <1>16, <1>17, <1>21, <2>1
  <2>2. CASE z = x
    BY <1>1, <1>16, <1>17, <1>20, <2>2
  <2> QED
    BY <1>1, <2>1, <2>2
<1> QED
  BY <1>18, <1>19, <1>22 DEF Core

\* What the end that reads is before its frames: open.
LEMMA FirstOpen ==
  ASSUME Core, ~early, NEW y \in Ends, NEW n \in 1..Len(ends[Peer(y)].wire), ends[y].up,
         InStep(Peer(y), ends[Peer(y)], ends[y], got[y]), NEW room \in Rooms,
         NEW f \in Firsts(y, n, room)
  PROVE  /\ f \in EndType /\ f.handler = "open" /\ f.up = ends[y].up
         /\ y = "client" => f.state # "connecting"
         /\ InStep(y, f, ends[Peer(y)], got[Peer(y)])
<1> DEFINE x == Peer(y)
           e == ends[x]
           g == ends[y]
<1>1. x \in Ends /\ Peer(x) = y /\ x # y
  BY Peers
<1>2. Before /\ Dir(y, g, e, got[x]) /\ e \in EndType /\ g \in EndType
  BY <1>1, CoreTypes DEF Core
<1>3. ends["client"].state # "connecting"
  BY <1>2 DEF Before, Ends
<1>4. /\ g.handler \in {"handshake", "open"}
      /\ g.handler = "handshake" => SubSeq(e.wire, 1, n)[1] = Hello(x)
  <2>1. InStep(x, e, g, got[y]) /\ n \in 1..Len(e.wire) /\ g.up
    OBVIOUS
  <2> HIDE DEF e, g, x
  <2> QED
    BY <1>1, <1>2, <2>1, ReadInStep
<1>5. CASE g.handler = "open"
  <2>1. f = g
    BY <1>5 DEF Firsts
  <2>2. SaidHello(y, g)
    BY <1>3, <1>5 DEF SaidHello, Ends
  <2>3. InStep(y, g, e, got[x])
    BY <1>2, <2>2 DEF Dir
  <2> QED
    BY <1>2, <1>3, <1>5, <2>1, <2>3
<1>6. CASE g.handler = "handshake" /\ y = "client"
  <2>1. SubSeq(e.wire, 1, n)[1] = <<"response", 0, 0>>
    BY <1>4, <1>6 DEF Hello, Response, Peer
  <2>2. f = [g EXCEPT !.handler = "open", !.state = "open"]
    <3>1. f \in Handshake(y, g, SubSeq(e.wire, 1, n), room)
      BY <1>6 DEF Firsts, Chunk
    <3> QED
      BY <1>6, <2>1, <3>1 DEF Handshake
  <2>3. /\ f \in EndType /\ f.handler = "open" /\ f.up = g.up /\ f.state = "open"
        /\ f.wire = g.wire /\ f.buffer = g.buffer /\ f.said = g.said
    BY <1>2, <2>2 DEF EndType
  <2>4. InStep(y, g, e, got[x])
    BY <1>2, <1>3, <1>6 DEF Dir, SaidHello
  <2>5. Onward(y, g, f)
    BY <2>3, SameWire
  <2> QED
    BY <2>3, <2>4, <2>5 DEF Onward
<1>7. CASE g.handler = "handshake" /\ y = "server"
  <2>1. SubSeq(e.wire, 1, n)[1] = <<"request", 0, 0>>
    BY <1>4, <1>7 DEF Hello, Request, Peer
  <2>2. f = Upgraded(g, room)
    <3>1. f \in Handshake(y, g, SubSeq(e.wire, 1, n), room)
      BY <1>7 DEF Firsts, Chunk
    <3> QED
      BY <1>7, <2>1, <3>1 DEF Handshake
  <2>3. Quiet(y, g, e, got[x])
    BY <1>2, <1>7 DEF Dir, SaidHello
  <2>4. /\ g.wire = <<>> /\ g.buffer = <<>> /\ g.said = <<>> /\ got[x] = <<>>
        /\ e.handler = "handshake" /\ e.dctx = Fresh
    BY <2>3 DEF Quiet
  <2> HIDE DEF g, e, x
  <2>5. /\ InStep("server", Upgraded(g, room), e, <<>>)
        /\ Upgraded(g, room) \in EndType /\ Upgraded(g, room).handler = "open"
        /\ Upgraded(g, room).up = g.up
    BY <1>2, <2>4, UpgradedStarts
  <2> QED
    BY <1>7, <2>2, <2>4, <2>5 DEF g, e, x
<1> QED
  BY <1>4, <1>5, <1>6, <1>7 DEF Ends

\* handleInputData.
LEMMA ReadKeeps == ASSUME Core, ~early, NEW y \in Ends, NEW n, ReadEvent(y, n) PROVE Core'
<1> DEFINE x == Peer(y)
           e == ends[x]
           g == ends[y]
           e2 == [e EXCEPT !.wire = Rest(@, n)]
<1>1. x \in Ends /\ Peer(x) = y /\ x # y /\ \A z \in Ends : z = y \/ z = x
  BY Peers
<1>2. Typed /\ Before /\ Dir(x, e, g, got[y]) /\ e \in EndType /\ g \in EndType
      /\ got[y] \in Seq(Given)
  BY <1>1, CoreTypes DEF Core
<1>3. CanRead(y, n)
  BY ReadUnfolded
<1>4. g.up /\ n \in 1..Len(e.wire)
  BY <1>3 DEF CanRead
<1>5. CASE ~SaidHello(x, e)
  BY <1>5, ReadQuiet
<1>6. CASE SaidHello(x, e)
  <2>1. InStep(x, e, g, got[y])
    BY <1>2, <1>6 DEF Dir
  <2>22. PICK room \in Rooms, quits \in BOOLEAN : \E f \in Firsts(y, n, room) :
         /\ ends' = [ends EXCEPT ![x].wire = Rest(@, n), ![y] = Outcome(Handled(y, n, f, room, quits))]
         /\ got' = [got EXCEPT ![y] = @ \o Yielded(y, n, f)]
    BY ReadUnfolded
  <2>2. PICK f \in Firsts(y, n, room) :
         /\ ends' = [ends EXCEPT ![x].wire = Rest(@, n), ![y] = Outcome(Handled(y, n, f, room, quits))]
         /\ got' = [got EXCEPT ![y] = @ \o Yielded(y, n, f)]
    BY <2>22
  <2> DEFINE r == Result(y, n)
             a == [f EXCEPT !.dctx = r.dctx]
             h == AfterFrames(y, a, r.frames, room, quits)
             g2 == Outcome(h)
  <2>3. /\ f \in EndType /\ f.handler = "open" /\ f.up = g.up
        /\ y = "client" => f.state # "connecting"
        /\ InStep(y, f, e, got[x])
    BY <1>4, <2>1, <2>2, FirstOpen
  <2>4. r = Reading(x, e, g, n)
    BY <1>1, Zenon DEF Result, Reading, Part
  <2>5. /\ r.dctx \in Contexts /\ r.frames \in Seq(Given)
        /\ \A s, t :
             /\ s.wire = Rest(e.wire, n) /\ s.buffer = e.buffer /\ s.up = e.up /\ s.said = e.said
             /\ t.handler = "open" /\ t.dctx = r.dctx
             /\ \A i \in 1..Len(r.frames) : r.frames[i].op = "close" => ~t.up
             => InStep(x, s, t, got[y] \o r.frames)
    <3> HIDE DEF e, g, x, r
    <3>1. InStep(x, e, g, got[y]) /\ n \in 1..Len(e.wire) /\ g.up
      BY <1>4, <2>1
    <3> QED
      BY <1>1, <1>2, <2>4, <3>1, ReadInStep
  <2>6. Yielded(y, n, f) = r.frames /\ Handled(y, n, f, room, quits) = h
    BY <2>3 DEF Yielded, Handled
  <2>7. /\ a \in EndType /\ a.handler = "open" /\ a.up = g.up /\ a.state = f.state /\ a.dctx = r.dctx
        /\ a.wire = f.wire /\ a.buffer = f.buffer /\ a.said = f.said
    <3> HIDE DEF r
    <3> QED
      BY <2>3, <2>5 DEF EndType
  <2> HIDE DEF r, a
  <2>8. Onward(y, f, a)
    BY <2>3, <2>7, SameWire
  <2>9. /\ Follows(a, h) /\ Onward(y, a, h)
        /\ \A i \in 1..Len(r.frames) : r.frames[i].op = "close" => ~h.up
    BY <2>5, <2>7, FramesKeep
  <2> HIDE DEF h
  <2>10. Follows(h, g2) /\ Onward(y, h, g2)
    BY <2>9, OutcomeKeeps DEF Follows
  <2> HIDE DEF g2
  <2>11. Follows(a, g2) /\ Onward(y, f, g2)
    BY <2>8, <2>9, <2>10, FollowsTwice, OnwardTwice
  <2>12. /\ g2 \in EndType /\ g2.handler = "open" /\ g2.dctx = r.dctx
         /\ y = "client" => g2.state # "connecting"
         /\ \A i \in 1..Len(r.frames) : r.frames[i].op = "close" => ~g2.up
    BY <2>3, <2>7, <2>9, <2>10, <2>11 DEF Follows
  <2>13. /\ e2 \in EndType /\ e2.wire = Rest(e.wire, n) /\ e2.buffer = e.buffer /\ e2.said = e.said
         /\ e2.up = e.up /\ e2.handler = e.handler /\ e2.dctx = e.dctx /\ e2.state = e.state
    <3> HIDE DEF e
    <3> QED
      BY <1>2, <1>4, WireRead
  <2>14. /\ ends'[x] = e2 /\ ends'[y] = g2 /\ ends' \in [Ends -> EndType]
    <3>1. ends \in [Ends -> EndType]
      BY <1>2 DEF Typed
    <3>2. ends' = [ends EXCEPT ![x].wire = Rest(@, n), ![y] = g2]
      BY <2>2, <2>6 DEF g2
    <3> HIDE DEF g
    <3> QED
      BY <1>1, <2>12, <2>13, <3>1, <3>2
  <2>15. /\ got'[y] = got[y] \o r.frames /\ got'[x] = got[x] /\ got' \in [Ends -> Seq(Given)]
    <3>1. got \in [Ends -> Seq(Given)]
      BY <1>2 DEF Typed
    <3>2. got[y] \o r.frames \in Seq(Given)
      BY <1>2, <2>5, ConcatProperties
    <3> QED
      BY <1>1, <2>2, <2>6, <3>1, <3>2
  <2> HIDE DEF e2
  <2>16. Typed'
    BY <2>14, <2>15 DEF Typed
  <2>17. ends["client"].state # "connecting" /\ ends'["client"].state # "connecting"
    <3>1. ends["client"].state # "connecting"
      BY <1>2, <1>4 DEF Before, Ends
    <3>2. CASE y = "client"
      BY <2>12, <2>14, <3>1, <3>2
    <3>3. CASE y # "client"
      <4>1. x = "client"
        BY <3>3 DEF Peer
      <4> QED
        BY <2>13, <2>14, <3>1, <4>1
    <3> QED
      BY <3>1, <3>2, <3>3
  <2>18. Before'
    BY <2>17 DEF Before
  <2>19. Dir(x, e2, g2, got[y] \o r.frames)
    <3>1. InStep(x, e2, g2, got[y] \o r.frames)
      BY <2>5, <2>12, <2>13
    <3>2. SaidHello(x, e2)
      BY <1>6, <2>13 DEF SaidHello
    <3> QED
      BY <3>1, <3>2 DEF Dir
  <2>20. Dir(y, g2, e2, got[x])
    <3>1. InStep(y, g2, e, got[x])
      BY <2>3, <2>11 DEF Onward
    <3>2. InStep(y, g2, e2, got[x])
      <4> HIDE DEF e, x
      <4> QED
        BY <2>13, <3>1, SameReader
    <3>3. SaidHello(y, g2)
      BY <2>12 DEF SaidHello
    <3> QED
      BY <3>2, <3>3 DEF Dir
  <2>21. ASSUME NEW z \in Ends PROVE Dir(z, ends'[z], ends'[Peer(z)], got'[Peer(z)])
    <3>1. CASE z = y
      BY <2>14, <2>15, <2>20, <3>1
    <3>2. CASE z = x
      BY <1>1, <2>14, <2>15, <2>19, <3>2
    <3> QED
      BY <1>1, <3>1, <3>2
  <2> QED
    BY <2>16, <2>18, <2>21 DEF Core
<1> QED
  BY <1>5, <1>6

\* A stuttering step.
LEMMA StaysSame == ASSUME Core, ends' = ends, got' = got PROVE Core'
<1>1. Typed' /\ Before'
  BY DEF Core, Typed, Before
<1>2. ASSUME NEW x \in Ends PROVE Dir(x, ends'[x], ends'[Peer(x)], got'[Peer(x)])
  BY DEF Core
<1> QED
  BY <1>1, <1>2 DEF Core

\* Every step keeps WsInv.
LEMMA WsStep == WsInv /\ [Next]_vars => WsInv'
<1> SUFFICES ASSUME WsInv, [Next]_vars, ~early' PROVE Core'
  BY DEF WsInv
<1>1. CASE UNCHANGED vars
  <2>1. ends' = ends /\ got' = got /\ ~early
    BY <1>1 DEF vars
  <2> QED
    BY <2>1, StaysSame DEF WsInv
<1>2. CASE Connects
  <2>1. CASE Connected
    <3>1. ~early
      BY <2>1 DEF Connected
    <3> QED
      BY <2>1, <3>1, ConnectedKeeps DEF WsInv
  <2>2. CASE ConnectFails
    <3>1. ends' = ends /\ got' = got /\ ~early
      BY <2>2 DEF ConnectFails
    <3> QED
      BY <3>1, StaysSame DEF WsInv
  <2> QED
    BY <1>2, <2>1, <2>2 DEF Connects
<1>3. ASSUME NEW y \in Ends, Writes(y) \/ Reads(y) \/ Sends(y) \/ Closes(y) \/ EndEvent(y)
      PROVE  Core'
  <2>1. CASE Writes(y)
    <3>1. PICK n \in Some(ends[y].buffer) : WriteEvent(y, n)
      BY <2>1 DEF Writes
    <3>2. ~early
      BY <3>1 DEF WriteEvent
    <3> QED
      BY <3>1, <3>2, WriteKeeps DEF WsInv
  <2>2. CASE Reads(y)
    <3>1. PICK n \in Some(ends[Peer(y)].wire) : ReadEvent(y, n)
      BY <2>2 DEF Reads
    <3>2. ~early
      BY <3>1, ReadUnfolded
    <3> QED
      BY <3>1, <3>2, ReadKeeps DEF WsInv
  <2>3. CASE Sends(y)
    <3>1. CASE SendPing(y)
      <4>1. ~early
        BY <3>1 DEF SendPing
      <4> QED
        BY <3>1, <4>1, SendPingKeeps DEF WsInv
    <3>2. CASE ~SendPing(y)
      <4>1. PICK len \in Lengths, fin \in BOOLEAN, room \in {"none", "all"} : SendData(y, len, fin, room)
        BY <2>3, <3>2 DEF Sends
      <4>2. ~early
        BY <4>1 DEF SendData
      <4> QED
        BY <4>1, <4>2, SendDataKeeps DEF WsInv
    <3> QED
      BY <3>1, <3>2
  <2>4. CASE Closes(y)
    <3>1. PICK room \in Rooms : Close(y, room)
      BY <2>4 DEF Closes
    <3>2. ~early
      BY <3>1 DEF Close
    <3> QED
      BY <3>1, <3>2, CloseKeeps DEF WsInv
  <2>5. CASE EndEvent(y)
    <3>1. ~early
      BY <2>5 DEF EndEvent
    <3> QED
      BY <2>5, <3>1, EndKeeps DEF WsInv
  <2> QED
    BY <1>3, <2>1, <2>2, <2>3, <2>4, <2>5
<1> QED
  BY <1>1, <1>2, <1>3 DEF Next

\* The inductive invariant of WebSocket holds of every reachable state.
THEOREM WsInvariant == Spec => []WsInv
<1>1. Init => WsInv
  BY WsInitInv DEF WsInv
<1> QED
  BY <1>1, WsStep, PTL DEF Spec

\* The end that reads is in step with its peer once it is open.
LEMMA Paired ==
  ASSUME Core, NEW y \in Ends
  PROVE  /\ Len(got[y]) <= Len(ends[Peer(y)].said)
         /\ \A i \in 1..Len(got[y]) : got[y][i] = Meant(ends[Peer(y)].said[i])
         /\ ends[y].handler = "open" => InStep(Peer(y), ends[Peer(y)], ends[y], got[y])
<1> DEFINE x == Peer(y)
           e == ends[x]
           g == ends[y]
<1>1. x \in Ends /\ Peer(x) = y
  BY Peers
<1>2. Dir(x, e, g, got[y]) /\ e \in EndType /\ got[y] \in Seq(Given)
  BY <1>1, CoreTypes DEF Core
<1>3. CASE SaidHello(x, e)
  <2>1. InStep(x, e, g, got[y])
    BY <1>2, <1>3 DEF Dir
  <2>2. PICK S, start, R : Joins(x, e, g, got[y], S, start, R)
    BY <2>1 DEF InStep
  <2>3. Heard(x, g, got[y], e.said, start, R)
    BY <2>2 DEF Joins
  <2>4. Len(got[y]) <= Len(e.said) /\ \A i \in 1..Len(got[y]) : got[y][i] = Meant(e.said[i])
    BY <2>3, Zenon DEF Heard
  <2> QED
    BY <2>1, <2>4
<1>4. CASE ~SaidHello(x, e)
  <2>1. Quiet(x, e, g, got[y])
    BY <1>2, <1>4 DEF Dir
  <2>2. got[y] = <<>> /\ g.handler # "open" /\ Len(got[y]) = 0
    BY <2>1 DEF Quiet
  <2>3. e.said \in Seq(Frame)
    BY <1>2, EndTypes
  <2>4. PICK l \in Nat : l = Len(e.said)
    BY <2>3, LenProperties
  <2>5. Len(got[y]) <= l /\ \A i \in 1..Len(got[y]) : FALSE
    BY <2>2
  <2> QED
    BY <2>2, <2>4, <2>5
<1> QED
  BY <1>3, <1>4

\* However the bytes are cut into writes and reads, an end is given the frames that its
\* peer sent, whole, unmasked and in order.
THEOREM FramesStayIntact == Spec => []FramesIntact
<1>1. WsInv => FramesIntact
  <2> SUFFICES ASSUME Core, NEW x \in Ends
               PROVE  /\ Len(got[x]) <= Len(ends[Peer(x)].said)
                      /\ \A i \in 1..Len(got[x]) : got[x][i] = Meant(ends[Peer(x)].said[i])
    BY DEF FramesIntact, WsInv
  <2> QED
    BY Paired
<1> QED
  BY <1>1, WsInvariant, PTL

\* Where a decoder stands in a frame: before its end, or at the end of an empty one.
LEMMA StandsShort ==
  ASSUME NEW x \in Ends, NEW f \in Frame, NEW c \in Contexts, NEW p \in Nat, Stands(x, c, f, p)
  PROVE  p <= EncLen(x, f) /\ (f.length > 0 => p < EncLen(x, f))
<1>1. PICK a \in Nat, k \in Nat, l \in Nat, q \in Nat :
        a = Ext(f) /\ k = Key(x, f) /\ l = f.length /\ q = c.pos
  BY ByteTypes DEF Contexts
<1>2. EncLen(x, f) = 2 + a + k + l
  BY <1>1, Zenon DEF EncLen
<1>3. CASE c.state = "hdr1"
  BY <1>1, <1>2, <1>3 DEF Stands
<1>4. CASE c.state = "hdr2"
  BY <1>1, <1>2, <1>4 DEF Stands
<1>5. CASE c.state = "hdrex"
  <2>1. p = 2 + q /\ (q = 0 \/ q < a)
    BY <1>1, <1>5, Zenon DEF Stands
  <2> QED
    BY <1>1, <1>2, <2>1
<1>6. CASE c.state = "maskey"
  <2>1. p = 2 + a + q /\ (q = 0 \/ q < k)
    BY <1>1, <1>6, Zenon DEF Stands
  <2> QED
    BY <1>1, <1>2, <2>1
<1>7. CASE c.state = "data"
  <2>1. c.buf \in Seq(Byte)
    BY DEF Contexts
  <2>2. PICK b \in Nat : b = Len(c.buf)
    BY <2>1, LenProperties
  <2>3. p = 2 + a + k + b /\ (b < l \/ (l = 0 /\ b = 0))
    BY <1>1, <1>7, <2>2, Zenon DEF Stands, InData
  <2> QED
    BY <1>1, <1>2, <2>3
<1>8. c.state \in {"hdr1", "hdr2", "hdrex", "maskey", "data"}
  BY DEF Stands
<1> QED
  BY <1>3, <1>4, <1>5, <1>6, <1>7, <1>8

\* A decoder that was given all of a stream yielded all of its frames, but for a last
\* one that is empty.
LEMMA AllYielded ==
  ASSUME NEW x \in Ends, NEW said \in Seq(Frame), NEW S, NEW start, Stream(x, said, S, start),
         NEW m \in Nat, NEW c \in Contexts, c.state # "closed", Standing(x, said, start, m, c, Len(S)),
         NEW i \in 1..Len(said), said[i].length > 0
  PROVE  i <= m
<1>1. PICK N \in Nat : N = Len(said)
  BY LenProperties
<1>2. SUFFICES ASSUME ~(i <= m) PROVE FALSE
  OBVIOUS
<1>3. i \in 1..N /\ m < N /\ m + 1 <= i
  BY <1>1, <1>2
<1>4. start[m + 1] <= Len(S) /\ Stands(x, c, said[m + 1], Len(S) - start[m + 1])
  <2>1. m # N
    BY <1>3
  <2> QED
    BY <1>1, <2>1, Zenon DEF Standing
<1>5. /\ start \in [1..(N + 1) -> Nat] /\ Len(S) = start[N + 1]
      /\ \A j \in 1..N : start[j + 1] = start[j] + EncLen(x, said[j])
      /\ \A j, k \in 1..(N + 1) : j <= k => start[j] <= start[k]
  BY <1>1, Zenon DEF Stream
<1>6. /\ m + 1 \in 1..N /\ m + 1 \in 1..(N + 1) /\ m + 2 \in 1..(N + 1) /\ N + 1 \in 1..(N + 1)
      /\ (m + 1) + 1 = m + 2 /\ i \in 1..(N + 1) /\ i + 1 \in 1..(N + 1)
  BY <1>3
<1>7. PICK a \in Nat, b \in Nat, l \in Nat :
        a = start[m + 1] /\ b = start[m + 2] /\ l = start[N + 1]
  BY <1>5, <1>6
<1>8. PICK f \in Frame, k \in Nat : f = said[m + 1] /\ k = EncLen(x, f) /\ k >= 2
  <2>1. said[m + 1] \in Frame
    BY <1>1, <1>6, ElementOfSeq
  <2> QED
    BY <2>1, ByteTypes
<1>9. b = a + k /\ a <= l /\ b <= l
  BY <1>4, <1>5, <1>6, <1>7, <1>8
<1>10. Stands(x, c, f, l - a) /\ l - a \in Nat
  <2>1. Stands(x, c, f, l - a)
    BY <1>4, <1>5, <1>7, <1>8, Zenon
  <2> QED
    BY <1>9, <2>1
<1>11. CASE i = m + 1
  <2>1. l - a < k
    <3>1. f.length > 0
      BY <1>8, <1>11
    <3> QED
      BY <1>8, <1>10, <3>1, StandsShort
  <2> QED
    BY <1>9, <2>1
<1>12. CASE i # m + 1
  <2>1. m + 2 <= i /\ m + 2 <= N /\ m + 2 \in 1..N /\ (m + 2) + 1 = m + 3 /\ m + 3 \in 1..(N + 1)
        /\ m + 3 <= N + 1
    BY <1>3, <1>12
  <2>2. PICK d \in Nat, h \in Nat : d = start[m + 3] /\ h = EncLen(x, said[m + 2]) /\ h >= 2
    <3>1. said[m + 2] \in Frame
      BY <1>1, <2>1, ElementOfSeq
    <3> QED
      BY <1>5, <2>1, <3>1, ByteTypes
  <2>3. d = b + h /\ d <= l
    BY <1>5, <1>6, <1>7, <2>1, <2>2
  <2>4. l - a <= k
    BY <1>8, <1>10, StandsShort
  <2> QED
    BY <1>9, <2>2, <2>3, <2>4
<1> QED
  BY <1>11, <1>12

\* When an open end has read everything its peer sent, no frame with a payload is kept:
\* it was given with the read that brought its last byte.
THEOREM FramesArePrompt == Spec => []Prompt
<1>1. WsInv => Prompt
  <2> SUFFICES ASSUME Core, NEW x \in Ends, ends[x].up, ends[x].handler = "open",
                      ends[Peer(x)].wire = <<>>, ends[Peer(x)].buffer = <<>>, ends[Peer(x)].up,
                      NEW i \in 1..Len(ends[Peer(x)].said), ends[Peer(x)].said[i].length > 0
               PROVE  i <= Len(got[x])
    BY DEF Prompt, WsInv
  <2> DEFINE p == ends[Peer(x)]
             g == ends[x]
             m == Len(got[x])
  <2>1. Peer(x) \in Ends /\ p \in EndType /\ g \in EndType /\ got[x] \in Seq(Given)
    BY Peers, CoreTypes
  <2>2. InStep(Peer(x), p, g, got[x])
    BY Paired
  <2>3. PICK S, start, R : Joins(Peer(x), p, g, got[x], S, start, R)
    BY <2>2 DEF InStep
  <2>4. Stream(Peer(x), p.said, S, start) /\ Carries(p, S, R) /\ Heard(Peer(x), g, got[x], p.said, start, R)
    BY <2>3 DEF Joins
  <2>5. Len(p.wire) = 0 /\ Len(p.buffer) = 0
    OBVIOUS
  <2>6. R = Len(S)
    <3>1. R \in Nat /\ R + 0 + 0 = Len(S)
      BY <2>4, <2>5, Zenon DEF Carries
    <3> QED
      BY <3>1
  <2>7. g.dctx.state # "closed" /\ Standing(Peer(x), p.said, start, m, g.dctx, Len(S))
    BY <2>4, <2>6 DEF Heard
  <2>8. p.said \in Seq(Frame) /\ g.dctx \in Contexts /\ m \in Nat
    BY <2>1, EndTypes, LenProperties
  <2>9. i \in 1..Len(p.said) /\ p.said[i].length > 0
    OBVIOUS
  <2> HIDE DEF p, g, m
  <2>10. i <= m
    BY <2>1, <2>4, <2>7, <2>8, <2>9, AllYielded
  <2> QED
    BY <2>10 DEF m
<1> QED
  BY <1>1, WsInvariant, PTL

-----------------------------------------------------------------------------
(* FrameParser.                                                            *)

(* Runs of bytes. *)

LEMMA BytesAreSeq ==
  ASSUME NEW p \in Nat, NEW n \in Nat
  PROVE  Bytes(p, n) \in Seq(Nat) /\ Len(Bytes(p, n)) = n
BY DEF Bytes

LEMMA NoBytes ==
  ASSUME NEW p \in Nat, NEW n \in Nat
  PROVE  Bytes(p, n) = <<>> <=> n = 0
<1>1. ASSUME n = 0 PROVE Bytes(p, n) = <<>>
  BY <1>1 DEF Bytes
<1>2. ASSUME Bytes(p, n) = <<>> PROVE n = 0
  BY <1>2, BytesAreSeq
<1> QED BY <1>1, <1>2

LEMMA BytesJoin ==
  ASSUME NEW p \in Nat, NEW m \in Nat, NEW n \in Nat
  PROVE  Bytes(p, m) \o Bytes(p + m, n) = Bytes(p, m + n)
<1> DEFINE both == Bytes(p, m) \o Bytes(p + m, n)
<1>0. p + m \in Nat /\ m + n \in Nat
  OBVIOUS
<1>1. /\ Bytes(p, m) \in Seq(Nat) /\ Len(Bytes(p, m)) = m
      /\ Bytes(p + m, n) \in Seq(Nat) /\ Len(Bytes(p + m, n)) = n
      /\ Bytes(p, m + n) \in Seq(Nat) /\ Len(Bytes(p, m + n)) = m + n
  BY <1>0, BytesAreSeq
<1>2. /\ both \in Seq(Nat) /\ Len(both) = m + n
      /\ \A i \in 1..(m + n) :
           both[i] = IF i <= m THEN Bytes(p, m)[i] ELSE Bytes(p + m, n)[i - m]
  <2> HIDE DEF both
  <2> DEFINE a == Bytes(p, m)
             b == Bytes(p + m, n)
  <2>1. a \in Seq(Nat) /\ b \in Seq(Nat) /\ Len(a) = m /\ Len(b) = n /\ both = a \o b
    BY <1>1 DEF both
  <2> HIDE DEF a, b
  <2>2. /\ a \o b \in Seq(Nat) /\ Len(a \o b) = Len(a) + Len(b)
        /\ \A i \in 1..(Len(a) + Len(b)) :
             (a \o b)[i] = IF i <= Len(a) THEN a[i] ELSE b[i - Len(a)]
    BY <2>1, ConcatProperties
  <2>3. /\ both \in Seq(Nat) /\ Len(both) = m + n
        /\ \A i \in 1..(m + n) : both[i] = IF i <= m THEN a[i] ELSE b[i - m]
    BY <2>1, <2>2
  <2> QED BY <2>3 DEF a, b
<1> HIDE DEF both
<1>3. ASSUME NEW i \in 1..(m + n)
      PROVE  both[i] = Bytes(p, m + n)[i]
  <2>1. Bytes(p, m + n)[i] = p + i
    BY DEF Bytes
  <2>2. CASE i <= m
    <3>1. Bytes(p, m)[i] = p + i
      BY <2>2 DEF Bytes
    <3> QED BY <1>2, <2>1, <2>2, <3>1
  <2>3. CASE i > m
    <3>1. Bytes(p + m, n)[i - m] = p + i
      BY <2>3 DEF Bytes
    <3> QED BY <1>2, <2>1, <2>3, <3>1
  <2> QED BY <2>2, <2>3
<1>4. both = Bytes(p, m + n)
  BY <1>1, <1>2, <1>3, SeqEqual
<1> QED BY <1>4 DEF both

-----------------------------------------------------------------------------
(* The invariant. *)

Boundary == Frames!Boundary
FrameAt(p, n) == Frames!FrameAt(p, n)

\* Between frames: k bytes of the next header are kept.
InHeader ==
  \E k \in Nat : /\ k < HeaderSize
                 /\ hdrBuffer = Bytes(Boundary, k)
                 /\ taken = Boundary + k

\* Inside a frame: k bytes of its payload are kept.
InFrame ==
  /\ hdrBuffer = <<>> /\ head = Bytes(Boundary, HeaderSize)
  /\ length \in FrameLengths /\ length <= MaxFrameSize
  /\ \E k \in Nat : /\ IF at = "payload" THEN k = 0 ELSE k < length
                    /\ payload = Bytes(Boundary + HeaderSize, k)
                    /\ taken = Boundary + HeaderSize + k

Position ==
  /\ at # "failed" => IF readState = "header" THEN InHeader ELSE InFrame
  /\ at = "payload" => readState = "payload"
  /\ at = "loop" /\ readState = "payload" => remain > 0
  /\ at = "returned" => remain = 0

FrameInv == /\ TypeOK /\ Boundary \in Nat
            /\ Position /\ NothingHeldBack /\ HeldIsBounded

LEMMA ConstantTypes == HeaderSize \in Nat /\ HeaderSize > 0 /\ MaxFrameSize \in Nat
BY ParserBounds

LEMMA NextBoundary ==
  ASSUME TypeOK, NEW p \in Nat, NEW n \in Nat,
         frames' = Append(frames, FrameAt(p, n))
  PROVE  /\ Boundary' = p + HeaderSize + n
         /\ frames' \in Seq([start : Nat, length : Nat, head : Seq(Nat), body : Seq(Nat)])
<1> DEFINE f == FrameAt(p, n)
           F == [start : Nat, length : Nat, head : Seq(Nat), body : Seq(Nat)]
<1>1. f \in F /\ f.start = p /\ f.length = n
  <2>1. /\ Bytes(p, HeaderSize) \in Seq(Nat)
        /\ Bytes(p + HeaderSize, n) \in Seq(Nat)
    <3>1. HeaderSize \in Nat /\ p + HeaderSize \in Nat
      BY ConstantTypes
    <3> QED BY <3>1, BytesAreSeq
  <2>2. f = [start |-> p, length |-> n,
             head |-> Bytes(p, HeaderSize), body |-> Bytes(p + HeaderSize, n)]
    BY DEF FrameAt, Frames!FrameAt, Frames!Bytes, Bytes
  <2> QED BY <2>1, <2>2
<1>2. frames \in Seq(F)
  BY DEF TypeOK
<1>2a. frames' = Append(frames, f)
  OBVIOUS
<1> HIDE DEF f, F
<1>3. /\ frames' \in Seq(F) /\ Len(frames') = Len(frames) + 1
      /\ frames'[Len(frames) + 1] = f /\ frames' # <<>>
  <2>1. /\ Append(frames, f) \in Seq(F) /\ Append(frames, f) # <<>>
        /\ Len(Append(frames, f)) = Len(frames) + 1
        /\ Append(frames, f)[Len(frames) + 1] = f
    <3>1. f \in F
      BY <1>1
    <3> QED BY <1>2, <3>1, AppendProperties
  <2> QED BY <1>2a, <2>1
<1>4. frames'[Len(frames')] = f
  BY <1>3
<1>5. Boundary' = f.start + HeaderSize + f.length
  BY <1>3, <1>4 DEF Boundary, Frames!Boundary, Frames!EndOf
<1> QED BY <1>1, <1>3, <1>5 DEF F

LEMMA FrameInitInv == ParserInit => FrameInv
<1> SUFFICES ASSUME ParserInit PROVE FrameInv
  OBVIOUS
<1>1. TypeOK
  <2>1. <<>> \in Seq(Nat)
    BY EmptySeq
  <2>2. frames \in Seq([start : Nat, length : Nat, head : Seq(Nat), body : Seq(Nat)])
    BY EmptySeq DEF ParserInit
  <2> QED BY <2>1, <2>2 DEF ParserInit, TypeOK
<1>2. Boundary = 0
  BY DEF ParserInit, Boundary, Frames!Boundary
<1>3. InHeader
  <2>1. Bytes(0, 0) = <<>>
    BY NoBytes
  <2> QED BY <1>2, <2>1, ConstantTypes DEF ParserInit, InHeader
<1>4. Len(hdrBuffer) = 0 /\ Len(payload) = 0
  BY DEF ParserInit
<1> QED BY <1>1, <1>2, <1>3, <1>4, ConstantTypes
        DEF FrameInv, Position, NothingHeldBack, HeldIsBounded, ParserInit

-----------------------------------------------------------------------------
(* The steps. *)

\* What the steps that parse no frame have in common.
LEMMA SameBoundary ==
  ASSUME UNCHANGED frames
  PROVE  Boundary' = Boundary
BY DEF Boundary, Frames!Boundary, Frames!EndOf

LEMMA ParseInputDataInv ==
  ASSUME FrameInv, NEW n \in 1..MaxInput, ParseInputData(n)
  PROVE  FrameInv'
<1>1. Boundary' = Boundary
  BY SameBoundary DEF ParseInputData
<1>2. n \in Nat
  BY ParserBounds
<1>3. TypeOK'
  BY <1>2 DEF FrameInv, TypeOK, ParseInputData
<1>4. Position'
  BY <1>1 DEF FrameInv, Position, InHeader, InFrame, ParseInputData
<1> QED BY <1>1, <1>3, <1>4 DEF FrameInv, NothingHeldBack, HeldIsBounded, ParseInputData

LEMMA AllConsumedInv ==
  ASSUME FrameInv, AllConsumed
  PROVE  FrameInv'
<1>1. Boundary' = Boundary
  BY SameBoundary DEF AllConsumed
<1>2. TypeOK'
  BY DEF FrameInv, TypeOK, AllConsumed
<1>3. Position'
  BY <1>1 DEF FrameInv, Position, InHeader, InFrame, AllConsumed
<1>4. NothingHeldBack'
  BY DEF FrameInv, TypeOK, Position, NothingHeldBack, HeldIsBounded, AllConsumed
<1> QED BY <1>1, <1>2, <1>3, <1>4 DEF FrameInv, HeldIsBounded, AllConsumed

LEMMA KeepHeaderInv ==
  ASSUME FrameInv, KeepHeader
  PROVE  FrameInv'
<1>1. Boundary' = Boundary /\ Boundary \in Nat
  BY SameBoundary DEF KeepHeader, FrameInv
<1>2. PICK k \in Nat : /\ k < HeaderSize
                       /\ hdrBuffer = Bytes(Boundary, k)
                       /\ taken = Boundary + k
  BY DEF FrameInv, Position, InHeader, KeepHeader
<1>3. /\ remain \in Nat /\ taken \in Nat /\ k + remain \in Nat
      /\ taken' = Boundary + (k + remain) /\ remain' = 0
  BY <1>1, <1>2 DEF FrameInv, TypeOK, KeepHeader, Consume
<1>4. hdrBuffer' = Bytes(Boundary, k + remain)
  <2>1. hdrBuffer' = Bytes(Boundary, k) \o Bytes(Boundary + k, remain)
    BY <1>2 DEF KeepHeader
  <2> QED BY <1>1, <1>3, <2>1, BytesJoin
<1>5. k + remain < HeaderSize
  <2>1. Len(hdrBuffer) = k
    BY <1>1, <1>2, BytesAreSeq
  <2> QED BY <2>1 DEF KeepHeader
<1>6. hdrBuffer' \in Seq(Nat) /\ Len(hdrBuffer') = k + remain
  BY <1>1, <1>3, <1>4, BytesAreSeq
<1>7. TypeOK'
  BY <1>1, <1>3, <1>6 DEF FrameInv, TypeOK, KeepHeader
<1>8. InHeader'
  BY <1>1, <1>3, <1>4, <1>5 DEF InHeader
<1>9. Position'
  BY <1>3, <1>8 DEF Position, KeepHeader
<1>10. NothingHeldBack' /\ HeldIsBounded'
  BY <1>5, <1>6 DEF FrameInv, NothingHeldBack, HeldIsBounded, KeepHeader
<1> QED BY <1>1, <1>7, <1>9, <1>10 DEF FrameInv

LEMMA HeaderInv ==
  ASSUME FrameInv, NEW n \in FrameLengths, Header(n)
  PROVE  FrameInv'
<1>0. n \in Nat /\ HeaderSize \in Nat /\ HeaderSize > 0
  BY ParserBounds
<1>1. Boundary' = Boundary /\ Boundary \in Nat
  BY SameBoundary DEF Header, FrameInv
<1>2. PICK k \in Nat : /\ k < HeaderSize
                       /\ hdrBuffer = Bytes(Boundary, k)
                       /\ taken = Boundary + k
  BY DEF FrameInv, Position, InHeader, Header
<1>3. Len(hdrBuffer) = k
  BY <1>1, <1>2, BytesAreSeq
<1>4. /\ HeaderSize - k \in Nat /\ remain - (HeaderSize - k) \in Nat
      /\ taken' = Boundary + HeaderSize /\ remain' = remain - (HeaderSize - k)
  BY <1>0, <1>1, <1>2, <1>3 DEF FrameInv, TypeOK, Header, Consume
<1>5. head' = Bytes(Boundary, HeaderSize)
  <2>1. head' = Bytes(Boundary, k) \o Bytes(Boundary + k, HeaderSize - k)
    BY <1>2, <1>3 DEF Header
  <2>2. head' = Bytes(Boundary, k + (HeaderSize - k))
    BY <1>1, <1>4, <2>1, BytesJoin
  <2> QED BY <1>0, <2>2
<1>6. head' \in Seq(Nat) /\ <<>> \in Seq(Nat) /\ Len(<<>>) = 0
  BY <1>0, <1>1, <1>5, BytesAreSeq, EmptySeq
<1>7. TypeOK'
  BY <1>0, <1>1, <1>4, <1>6 DEF FrameInv, TypeOK, Header, AfterHeader
<1>8. CASE n > MaxFrameSize
  <2>1. Position'
    BY <1>8 DEF Position, Header, AfterHeader, TooLong
  <2>2. NothingHeldBack' /\ HeldIsBounded'
    BY <1>0, <1>6, <1>8, ConstantTypes
       DEF NothingHeldBack, HeldIsBounded, Header, AfterHeader, TooLong
  <2> QED BY <1>1, <1>7, <2>1, <2>2 DEF FrameInv
<1>9. CASE n <= MaxFrameSize
  <2>1. Bytes(Boundary + HeaderSize, 0) = <<>>
    BY <1>0, <1>1, NoBytes
  <2>2. at' = "payload" /\ readState' = "payload" /\ length' = n
    BY <1>0, <1>9, ConstantTypes DEF Header, AfterHeader, TooLong
  <2>3. InFrame'
    BY <1>0, <1>1, <1>4, <1>5, <1>9, <2>1, <2>2 DEF Header, InFrame
  <2>4. Position'
    BY <2>2, <2>3 DEF Position
  <2>5. NothingHeldBack' /\ HeldIsBounded'
    BY <1>0, <1>6, <1>9, <2>2, ConstantTypes DEF NothingHeldBack, HeldIsBounded, Header
  <2> QED BY <1>1, <1>7, <2>4, <2>5 DEF FrameInv
<1> QED BY <1>0, <1>8, <1>9, ConstantTypes

\* Where the parser is when it reads a payload.
InPayloadAt(k) ==
  /\ k < length \/ (k = 0 /\ at = "payload")
  /\ payload = Bytes(Boundary + HeaderSize, k) /\ Len(payload) = k
  /\ payload = <<>> <=> k = 0
  /\ taken = Boundary + HeaderSize + k

LEMMA ReadingPayload ==
  ASSUME FrameInv, InPayload
  PROVE  /\ readState = "payload" /\ hdrBuffer = <<>>
         /\ head = Bytes(Boundary, HeaderSize)
         /\ length \in FrameLengths /\ length \in Nat /\ length <= MaxFrameSize
         /\ remain \in Nat /\ taken \in Nat /\ Boundary \in Nat
         /\ HeaderSize \in Nat /\ HeaderSize > 0 /\ Boundary + HeaderSize \in Nat
         /\ \E k \in Nat : InPayloadAt(k)
<1>1. readState = "payload" /\ at # "failed"
  BY DEF FrameInv, Position, InPayload
<1>2. InFrame
  BY <1>1 DEF FrameInv, Position
<1>3. /\ Boundary \in Nat /\ HeaderSize \in Nat /\ HeaderSize > 0
      /\ Boundary + HeaderSize \in Nat
  BY ConstantTypes DEF FrameInv
<1>4. PICK k \in Nat : /\ IF at = "payload" THEN k = 0 ELSE k < length
                       /\ payload = Bytes(Boundary + HeaderSize, k)
                       /\ taken = Boundary + HeaderSize + k
  BY <1>2 DEF InFrame
<1>5. Len(payload) = k /\ (payload = <<>> <=> k = 0)
  BY <1>3, <1>4, BytesAreSeq, NoBytes
<1>6. InPayloadAt(k)
  BY <1>4, <1>5 DEF InPayloadAt
<1> QED BY <1>1, <1>2, <1>3, <1>6 DEF InFrame, FrameInv, TypeOK

LEMMA KeepPayloadInv ==
  ASSUME FrameInv, KeepPayload
  PROVE  FrameInv'
<1>0. InPayload
  BY DEF KeepPayload
<1>1. /\ readState = "payload" /\ hdrBuffer = <<>>
      /\ head = Bytes(Boundary, HeaderSize)
      /\ length \in FrameLengths /\ length \in Nat /\ length <= MaxFrameSize
      /\ remain \in Nat /\ taken \in Nat /\ Boundary \in Nat
      /\ HeaderSize \in Nat /\ HeaderSize > 0 /\ Boundary + HeaderSize \in Nat
  BY <1>0, ReadingPayload
<1>2. PICK k \in Nat : InPayloadAt(k)
  BY <1>0, ReadingPayload
<1>3. Boundary' = Boundary
  BY SameBoundary DEF KeepPayload
<1> DEFINE n == IF payload = <<>> THEN remain ELSE CopyLen(Len(payload))
<1>4. n = remain /\ k + remain < length
  <2>1. CASE k = 0
    BY <1>1, <1>2, <2>1 DEF KeepPayload, InPayloadAt, Fits
  <2>2. CASE k # 0
    <3>1. payload # <<>> /\ Len(payload) = k
      BY <1>2, <2>2 DEF InPayloadAt
    <3>2. n = CopyLen(k) /\ k + CopyLen(k) < length
      BY <3>1 DEF KeepPayload
    <3>3. CASE length - k > remain
      BY <3>2, <3>3 DEF CopyLen
    <3>4. CASE ~(length - k > remain)
      BY <1>1, <3>2, <3>4 DEF CopyLen
    <3> QED BY <3>2, <3>3, <3>4 DEF CopyLen
  <2> QED BY <2>1, <2>2
<1>5. /\ payload' = payload \o Bytes(taken, remain)
      /\ taken' = taken + remain /\ remain' = 0 /\ at' = "returned"
  BY <1>1, <1>4, SMTT(60) DEF KeepPayload, Consume
<1>6. payload' = Bytes(Boundary + HeaderSize, k + remain)
  <2>1. payload' = Bytes(Boundary + HeaderSize, k) \o Bytes(Boundary + HeaderSize + k, remain)
    BY <1>2, <1>5 DEF InPayloadAt
  <2> QED BY <1>1, <2>1, BytesJoin
<1>7. payload' \in Seq(Nat) /\ Len(payload') = k + remain /\ k + remain \in Nat
  <2>1. k + remain \in Nat
    BY <1>1
  <2> QED BY <1>1, <1>6, <2>1, BytesAreSeq
<1>8. TypeOK'
  BY <1>1, <1>5, <1>7 DEF FrameInv, TypeOK, KeepPayload
<1>9. taken' = Boundary + HeaderSize + (k + remain)
  BY <1>1, <1>2, <1>5 DEF InPayloadAt
<1>10. InFrame'
  BY <1>1, <1>3, <1>4, <1>5, <1>6, <1>7, <1>9 DEF InFrame, KeepPayload
<1>11. Position'
  BY <1>1, <1>5, <1>10 DEF Position, KeepPayload
<1>12. NothingHeldBack' /\ HeldIsBounded'
  BY <1>1, <1>4, <1>5, <1>7, ConstantTypes
     DEF FrameInv, NothingHeldBack, HeldIsBounded, KeepPayload
<1> QED BY <1>1, <1>3, <1>8, <1>11, <1>12 DEF FrameInv

\* A frame that is parsed is the next frame of the input.
LEMMA ParsedIsNext ==
  ASSUME FrameInv, InPayload, NEW body, NEW over \in BOOLEAN, Parsed(body, over),
         body = Bytes(Boundary + HeaderSize, length)
  PROVE  /\ frames' = Append(frames, FrameAt(Boundary, length))
         /\ Boundary' = Boundary + HeaderSize + length /\ Boundary' \in Nat
         /\ frames' \in Seq([start : Nat, length : Nat, head : Seq(Nat), body : Seq(Nat)])
<1>1. /\ head = Bytes(Boundary, HeaderSize) /\ length \in Nat /\ Boundary \in Nat
      /\ HeaderSize \in Nat /\ HeaderSize > 0
  BY ReadingPayload
<1>2. head[1] - 1 = Boundary
  <2>1. Bytes(Boundary, HeaderSize)[1] = Boundary + 1
    BY <1>1 DEF Bytes
  <2> QED BY <1>1, <2>1
<1>3. FrameAt(Boundary, length) =
        [start |-> Boundary, length |-> length, head |-> Bytes(Boundary, HeaderSize),
         body |-> Bytes(Boundary + HeaderSize, length)]
  BY DEF FrameAt, Frames!FrameAt, Frames!Bytes, Bytes
<1>4. frames' = Append(frames, FrameAt(Boundary, length))
  BY <1>1, <1>2, <1>3 DEF Parsed
<1>5. /\ Boundary' = Boundary + HeaderSize + length
      /\ frames' \in Seq([start : Nat, length : Nat, head : Seq(Nat), body : Seq(Nat)])
  BY <1>1, <1>4, NextBoundary DEF FrameInv
<1> QED BY <1>1, <1>4, <1>5

LEMMA PayloadAtOnceInv ==
  ASSUME FrameInv, NEW over \in BOOLEAN, PayloadAtOnce(over)
  PROVE  FrameInv' /\ frames' = Append(frames, FrameAt(Boundary, length)) /\ length \in FrameLengths
<1>0. InPayload /\ payload = <<>> /\ Fits /\ Parsed(Bytes(taken, length), over)
  BY DEF PayloadAtOnce
<1>1. /\ hdrBuffer = <<>>
      /\ length \in FrameLengths /\ length \in Nat /\ length <= MaxFrameSize
      /\ remain \in Nat /\ taken \in Nat /\ Boundary \in Nat
      /\ HeaderSize \in Nat /\ HeaderSize > 0 /\ Boundary + HeaderSize \in Nat
  BY <1>0, ReadingPayload
<1>2. taken = Boundary + HeaderSize
  <2>1. PICK k \in Nat : InPayloadAt(k)
    BY <1>0, ReadingPayload
  <2>2. k = 0
    BY <1>0, <2>1 DEF InPayloadAt
  <2> QED BY <1>1, <2>1, <2>2 DEF InPayloadAt
<1>3. /\ frames' = Append(frames, FrameAt(Boundary, length))
      /\ Boundary' = Boundary + HeaderSize + length /\ Boundary' \in Nat
      /\ frames' \in Seq([start : Nat, length : Nat, head : Seq(Nat), body : Seq(Nat)])
  BY <1>0, <1>2, ParsedIsNext
<1>4. remain - length \in Nat /\ taken + length \in Nat
  BY <1>0, <1>1 DEF Fits
<1>5. TypeOK'
  <2>1. /\ remain' \in Nat /\ taken' \in Nat /\ readState' \in {"header", "payload"}
        /\ at' \in {"loop", "failed"}
    BY <1>4 DEF FrameInv, TypeOK, PayloadAtOnce, Parsed, Consume
  <2> QED BY <1>3, <2>1 DEF FrameInv, TypeOK, PayloadAtOnce
<1>6. Position'
  <2>1. CASE over
    BY <2>1 DEF Position, PayloadAtOnce, Parsed
  <2>2. CASE ~over
    <3>1. taken' = Boundary' /\ hdrBuffer' = <<>>
      BY <1>1, <1>2, <1>3, <2>2 DEF PayloadAtOnce, Consume
    <3>2. Bytes(Boundary', 0) = <<>>
      BY <1>3, NoBytes
    <3>3. InHeader'
      BY <1>1, <1>3, <3>1, <3>2 DEF InHeader
    <3> QED BY <2>2, <3>3 DEF Position, PayloadAtOnce, Parsed
  <2> QED BY <2>1, <2>2
<1>7. NothingHeldBack' /\ HeldIsBounded'
  BY <1>1 DEF FrameInv, NothingHeldBack, HeldIsBounded, PayloadAtOnce, Parsed
<1> QED BY <1>1, <1>3, <1>5, <1>6, <1>7 DEF FrameInv

LEMMA PayloadCompleteInv ==
  ASSUME FrameInv, NEW over \in BOOLEAN, PayloadComplete(over)
  PROVE  FrameInv' /\ frames' = Append(frames, FrameAt(Boundary, length)) /\ length \in FrameLengths
<1>0. InPayload
  BY DEF PayloadComplete
<1>1. /\ hdrBuffer = <<>>
      /\ length \in FrameLengths /\ length \in Nat /\ length <= MaxFrameSize
      /\ remain \in Nat /\ taken \in Nat /\ Boundary \in Nat
      /\ HeaderSize \in Nat /\ HeaderSize > 0 /\ Boundary + HeaderSize \in Nat
  BY <1>0, ReadingPayload
<1>2. PICK k \in Nat : InPayloadAt(k)
  BY <1>0, ReadingPayload
<1>3. payload # <<>> /\ Len(payload) = k /\ k + CopyLen(k) >= length /\ k < length
  BY <1>2 DEF PayloadComplete, InPayloadAt
<1>4. CopyLen(k) = length - k /\ length - k <= remain /\ length - k \in Nat
  <2>1. CASE length - k > remain
    BY <1>1, <1>3, <2>1 DEF CopyLen
  <2>2. CASE ~(length - k > remain)
    BY <1>1, <1>3, <2>2 DEF CopyLen
  <2> QED BY <2>1, <2>2
<1> DEFINE body == payload \o Bytes(taken, length - k)
<1>5. /\ taken' = taken + (length - k) /\ remain' = remain - (length - k)
      /\ Parsed(body, over) /\ payload' = IF over THEN body ELSE <<>>
  BY <1>3, <1>4 DEF PayloadComplete, Consume
<1>6. body = Bytes(Boundary + HeaderSize, length)
  <2>1. body = Bytes(Boundary + HeaderSize, k) \o Bytes(Boundary + HeaderSize + k, length - k)
    BY <1>2 DEF InPayloadAt
  <2>2. body = Bytes(Boundary + HeaderSize, k + (length - k))
    BY <1>1, <1>4, <2>1, BytesJoin, ZenonT(60)
  <2> QED BY <1>1, <2>2
<1> HIDE DEF body
<1>7. /\ frames' = Append(frames, FrameAt(Boundary, length))
      /\ Boundary' = Boundary + HeaderSize + length /\ Boundary' \in Nat
      /\ frames' \in Seq([start : Nat, length : Nat, head : Seq(Nat), body : Seq(Nat)])
  BY <1>0, <1>5, <1>6, ParsedIsNext
<1>8. /\ body \in Seq(Nat) /\ Len(body) = length
      /\ <<>> \in Seq(Nat) /\ Len(<<>>) = 0
  BY <1>1, <1>6, BytesAreSeq, EmptySeq
<1>9. remain' \in Nat /\ taken' = Boundary' /\ taken' \in Nat
  BY <1>1, <1>2, <1>4, <1>5, <1>7 DEF InPayloadAt
<1>10. payload' \in Seq(Nat) /\ Len(payload') <= MaxFrameSize
  BY <1>1, <1>5, <1>8, ConstantTypes
<1>11. /\ readState' = "header" /\ at' = (IF over THEN "failed" ELSE "loop")
       /\ UNCHANGED <<length, head, hdrBuffer>>
  BY <1>5 DEF PayloadComplete, Parsed
<1>12. TypeOK'
  BY <1>7, <1>9, <1>10, <1>11 DEF FrameInv, TypeOK
<1>13. Position'
  <2>1. Bytes(Boundary', 0) = <<>>
    BY <1>7, NoBytes
  <2>2. InHeader'
    BY <1>1, <1>7, <1>9, <1>11, <2>1 DEF InHeader
  <2> QED BY <1>11, <2>2 DEF Position
<1>14. NothingHeldBack' /\ HeldIsBounded'
  BY <1>1, <1>10, <1>11 DEF FrameInv, NothingHeldBack, HeldIsBounded
<1> QED BY <1>1, <1>7, <1>12, <1>13, <1>14 DEF FrameInv

LEMMA FrameStepInv == FrameInv /\ [ParserNext]_parserVars => FrameInv'
<1> SUFFICES ASSUME FrameInv, [ParserNext]_parserVars PROVE FrameInv'
  OBVIOUS
<1>1. CASE ParserRound
  BY <1>1, AllConsumedInv, KeepHeaderInv, HeaderInv, KeepPayloadInv, PayloadAtOnceInv,
     PayloadCompleteInv DEF ParserRound
<1>2. CASE \E n \in 1..MaxInput : ParseInputData(n)
  BY <1>2, ParseInputDataInv
<1>3. CASE UNCHANGED parserVars
  <2>1. Boundary' = Boundary
    BY <1>3, SameBoundary DEF parserVars
  <2> QED BY <1>3, <2>1 DEF parserVars, FrameInv, TypeOK, Position, InHeader, InFrame,
                             NothingHeldBack, HeldIsBounded
<1> QED BY <1>1, <1>2, <1>3 DEF ParserNext

-----------------------------------------------------------------------------
(* The theorems. *)

\* The inductive invariant holds of every reachable state.
THEOREM FrameInvariance == ParserSpec => []FrameInv
BY FrameInitInv, FrameStepInv, PTL DEF ParserSpec

\* A frame is never kept waiting once its last byte is there (parseInputData).
THEOREM NoFrameWaits == ParserSpec => []NothingHeldBack
<1>1. FrameInv => NothingHeldBack
  BY DEF FrameInv
<1> QED BY <1>1, FrameInvariance, PTL

\* What the parser keeps is bounded by the frame size that was agreed on.
THEOREM KeptIsBounded == ParserSpec => []HeldIsBounded
<1>1. FrameInv => HeldIsBounded
  BY DEF FrameInv
<1> QED BY <1>1, FrameInvariance, PTL

\* A step of the parser parses the next frame of the input, or none.
LEMMA StepIsFrame == FrameInv /\ [ParserNext]_parserVars => [Frames!StreamNext]_frames
<1> SUFFICES ASSUME FrameInv, [ParserNext]_parserVars, frames' # frames
             PROVE  Frames!StreamNext
  OBVIOUS
<1>1. \E over \in BOOLEAN : PayloadAtOnce(over) \/ PayloadComplete(over)
  BY DEF ParserNext, ParserRound, AllConsumed, KeepHeader, KeepPayload, Header, ParseInputData, parserVars
<1>2. frames' = Append(frames, FrameAt(Boundary, length)) /\ length \in FrameLengths
  BY <1>1, PayloadAtOnceInv, PayloadCompleteInv
<1> QED BY <1>2 DEF Frames!StreamNext, FrameAt, Boundary

\* However the input is cut into pieces, the frames are those of the input: the
\* parser implements FrameStream.
THEOREM ImplementsFrameStream == ParserSpec => IsFrameStream
<1>1. ParserInit => Frames!StreamInit
  BY DEF ParserInit, Frames!StreamInit
<1> QED BY <1>1, StepIsFrame, FrameInvariance, PTL DEF ParserSpec, IsFrameStream, Frames!StreamSpec
=============================================================================
