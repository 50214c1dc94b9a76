------------------------ MODULE TcpConnectionProofs ------------------------
(***************************************************************************)
(* Proofs about TcpConnection for every capacity of the kernel, every size *)
(* of the read buffer and every split of a send into iovecs.               *)
(*                                                                         *)
(* The inductive invariant is Inv: the safety properties together with     *)
(* Lifecycle, which says what the socket's state tells about its sources.  *)
(* What is read has one of its own, InputSplit; the refinement of          *)
(* ByteStream follows from NoByteLost before and after each step.          *)
(***************************************************************************)
EXTENDS TcpConnection, SequenceTheorems, TLAPS

-----------------------------------------------------------------------------
(* Cutting and joining byte sequences. *)

LEMMA UptoIsSeq ==
  ASSUME NEW n \in Nat
  PROVE  Upto(n) \in Seq(Nat) /\ Len(Upto(n)) = n /\ \A i \in 1..n : Upto(n)[i] = i
BY DEF Upto

LEMMA UptoGrows ==
  ASSUME NEW m \in Nat, NEW n \in Nat
  PROVE  /\ [i \in 1..n |-> m + i] \in Seq(Nat)
         /\ Len([i \in 1..n |-> m + i]) = n
         /\ Upto(m) \o [i \in 1..n |-> m + i] = Upto(m + n)
<1> DEFINE next == [i \in 1..n |-> m + i]
<1>1. next \in Seq(Nat) /\ Len(next) = n /\ \A i \in 1..n : next[i] = m + i
  OBVIOUS
<1> HIDE DEF next
<1>2. m + n \in Nat
  OBVIOUS
<1>3. /\ Upto(m) \o next \in Seq(Nat) /\ Len(Upto(m) \o next) = m + n
      /\ \A i \in 1..(m + n) : (Upto(m) \o next)[i]
                                 = IF i <= m THEN Upto(m)[i] ELSE next[i - m]
  BY <1>1, UptoIsSeq, ConcatProperties DEF Upto
<1>4. Upto(m) \o next = Upto(m + n)
  <2> DEFINE both == Upto(m) \o next
  <2>0. /\ both \in Seq(Nat) /\ Len(both) = m + n
        /\ \A i \in 1..(m + n) : both[i] = IF i <= m THEN Upto(m)[i] ELSE next[i - m]
    BY <1>3
  <2> HIDE DEF both
  <2>1. ASSUME NEW i \in 1..(m + n)
        PROVE  both[i] = Upto(m + n)[i]
    <3>1. Upto(m + n)[i] = i /\ i \in Nat
      BY <1>2 DEF Upto
    <3>2. CASE i <= m
      <4>1. Upto(m)[i] = i
        BY <3>2 DEF Upto
      <4> QED BY <2>0, <3>1, <3>2, <4>1
    <3>3. CASE i > m
      <4>1. i - m \in 1..n /\ next[i - m] = i
        BY <1>1, <3>3
      <4> QED BY <2>0, <3>1, <3>3, <4>1
    <3> QED BY <3>2, <3>3
  <2>2. both = Upto(m + n)
    BY <1>2, <2>0, <2>1, UptoIsSeq, SeqEqual
  <2> QED BY <2>2 DEF both
<1> QED BY <1>1, <1>4 DEF next

\* Both parts of a cut, and the whole again.
LEMMA Cut ==
  ASSUME NEW s \in Seq(Nat), NEW k \in 0..Len(s)
  PROVE  /\ SubSeq(s, 1, k) \in Seq(Nat) /\ Len(SubSeq(s, 1, k)) = k
         /\ Drop(s, k) \in Seq(Nat) /\ Len(Drop(s, k)) = Len(s) - k
         /\ SubSeq(s, 1, k) \o Drop(s, k) = s
<1>1. Len(s) \in Nat /\ k \in Int /\ \A i \in 1..Len(s) : s[i] \in Nat
  BY LenProperties, ElementOfSeq
<1>2. SubSeq(s, 1, k) \in Seq(Nat) /\ Len(SubSeq(s, 1, k)) = k
  BY <1>1
<1>3. Drop(s, k) \in Seq(Nat) /\ Len(Drop(s, k)) = Len(s) - k
  BY <1>1 DEF Drop
<1>4. SubSeq(s, 1, k) \o Drop(s, k) = s
  <2>1. 1 \in 1..(Len(s) + 1) /\ k \in (1 - 1)..Len(s) /\ Len(s) \in k..Len(s)
    BY <1>1
  <2>2. SubSeq(s, 1, k) \o SubSeq(s, k + 1, Len(s)) = SubSeq(s, 1, Len(s))
    BY <2>1, ConcatAdjacentSubSeq
  <2> QED BY <2>2, SubSeqFull DEF Drop
<1> QED BY <1>2, <1>3, <1>4

\* The bytes of s after the first i, up to the j-th, and one run after another.
Part(s, i, j) == SubSeq(s, i + 1, j)
Cat(p, q) == p \o q

LEMMA JoinAssociative ==
  ASSUME NEW T, NEW p \in Seq(T), NEW q \in Seq(T), NEW r \in Seq(T)
  PROVE  (p \o q) \o r = p \o (q \o r)
BY ConcatAssociative, SMTT(60)

LEMMA CatAssociative ==
  ASSUME NEW p \in Seq(Nat), NEW q \in Seq(Nat), NEW r \in Seq(Nat)
  PROVE  Cat(Cat(p, q), r) = Cat(p, Cat(q, r))
<1>1. (p \o q) \o r = p \o (q \o r)
  BY JoinAssociative, SMTT(60)
<1> QED BY <1>1 DEF Cat

\* The front of a run of numbers is one.
LEMMA FrontOfUpto ==
  ASSUME NEW p \in Seq(Nat), NEW q \in Seq(Nat), NEW m \in Nat, Cat(p, q) = Upto(m)
  PROVE  p = Upto(Len(p))
<1>0. Len(p) \in Nat /\ Len(q) \in Nat
  BY LenProperties
<1>a. /\ p \o q \in Seq(Nat) /\ Len(p \o q) = Len(p) + Len(q)
      /\ \A i \in 1..(Len(p) + Len(q)) : (p \o q)[i] = IF i <= Len(p) THEN p[i] ELSE q[i - Len(p)]
  BY ConcatProperties
<1>b. PICK both : both = p \o q
  OBVIOUS
<1>1. /\ both \in Seq(Nat) /\ Len(both) = Len(p) + Len(q) /\ Len(p) \in Nat /\ Len(q) \in Nat
      /\ \A i \in 1..(Len(p) + Len(q)) : both[i] = IF i <= Len(p) THEN p[i] ELSE q[i - Len(p)]
  BY <1>0, <1>a, <1>b
<1>2. both = Upto(m)
  BY <1>b DEF Cat
<1>3. Len(both) = m /\ \A i \in 1..m : both[i] = i
  BY <1>2, UptoIsSeq
<1>4. \A i \in 1..Len(p) : p[i] = Upto(Len(p))[i]
  BY <1>1, <1>3 DEF Upto
<1>5. Upto(Len(p)) \in Seq(Nat) /\ Len(Upto(Len(p))) = Len(p)
  BY <1>1, UptoIsSeq
<1> QED BY <1>4, <1>5, SeqEqual

LEMMA CatEmpty ==
  ASSUME NEW p \in Seq(Nat)
  PROVE  Cat(<<>>, p) = p /\ Cat(Cat(<<>>, <<>>), p) = p
BY ConcatEmptySeq, EmptySeq DEF Cat

LEMMA PartFacts ==
  ASSUME NEW s \in Seq(Nat), NEW i \in Nat, NEW j \in Nat
  PROVE  /\ j <= Len(s) => Part(s, i, j) \in Seq(Nat)
         /\ j <= i => Part(s, i, j) = <<>>
         /\ i <= j /\ j <= Len(s) => Cat(Part(s, i, j), Part(s, j, Len(s))) = Part(s, i, Len(s))
<1>1. Len(s) \in Nat
  BY LenProperties
<1>2. j <= Len(s) => Part(s, i, j) \in Seq(Nat)
  BY <1>1, ElementOfSeq DEF Part
<1>3. j <= i => Part(s, i, j) = <<>>
  BY SubSeqEmpty DEF Part
<1>4. ASSUME i <= j, j <= Len(s)
      PROVE  Cat(Part(s, i, j), Part(s, j, Len(s))) = Part(s, i, Len(s))
  <2>1. i + 1 \in 1..(Len(s) + 1) /\ j \in ((i + 1) - 1)..Len(s) /\ Len(s) \in j..Len(s)
    BY <1>1, <1>4
  <2> QED BY <2>1, ConcatAdjacentSubSeq DEF Part, Cat
<1> QED BY <1>2, <1>3, <1>4, Zenon

\* What is left of three consecutive pieces, ending at a, b and the end of s,
\* once everything up to i is gone.
LEMMA PiecesJoin ==
  ASSUME NEW s \in Seq(Nat), NEW i \in Nat, NEW a \in Nat, NEW b \in Nat,
         i <= Len(s), a <= Len(s), b <= Len(s), a <= b
  PROVE  /\ i <= a =>
              Cat(Cat(Part(s, i, a), Part(s, a, b)), Part(s, b, Len(s))) = Part(s, i, Len(s))
         /\ a <= i /\ i <= b =>
              Cat(Cat(Part(s, i, a), Part(s, i, b)), Part(s, b, Len(s))) = Part(s, i, Len(s))
         /\ a <= i /\ b <= i =>
              Cat(Cat(Part(s, i, a), Part(s, i, b)), Part(s, i, Len(s))) = Part(s, i, Len(s))
<1>1. Len(s) \in Nat /\ Len(s) <= Len(s)
  BY LenProperties
<1>2. /\ Part(s, i, a) \in Seq(Nat) /\ Part(s, i, b) \in Seq(Nat) /\ Part(s, a, b) \in Seq(Nat)
      /\ Part(s, b, Len(s)) \in Seq(Nat) /\ Part(s, i, Len(s)) \in Seq(Nat)
  BY <1>1, PartFacts, Zenon
<1>3. ASSUME i <= a
      PROVE  Cat(Cat(Part(s, i, a), Part(s, a, b)), Part(s, b, Len(s))) = Part(s, i, Len(s))
  <2>1. Cat(Part(s, a, b), Part(s, b, Len(s))) = Part(s, a, Len(s))
    BY PartFacts, Zenon
  <2>2. Cat(Part(s, i, a), Part(s, a, Len(s))) = Part(s, i, Len(s))
    BY <1>3, PartFacts, Zenon
  <2>3. Cat(Cat(Part(s, i, a), Part(s, a, b)), Part(s, b, Len(s)))
          = Cat(Part(s, i, a), Cat(Part(s, a, b), Part(s, b, Len(s))))
    BY <1>2, CatAssociative
  <2> QED BY <2>1, <2>2, <2>3, Zenon
<1>4. ASSUME a <= i, i <= b
      PROVE  Cat(Cat(Part(s, i, a), Part(s, i, b)), Part(s, b, Len(s))) = Part(s, i, Len(s))
  <2>1. Part(s, i, a) = <<>>
    BY <1>4, PartFacts, Zenon
  <2>2. Cat(<<>>, Part(s, i, b)) = Part(s, i, b)
    BY <1>2, CatEmpty, Zenon
  <2>3. Cat(Part(s, i, b), Part(s, b, Len(s))) = Part(s, i, Len(s))
    BY <1>4, PartFacts, Zenon
  <2> QED BY <2>1, <2>2, <2>3, Zenon
<1>5. ASSUME a <= i, b <= i
      PROVE  Cat(Cat(Part(s, i, a), Part(s, i, b)), Part(s, i, Len(s))) = Part(s, i, Len(s))
  <2>1. Part(s, i, a) = <<>> /\ Part(s, i, b) = <<>>
    BY <1>5, PartFacts, Zenon
  <2>2. Cat(Cat(<<>>, <<>>), Part(s, i, Len(s))) = Part(s, i, Len(s))
    BY <1>2, CatEmpty, Zenon
  <2> QED BY <2>1, <2>2, Zenon
<1> QED BY <1>3, <1>4, <1>5, Zenon

\* The loop over the iovecs keeps exactly what writev did not take (send).
LEMMA UnsentIsRest ==
  ASSUME NEW data \in Seq(Nat), NEW l1 \in Nat, NEW l2 \in Nat, NEW l3 \in Nat,
         Len(data) = l1 + l2 + l3, NEW ret \in Nat, ret <= l1 + l2 + l3
  PROVE  Unsent(data, <<l1, l2, l3>>, ret) = Drop(data, ret)
<1>1. PICK r2, r3 : r2 = Offset(ret, l1) /\ r3 = Offset(r2, l2)
  OBVIOUS
<1>2. PICK a \in Nat, b \in Nat : a = l1 /\ b = l1 + l2
  OBVIOUS
<1>3. ret <= Len(data) /\ a <= Len(data) /\ b <= Len(data) /\ a <= b /\ a \in Nat /\ b \in Nat
  BY <1>2
<1>4. Unsent(data, <<l1, l2, l3>>, ret)
        = Cat(Cat(Part(data, ret, a), Part(data, a + r2, b)), Part(data, b + r3, Len(data)))
  BY <1>1, <1>2 DEF Unsent, Part, Cat
<1>5. Drop(data, ret) = Part(data, ret, Len(data))
  BY DEF Drop, Part
<1>6. CASE ret < a
  <2>1. a + r2 = a /\ b + r3 = b /\ ret <= a
    BY <1>1, <1>2, <1>6 DEF Offset
  <2>2. Cat(Cat(Part(data, ret, a), Part(data, a, b)), Part(data, b, Len(data)))
          = Part(data, ret, Len(data))
    BY <1>3, <2>1, PiecesJoin, ZenonT(60)
  <2> QED BY <1>4, <1>5, <2>1, <2>2, Zenon
<1>7. CASE a <= ret /\ ret < b
  <2>1. r2 = ret - a /\ r2 < l2
    BY <1>1, <1>2, <1>7 DEF Offset
  <2>2. a + r2 = ret /\ b + r3 = b /\ ret <= b
    BY <1>1, <1>2, <1>7, <2>1 DEF Offset
  <2>3. Cat(Cat(Part(data, ret, a), Part(data, ret, b)), Part(data, b, Len(data)))
          = Part(data, ret, Len(data))
    BY <1>3, <1>7, <2>2, PiecesJoin, ZenonT(60)
  <2> QED BY <1>4, <1>5, <2>2, <2>3, Zenon
<1>8. CASE b <= ret
  <2>1. r2 = ret - a /\ ~(r2 < l2) /\ a <= ret
    BY <1>1, <1>2, <1>8 DEF Offset
  <2>2. a + r2 = ret /\ b + r3 = ret
    BY <1>1, <1>2, <2>1 DEF Offset
  <2>3. Cat(Cat(Part(data, ret, a), Part(data, ret, b)), Part(data, ret, Len(data)))
          = Part(data, ret, Len(data))
    BY <1>3, <1>8, <2>1, PiecesJoin, ZenonT(60)
  <2> QED BY <1>4, <1>5, <2>2, <2>3, Zenon
<1> QED BY <1>2, <1>6, <1>7, <1>8

-----------------------------------------------------------------------------
(* The socket's write, and the flush of the buffer. *)

LEMMA CatIsSeq ==
  ASSUME NEW p \in Seq(Nat), NEW q \in Seq(Nat)
  PROVE  Cat(p, q) \in Seq(Nat) /\ Len(Cat(p, q)) = Len(p) + Len(q)
BY ConcatProperties DEF Cat

\* What write leaves behind, given what the caller keeps of its data.
Rest(o, data) ==
  IF WriteRet(o, Len(data)) >= Len(data) THEN <<>>
  ELSE IF WriteRet(o, Len(data)) > 0 THEN Drop(data, WriteRet(o, Len(data))) ELSE data

LEMMA WriteRetBounds ==
  ASSUME NEW o \in SendSide, NEW n \in Nat
  PROVE  /\ WriteRet(o, n) \in Int /\ WriteRet(o, n) <= n
         /\ WriteRet(o, n) > 0 => WriteRet(o, n) <= o.room
         /\ ~Usable => WriteRet(o, n) = 0
BY SockBounds DEF WriteRet, SendSide

\* write takes the bytes it reports, keeps their order, and leaves the write
\* source running if there is a rest (TcpSocket.write, resumeOnWrite).
LEMMA WriteIsPartial ==
  ASSUME NEW o \in SendSide, NEW data \in Seq(Nat)
  PROVE  /\ WriteTo(o, data) \in SendSide
         /\ Rest(o, data) \in Seq(Nat)
         /\ Cat(WriteTo(o, data).wire, Rest(o, data)) = Cat(o.wire, data)
         /\ Usable /\ WriteRet(o, Len(data)) < Len(data) => ~Asleep(WriteTo(o, data))
         /\ ~Usable => Asleep(WriteTo(o, data)) = Asleep(o)
         /\ Asleep(WriteTo(o, data)) => Asleep(o)
         /\ WriteRet(o, Len(data)) <= 0 => WriteTo(o, data).wire = o.wire
<1>1. Len(data) \in Nat /\ o.wire \in Seq(Nat) /\ o.room \in 0..SockRoom
      /\ o.suspended \in BOOLEAN /\ o.early \in BOOLEAN
  BY LenProperties DEF SendSide
<1>2. PICK ret : ret = WriteRet(o, Len(data))
  OBVIOUS
<1>3. ret \in Int /\ ret <= Len(data) /\ (ret > 0 => ret <= o.room)
  BY <1>1, <1>2, WriteRetBounds
<1>4. PICK took : took = IF ret > 0 THEN ret ELSE 0
  OBVIOUS
<1>5. took \in 0..Len(data) /\ took <= o.room /\ took \in Nat
  BY <1>1, <1>3, <1>4, SockBounds
<1>6. /\ SubSeq(data, 1, took) \in Seq(Nat) /\ Drop(data, took) \in Seq(Nat)
      /\ Cat(SubSeq(data, 1, took), Drop(data, took)) = data
  BY <1>5, Cut DEF Cat
<1>7. PICK resumes : resumes = (Usable /\ ret < Len(data))
  OBVIOUS
<1>7a. WriteTo(o, data) = [room |-> o.room - took, wire |-> Cat(o.wire, SubSeq(data, 1, took)),
                           suspended |-> o.suspended /\ ~resumes,
                           early |-> o.early /\ ~resumes]
  BY <1>2, <1>4, <1>7 DEF WriteTo, Resumed, Cat
<1>7b. Asleep(WriteTo(o, data)) = (Asleep(o) /\ ~resumes)
  <2>1. /\ WriteTo(o, data).suspended = (o.suspended /\ ~resumes)
        /\ WriteTo(o, data).early = (o.early /\ ~resumes)
    BY <1>7a
  <2> QED BY <1>1, <2>1, Zenon DEF Asleep
<1>8. Cat(o.wire, SubSeq(data, 1, took)) \in Seq(Nat)
  BY <1>1, <1>6, CatIsSeq
<1>9. WriteTo(o, data) \in SendSide
  <2>1. o.room - took \in 0..SockRoom
    BY <1>1, <1>5, SockBounds
  <2>2. (o.suspended /\ ~resumes) \in BOOLEAN /\ (o.early /\ ~resumes) \in BOOLEAN
    OBVIOUS
  <2> QED BY <1>7a, <1>8, <2>1, <2>2 DEF SendSide
<1>10. Rest(o, data) = Drop(data, took)
  <2>1. CASE ret >= Len(data)
    <3>1. took = Len(data)
      BY <1>1, <1>3, <1>4, <2>1
    <3>2. Drop(data, took) = <<>>
      BY <1>1, <3>1, SubSeqEmpty DEF Drop
    <3> QED BY <1>2, <2>1, <3>2 DEF Rest
  <2>2. CASE ret < Len(data) /\ ret > 0
    BY <1>1, <1>2, <1>3, <1>4, <2>2 DEF Rest
  <2>3. CASE ret < Len(data) /\ ~(ret > 0)
    <3>1. Drop(data, 0) = data
      BY SubSeqFull DEF Drop
    <3> QED BY <1>1, <1>2, <1>3, <1>4, <2>3, <3>1 DEF Rest
  <2> QED BY <1>1, <1>3, <2>1, <2>2, <2>3
<1>11. Cat(Cat(o.wire, SubSeq(data, 1, took)), Drop(data, took)) = Cat(o.wire, data)
  <2>1. Cat(Cat(o.wire, SubSeq(data, 1, took)), Drop(data, took))
          = Cat(o.wire, Cat(SubSeq(data, 1, took), Drop(data, took)))
    BY <1>1, <1>6, CatAssociative
  <2> QED BY <1>6, <2>1, Zenon
<1>12. ~Usable => Asleep(WriteTo(o, data)) = Asleep(o)
  BY <1>7, <1>7b, Zenon DEF Asleep
<1>14. Usable /\ ret < Len(data) => ~Asleep(WriteTo(o, data))
  BY <1>7, <1>7b, Zenon
<1>15. Asleep(WriteTo(o, data)) => Asleep(o)
  BY <1>7, <1>7b, Zenon
<1>16. WriteTo(o, data).wire = Cat(o.wire, SubSeq(data, 1, took))
  BY <1>7a
<1>17. Cat(WriteTo(o, data).wire, Rest(o, data)) = Cat(o.wire, data)
  BY <1>10, <1>11, <1>16, Zenon
<1>18. ret <= 0 => WriteTo(o, data).wire = o.wire
  <2>1. ret <= 0 => took = 0
    BY <1>3, <1>4
  <2>2. SubSeq(data, 1, 0) = <<>> /\ Cat(o.wire, <<>>) = o.wire
    BY <1>1, SubSeqEmpty, ConcatEmptySeq DEF Cat
  <2> QED BY <1>16, <2>1, <2>2, Zenon
<1> QED BY <1>2, <1>6, <1>9, <1>10, <1>12, <1>14, <1>15, <1>17, <1>18, Zenon

\* The buffer after a flush: nothing is lost, and a rest keeps the source running.
LEMMA FlushKeepsBytes ==
  ASSUME snd \in SendSide, NEW b \in Seq(Nat)
  PROVE  /\ FlushTo(b) \in SendSide /\ FlushLeaves(b) \in Seq(Nat) /\ FlushRet(b) \in Int
         /\ Cat(FlushTo(b).wire, FlushLeaves(b)) = Cat(snd.wire, b)
         /\ Usable /\ FlushLeaves(b) # <<>> => ~Asleep(FlushTo(b))
         /\ ~Usable => Asleep(FlushTo(b)) = Asleep(snd)
         /\ Asleep(FlushTo(b)) => Asleep(snd)
<1>1. CASE b = <<>>
  <2>1. FlushTo(b) = snd /\ FlushLeaves(b) = <<>> /\ FlushRet(b) = 0
    BY <1>1, EmptySeq DEF FlushTo, FlushLeaves, FlushRet
  <2>2. 0 \in Int /\ <<>> \in Seq(Nat)
    BY EmptySeq
  <2> QED BY <1>1, <2>1, <2>2, Zenon
<1>2. CASE b # <<>>
  <2>1. FlushTo(b) = WriteTo(snd, b) /\ FlushRet(b) = WriteRet(snd, Len(b))
    BY <1>2 DEF FlushTo, FlushRet
  <2>2. FlushLeaves(b) = Rest(snd, b)
    BY <2>1 DEF FlushLeaves, Rest
  <2>3. WriteRet(snd, Len(b)) \in Int /\ Len(b) \in Nat
    BY LenProperties, WriteRetBounds
  <2>4. FlushLeaves(b) # <<>> => WriteRet(snd, Len(b)) < Len(b)
    BY <2>2, <2>3 DEF Rest
  <2>5. Usable /\ FlushLeaves(b) # <<>> => ~Asleep(FlushTo(b))
    BY <2>1, <2>4, WriteIsPartial, Zenon
  <2>6. ~Usable => Asleep(FlushTo(b)) = Asleep(snd)
    <3>1. ~Usable => Asleep(WriteTo(snd, b)) = Asleep(snd)
      BY WriteIsPartial
    <3> QED BY <2>1, <3>1
  <2>7. Asleep(FlushTo(b)) => Asleep(snd)
    BY <2>1, WriteIsPartial, Zenon
  <2>8. /\ FlushTo(b) \in SendSide /\ FlushLeaves(b) \in Seq(Nat)
        /\ Cat(FlushTo(b).wire, FlushLeaves(b)) = Cat(snd.wire, b)
    BY <2>1, <2>2, WriteIsPartial, Zenon
  <2> QED BY <2>1, <2>3, <2>5, <2>6, <2>7, <2>8, Zenon
<1> QED BY <1>1, <1>2

-----------------------------------------------------------------------------
(* The inductive invariant. *)

\* What the state of the socket tells: the sources live only while it connects, is
\* open or is attached, the write source is suspended by onWrite alone, and close()
\* is final.
Lifecycle ==
  /\ live => sockState \in {"connecting", "open"} \/ (sockState = "idle" /\ attaching)
  /\ live /\ sockState # "open" => ~Asleep(snd)
  /\ Fresh => ~live /\ ~appClosed
  /\ attaching => sockState \in {"idle", "closed"}
  /\ appClosed => ~live
  /\ reader = "start" => live /\ sockState \in {"idle", "open"}

\* Nothing has been reported as long as the connection lives.
NotReported ==
  /\ errors <= 1 /\ ("failed" \in connectTold => errors = 0)
  /\ Fresh \/ live => errors = 0 /\ "failed" \notin connectTold

Inv == TypeOK /\ Lifecycle /\ NotReported /\ NoByteLost /\ NoLostWakeup /\ NothingAfterClose

LEMMA InitInv == Init => Inv
<1> SUFFICES ASSUME Init PROVE Inv
  OBVIOUS
<1>1. snd \in SendSide
  BY SockBounds, EmptySeq DEF Init, SockInit, SendSide
<1>2. TypeOK
  BY <1>1, EmptySeq DEF TypeOK, Init, SockInit
<1>3. NoByteLost
  <2>1. Upto(0) = <<>> /\ <<>> \o <<>> = <<>>
    BY EmptySeq, ConcatEmptySeq DEF Upto
  <2> QED BY <2>1 DEF NoByteLost, Init, SockInit
<1>4. Lifecycle /\ NotReported
  BY DEF Lifecycle, NotReported, Init, SockInit, Fresh
<1>5. NoLostWakeup /\ NothingAfterClose
  BY DEF NoLostWakeup, NothingAfterClose, Init, SockInit
<1> QED BY <1>2, <1>3, <1>4, <1>5 DEF Inv

-----------------------------------------------------------------------------
(* Sending preserves the invariant. *)

\* What a step of the sending side has to show.
LEMMA SendSideStep ==
  ASSUME Inv, UNCHANGED <<sockState, attaching, live, peer, inbox, arrived, readVars, toldVars>>,
         snd' \in SendSide, buffer' \in Seq(Nat), accepted' \in Nat, owed' \in BOOLEAN,
         Cat(snd'.wire, buffer') = Upto(accepted'),
         Asleep(snd') => Asleep(snd),
         live /\ (buffer' # <<>> \/ owed') => ~Asleep(snd')
  PROVE  Inv'
<1>1. TypeOK'
  BY DEF Inv, TypeOK, readVars, toldVars
<1>2. Lifecycle'
  BY DEF Inv, Lifecycle, Fresh, readVars, toldVars
<1>3. NotReported' /\ NothingAfterClose'
  BY DEF Inv, NotReported, NothingAfterClose, Fresh, toldVars
<1>4. NoByteLost'
  BY DEF NoByteLost, Cat
<1>5. NoLostWakeup'
  BY DEF NoLostWakeup
<1> QED BY <1>1, <1>2, <1>3, <1>4, <1>5 DEF Inv

\* A socket that lives but is not usable is connecting or being attached; its write
\* source runs, or was suspended early.
LEMMA NotOpenIsAwake ==
  ASSUME Inv, live, ~Usable
  PROVE  ~Asleep(snd)
BY DEF Inv, Lifecycle, Usable

LEMMA NextBytesFollow ==
  ASSUME accepted \in Nat, NEW n \in Nat
  PROVE  /\ NextBytes(n) \in Seq(Nat) /\ Len(NextBytes(n)) = n
         /\ Cat(Upto(accepted), NextBytes(n)) = Upto(accepted + n)
BY UptoGrows DEF NextBytes, Cat

LEMMA SendBufferedInv ==
  ASSUME Inv, NEW n \in 1..MaxOut, SendBuffered(n)
  PROVE  Inv'
<1>1. /\ snd \in SendSide /\ buffer \in Seq(Nat) /\ accepted \in Nat /\ owed \in BOOLEAN
      /\ n \in Nat /\ Cat(snd.wire, buffer) = Upto(accepted) /\ snd.wire \in Seq(Nat)
  BY ConnBounds DEF Inv, TypeOK, NoByteLost, Cat, SendSide
<1>2. PICK b : b = Cat(buffer, NextBytes(n))
  OBVIOUS
<1>3. /\ accepted' = accepted + n /\ snd' = FlushTo(b) /\ buffer' = FlushLeaves(b)
      /\ owed' = owed
      /\ UNCHANGED <<sockState, attaching, live, peer, inbox, arrived, readVars, toldVars>>
  BY <1>2 DEF SendBuffered, Cat
<1>4. NextBytes(n) \in Seq(Nat) /\ b \in Seq(Nat)
  BY <1>1, <1>2, NextBytesFollow, CatIsSeq
<1>5. Cat(snd.wire, b) = Upto(accepted + n)
  <2>1. Cat(Cat(snd.wire, buffer), NextBytes(n)) = Cat(snd.wire, Cat(buffer, NextBytes(n)))
    BY <1>1, <1>4, CatAssociative
  <2>2. Cat(Upto(accepted), NextBytes(n)) = Upto(accepted + n)
    BY <1>1, NextBytesFollow
  <2> QED BY <1>1, <1>2, <2>1, <2>2, Zenon
<1>6. /\ snd' \in SendSide /\ buffer' \in Seq(Nat)
      /\ Cat(snd'.wire, buffer') = Upto(accepted')
      /\ Usable /\ buffer' # <<>> => ~Asleep(snd')
      /\ Asleep(snd') => Asleep(snd)
  BY <1>1, <1>3, <1>4, <1>5, FlushKeepsBytes, Zenon
<1>7. live /\ (buffer' # <<>> \/ owed') => ~Asleep(snd')
  <2>1. CASE ~Usable
    BY <1>6, <2>1, NotOpenIsAwake, Zenon
  <2>2. CASE Usable
    <3>1. live /\ owed => ~Asleep(snd)
      BY DEF Inv, NoLostWakeup
    <3> QED BY <1>3, <1>6, <2>2, <3>1, Zenon
  <2> QED BY <2>1, <2>2
<1>8. accepted' \in Nat /\ owed' \in BOOLEAN
  BY <1>1, <1>3
<1> QED BY <1>3, <1>6, <1>7, <1>8, SendSideStep, Zenon

\* send: the buffer is flushed first; then the socket gets the new data, and what it
\* does not take is buffered.
LEMMA SendInv ==
  ASSUME Inv, NEW lens \in Shapes, NEW gather \in BOOLEAN, Send(lens, gather)
  PROVE  Inv'
<1>1. PICK l1 \in Nat, l2 \in Nat, l3 \in Nat : lens = <<l1, l2, l3>>
  BY ConnBounds
<1>2. PICK n \in Nat : n = l1 + l2 + l3
  OBVIOUS
<1>3. /\ snd \in SendSide /\ buffer \in Seq(Nat) /\ accepted \in Nat /\ owed \in BOOLEAN
      /\ Cat(snd.wire, buffer) = Upto(accepted)
      /\ live /\ owed => ~Asleep(snd)
  BY DEF Inv, TypeOK, NoByteLost, NoLostWakeup, Cat
<1>4. PICK o, left : o = FlushTo(buffer) /\ left = FlushLeaves(buffer)
  OBVIOUS
<1>5. /\ o \in SendSide /\ left \in Seq(Nat) /\ FlushRet(buffer) \in Int
      /\ Cat(o.wire, left) = Upto(accepted)
      /\ Usable /\ left # <<>> => ~Asleep(o)
      /\ ~Usable => Asleep(o) = Asleep(snd)
      /\ Asleep(o) => Asleep(snd)
  BY <1>3, <1>4, FlushKeepsBytes, Zenon
<1>6. PICK data, ret : data = NextBytes(n) /\ ret = WriteRet(o, n)
  OBVIOUS
<1>7. /\ data \in Seq(Nat) /\ Len(data) = n /\ Cat(Upto(accepted), data) = Upto(accepted + n)
      /\ ret \in Int /\ ret <= n
  BY <1>3, <1>5, <1>6, NextBytesFollow, WriteRetBounds
<1>8. UNCHANGED <<sockState, attaching, live, peer, inbox, arrived, readVars, toldVars>>
  BY DEF Send
<1>9. \/ snd' = o /\ UNCHANGED <<buffer, accepted, owed>> /\ FlushRet(buffer) < 0
      \/ snd' = o /\ buffer' = left /\ left # <<>> /\ owed' = TRUE /\ UNCHANGED accepted
      \/ left = <<>> /\ snd' = WriteTo(o, data) /\ ret >= 0 /\ buffer' = Unsent(data, lens, ret)
           /\ accepted' = accepted + n /\ owed' = (owed \/ n = 0)
      \/ left = <<>> /\ snd' = WriteTo(o, data) /\ ret <= 0 /\ buffer' = <<>>
           /\ accepted' = accepted /\ owed' = (owed \/ ret = 0)
  BY <1>1, <1>2, <1>4, <1>6, <1>7 DEF Send, sendVars
<1>10. CASE snd' = o /\ UNCHANGED <<buffer, accepted, owed>> /\ FlushRet(buffer) < 0
  <2>1. Len(buffer) \in Nat
    BY <1>3, LenProperties
  <2>2. buffer = left
    BY <1>4, <1>5, <1>10, <2>1 DEF FlushLeaves
  <2>3. live /\ (buffer' # <<>> \/ owed') => ~Asleep(snd')
    <3>1. CASE ~Usable
      BY <1>5, <1>10, <3>1, NotOpenIsAwake, Zenon
    <3>2. CASE Usable
      BY <1>3, <1>5, <1>10, <2>2, <3>2, Zenon
    <3> QED BY <3>1, <3>2
  <2>4. /\ snd' \in SendSide /\ buffer' \in Seq(Nat) /\ accepted' \in Nat /\ owed' \in BOOLEAN
        /\ Cat(snd'.wire, buffer') = Upto(accepted') /\ (Asleep(snd') => Asleep(snd))
    BY <1>3, <1>5, <1>10, <2>2
  <2> QED BY <1>8, <2>3, <2>4, SendSideStep, Zenon
<1>11. CASE snd' = o /\ buffer' = left /\ left # <<>> /\ owed' = TRUE /\ UNCHANGED accepted
  <2>1. live /\ (buffer' # <<>> \/ owed') => ~Asleep(snd')
    <3>1. CASE ~Usable
      BY <1>5, <1>11, <3>1, NotOpenIsAwake, Zenon
    <3>2. CASE Usable
      BY <1>5, <1>11, <3>2, Zenon
    <3> QED BY <3>1, <3>2
  <2>2. /\ snd' \in SendSide /\ buffer' \in Seq(Nat) /\ accepted' \in Nat /\ owed' \in BOOLEAN
        /\ Cat(snd'.wire, buffer') = Upto(accepted') /\ (Asleep(snd') => Asleep(snd))
    BY <1>3, <1>5, <1>11
  <2> QED BY <1>8, <2>1, <2>2, SendSideStep, Zenon
<1>12. ASSUME left = <<>>
       PROVE  /\ WriteTo(o, data) \in SendSide /\ Rest(o, data) \in Seq(Nat)
              /\ Cat(WriteTo(o, data).wire, Rest(o, data)) = Upto(accepted + n)
              /\ ret <= 0 => Cat(WriteTo(o, data).wire, <<>>) = Upto(accepted)
              /\ Asleep(WriteTo(o, data)) => Asleep(o)
              /\ Usable /\ ret < n => ~Asleep(WriteTo(o, data))
              /\ ~Usable => Asleep(WriteTo(o, data)) = Asleep(o)
  <2>1. o.wire \in Seq(Nat)
    BY <1>5 DEF SendSide
  <2>2. Cat(o.wire, <<>>) = o.wire
    BY <2>1, ConcatEmptySeq DEF Cat
  <2>3. o.wire = Upto(accepted)
    BY <1>5, <1>12, <2>2, Zenon
  <2>4. /\ WriteTo(o, data) \in SendSide /\ Rest(o, data) \in Seq(Nat)
        /\ Cat(WriteTo(o, data).wire, Rest(o, data)) = Cat(o.wire, data)
        /\ Asleep(WriteTo(o, data)) => Asleep(o)
        /\ ~Usable => Asleep(WriteTo(o, data)) = Asleep(o)
    BY <1>5, <1>7, WriteIsPartial, Zenon
  <2>5. Usable /\ WriteRet(o, Len(data)) < Len(data) => ~Asleep(WriteTo(o, data))
    BY <1>5, <1>7, WriteIsPartial, Zenon
  <2>6. WriteRet(o, Len(data)) <= 0 => WriteTo(o, data).wire = o.wire
    BY <1>5, <1>7, WriteIsPartial, Zenon
  <2> QED BY <1>6, <1>7, <2>2, <2>3, <2>4, <2>5, <2>6, Zenon
<1>13. CASE /\ left = <<>> /\ snd' = WriteTo(o, data) /\ ret >= 0
            /\ buffer' = Unsent(data, lens, ret)
            /\ accepted' = accepted + n /\ owed' = (owed \/ n = 0)
  <2>1. Unsent(data, lens, ret) = Drop(data, ret)
    <3>1. ret \in Nat /\ ret <= l1 + l2 + l3 /\ Len(data) = l1 + l2 + l3
      BY <1>2, <1>7, <1>13
    <3>2. Unsent(data, <<l1, l2, l3>>, ret) = Drop(data, ret)
      BY <1>7, <3>1, UnsentIsRest
    <3> QED BY <1>1, <3>2
  <2>2. Rest(o, data) = Drop(data, ret)
    <3>1. Drop(data, n) = <<>>
      BY <1>7, SubSeqEmpty DEF Drop
    <3>2. Drop(data, 0) = data
      BY <1>7, SubSeqFull DEF Drop
    <3> QED BY <1>6, <1>7, <1>13, <3>1, <3>2 DEF Rest
  <2>3. live /\ (buffer' # <<>> \/ owed') => ~Asleep(snd')
    <3>1. CASE ~Usable
      BY <1>5, <1>12, <1>13, <3>1, NotOpenIsAwake, Zenon
    <3>2. CASE Usable
      <4>1. n # 0
        BY <1>6, <1>13, <3>2 DEF WriteRet
      <4>2. buffer' # <<>> => ret < n
        BY <1>6, <1>7, <1>13, <2>1, <2>2 DEF Rest
      <4> QED BY <1>3, <1>5, <1>12, <1>13, <3>2, <4>1, <4>2, Zenon
    <3> QED BY <3>1, <3>2
  <2>4. /\ snd' \in SendSide /\ buffer' \in Seq(Nat)
        /\ Cat(snd'.wire, buffer') = Upto(accepted')
        /\ (Asleep(snd') => Asleep(snd))
    BY <1>5, <1>12, <1>13, <2>1, <2>2, Zenon
  <2>5. accepted' \in Nat /\ owed' \in BOOLEAN
    BY <1>3, <1>13
  <2> QED BY <1>8, <2>3, <2>4, <2>5, SendSideStep, Zenon
<1>14. CASE /\ left = <<>> /\ snd' = WriteTo(o, data) /\ ret <= 0 /\ buffer' = <<>>
            /\ accepted' = accepted /\ owed' = (owed \/ ret = 0)
  <2>1. live /\ (buffer' # <<>> \/ owed') => ~Asleep(snd')
    <3>1. CASE ~Usable
      BY <1>5, <1>12, <1>14, <3>1, NotOpenIsAwake, Zenon
    <3>2. CASE Usable
      <4>1. ret = 0 => ret < n
        BY <1>6, <1>7, <3>2 DEF WriteRet
      <4> QED BY <1>3, <1>5, <1>12, <1>14, <3>2, <4>1, Zenon
    <3> QED BY <3>1, <3>2
  <2>2. /\ snd' \in SendSide /\ Cat(snd'.wire, buffer') = Upto(accepted')
        /\ (Asleep(snd') => Asleep(snd))
    BY <1>5, <1>12, <1>14, Zenon
  <2>3. buffer' \in Seq(Nat) /\ accepted' \in Nat /\ owed' \in BOOLEAN
    BY <1>3, <1>14, EmptySeq
  <2> QED BY <1>8, <2>1, <2>2, <2>3, SendSideStep, Zenon
<1> QED BY <1>9, <1>10, <1>11, <1>13, <1>14

-----------------------------------------------------------------------------
(* The other steps. *)

\* What a step that leaves the sending side alone has to show.
LEMMA OtherStep ==
  ASSUME Inv, UNCHANGED <<snd, sendVars>>, live' => live,
         TypeOK', Lifecycle', NotReported', NothingAfterClose'
  PROVE  Inv'
<1>1. NoByteLost'
  BY DEF Inv, NoByteLost, sendVars
<1>2. NoLostWakeup'
  BY DEF Inv, NoLostWakeup, sendVars
<1> QED BY <1>1, <1>2 DEF Inv

LEMMA AttachInv ==
  ASSUME Inv, AttachFd \/ \E fails \in BOOLEAN : Connect(fails)
  PROVE  Inv'
<1>1. /\ Fresh /\ live' = TRUE
      /\ \/ sockState' = "connecting" /\ attaching' = attaching
         \/ sockState' = sockState /\ attaching' = TRUE
      /\ snd' = [snd EXCEPT !.suspended = FALSE] /\ appClosed = FALSE
      /\ UNCHANGED <<peer, inbox, sendVars, reader, handed, errors, appClosed, late>>
      /\ connectTold' = connectTold \/ connectTold' = {} \/ connectTold' = {"returned"}
      /\ \/ UNCHANGED <<initBuffer, arrived>>
         \/ \E n \in Nat : initBuffer' = Upto(n) /\ arrived' = n
  <2>1. ASSUME AttachFd PROVE <1>1!:
    BY <2>1, ConnBounds DEF AttachFd, AttachSources, InitWithFd, toldVars, Inv, TypeOK
  <2>2. ASSUME NEW fails \in BOOLEAN, Connect(fails) PROVE <1>1!:
    BY <2>2 DEF Connect, StartConnect, InitWithFd, readVars, Inv, TypeOK
  <2> QED BY <2>1, <2>2
<1>2. snd \in SendSide
  BY DEF Inv, TypeOK
<1>3. snd' \in SendSide /\ snd'.wire = snd.wire /\ ~Asleep(snd')
  BY <1>1, <1>2 DEF SendSide, Asleep
<1>4. initBuffer' \in Seq(Nat) /\ arrived' \in Nat
  BY <1>1, UptoIsSeq DEF readVars, Inv, TypeOK
<1>5. TypeOK'
  BY <1>1, <1>3, <1>4 DEF Inv, TypeOK, sendVars
<1>6. Lifecycle'
  BY <1>1, <1>3 DEF Inv, Lifecycle, Fresh
<1>7. NotReported' /\ NothingAfterClose'
  BY <1>1 DEF Inv, NotReported, NothingAfterClose
<1>8. NoByteLost' /\ NoLostWakeup'
  BY <1>1, <1>3 DEF Inv, NoByteLost, NoLostWakeup, sendVars
<1> QED BY <1>5, <1>6, <1>7, <1>8 DEF Inv

\* The state is set after events and callbacks may have come, and have closed.
LEMMA AttachFdReturnsInv ==
  ASSUME Inv, AttachFdReturns
  PROVE  Inv'
<1>1. /\ attaching /\ attaching' = FALSE /\ sockState' = "open" /\ live' = live
      /\ UNCHANGED <<snd, peer, inbox, arrived, sendVars, readVars, toldVars>>
  BY DEF AttachFdReturns, AttachOpen
<1>2. TypeOK'
  BY <1>1 DEF Inv, TypeOK, sendVars, readVars, toldVars
<1>3. Lifecycle' /\ NotReported' /\ NothingAfterClose'
  BY <1>1 DEF Inv, Lifecycle, NotReported, NothingAfterClose, Fresh, readVars, toldVars
<1>4. UNCHANGED <<snd, sendVars>> /\ (live' => live)
  BY <1>1
<1> QED BY <1>2, <1>3, <1>4, OtherStep

LEMMA CloseInv ==
  ASSUME Inv, Close, reader # "start"
  PROVE  Inv'
<1>1. TypeOK' /\ Lifecycle' /\ NotReported' /\ NothingAfterClose'
  BY DEF Close, Cleanup, Inv, TypeOK, Lifecycle, NotReported, NothingAfterClose, Fresh, sendVars,
         readVars
<1> QED BY <1>1, OtherStep DEF Close, Cleanup

\* A callback made while the sources live comes before close().
LEMMA CalledInTime ==
  ASSUME Inv, live
  PROVE  /\ Called => late' = FALSE
         /\ late = FALSE /\ appClosed = FALSE /\ errors = 0 /\ "failed" \notin connectTold
         /\ live = TRUE
<1>1. live = TRUE /\ late = FALSE /\ appClosed = FALSE
  BY DEF Inv, TypeOK, Lifecycle, NothingAfterClose
<1>2. errors = 0 /\ "failed" \notin connectTold
  BY DEF Inv, NotReported
<1>3. Called => late' = FALSE
  BY <1>1 DEF Called
<1> QED BY <1>1, <1>2, <1>3

LEMMA ConnectEventInv ==
  ASSUME Inv, NEW ok \in BOOLEAN, ConnectEvent(ok)
  PROVE  Inv'
<1>1. /\ live = TRUE /\ sockState = "connecting" /\ appClosed = FALSE /\ late' = FALSE
      /\ errors = 0 /\ "failed" \notin connectTold
  BY CalledInTime DEF ConnectEvent
<1>2. \/ sockState' = "open" /\ live' = live /\ connectTold' = connectTold \cup {"connected"}
      \/ sockState' = "closed" /\ live' = FALSE /\ connectTold' = connectTold \cup {"failed"}
  BY DEF ConnectEvent, Cleanup
<1>3. /\ UNCHANGED <<attaching, snd, peer, inbox, arrived, sendVars, readVars, errors, appClosed>>
      /\ reader = "none"
  BY DEF ConnectEvent, Idle
<1>4. TypeOK'
  BY <1>1, <1>2, <1>3 DEF Inv, TypeOK, sendVars, readVars
<1>5. Lifecycle' /\ NothingAfterClose'
  BY <1>1, <1>2, <1>3 DEF Inv, Lifecycle, NothingAfterClose, Fresh, readVars
<1>6. NotReported'
  <2>1. errors' = 0 /\ 0 <= 1
    BY <1>1, <1>3
  <2>2. sockState' = "open" => "failed" \notin connectTold'
    BY <1>1, <1>2
  <2>3. sockState' # "open" => sockState' # "idle" /\ ~live'
    BY <1>2
  <2> QED BY <2>1, <2>2, <2>3, Zenon DEF NotReported, Fresh
<1>7. UNCHANGED <<snd, sendVars>> /\ (live' => live)
  BY <1>1, <1>3
<1> QED BY <1>4, <1>5, <1>6, <1>7, OtherStep

LEMMA ReadingInv ==
  ASSUME Inv, ReadEvent \/ \E goOn \in BOOLEAN : ReadInit(goOn) \/ ReadChunk(goOn)
  PROVE  Inv'
<1>1. CASE ReadEvent
  <2>1. /\ live = TRUE /\ sockState \in {"idle", "open"} /\ appClosed = FALSE /\ late = FALSE
        /\ errors = 0 /\ "failed" \notin connectTold /\ (Called => late' = FALSE)
    BY <1>1, CalledInTime DEF ReadEvent, Readable, Inv, Lifecycle
  <2>2. /\ UNCHANGED <<attaching, snd, peer, inbox, arrived, sendVars, initBuffer, handed,
                       connectTold, appClosed>>
        /\ reader = "none"
    BY <1>1 DEF ReadEvent, Idle
  <2>3. UNCHANGED <<snd, sendVars>> /\ (live' => live)
    BY <2>1, <2>2
  <2>4. CASE inbox # <<>>
    <3>1. reader' = "start" /\ UNCHANGED <<sockState, live, errors, late>>
      BY <1>1, <2>4 DEF ReadEvent
    <3>2. TypeOK'
      BY <2>2, <3>1 DEF Inv, TypeOK, sendVars
    <3>3. Lifecycle' /\ NothingAfterClose' /\ NotReported'
      BY <2>1, <2>2, <3>1 DEF Inv, Lifecycle, NothingAfterClose, NotReported, Fresh
    <3> QED BY <2>3, <3>2, <3>3, OtherStep
  <2>5. CASE inbox = <<>>
    <3>1. sockState' = "closed" /\ live' = FALSE /\ reader' = reader
      BY <1>1, <2>5 DEF ReadEvent, Cleanup
    <3>2. errors' = 1
      BY <1>1, <2>1, <2>5 DEF ReadEvent
    <3>3. late' = FALSE
      BY <1>1, <2>1, <2>5 DEF ReadEvent
    <3>4. TypeOK'
      BY <2>2, <3>1, <3>2, <3>3 DEF Inv, TypeOK, sendVars
    <3>5. Lifecycle' /\ NothingAfterClose'
      BY <2>2, <3>1, <3>3 DEF Inv, Lifecycle, NothingAfterClose, Fresh
    <3>6. NotReported'
      BY <2>1, <2>2, <3>1, <3>2 DEF NotReported, Fresh
    <3> QED BY <2>3, <3>4, <3>5, <3>6, OtherStep
  <2> QED BY <2>4, <2>5
<1>2. ASSUME NEW goOn \in BOOLEAN, ReadInit(goOn)
      PROVE  Inv'
  <2>1. live
    BY <1>2 DEF ReadInit, Inv, Lifecycle
  <2>2. late' = FALSE
    BY <1>2, <2>1, CalledInTime DEF ReadInit
  <2>3. handed' \in Seq(Nat) /\ initBuffer' \in Seq(Nat)
    BY <1>2, ConcatProperties, EmptySeq DEF ReadInit, InitLeft, Inv, TypeOK
  <2>4. TypeOK'
    BY <1>2, <2>2, <2>3 DEF ReadInit, Inv, TypeOK, sockVars, sendVars
  <2>5. Lifecycle' /\ NothingAfterClose' /\ NotReported'
    BY <1>2, <2>2 DEF ReadInit, Inv, Lifecycle, NothingAfterClose, NotReported, Fresh, sockVars
  <2>6. UNCHANGED <<snd, sendVars>> /\ (live' => live)
    BY <1>2 DEF ReadInit, sockVars
  <2> QED BY <2>4, <2>5, <2>6, OtherStep
<1>3. ASSUME NEW goOn \in BOOLEAN, ReadChunk(goOn)
      PROVE  Inv'
  <2>1. \/ live /\ Called /\ UNCHANGED <<live, errors>>
        \/ UNCHANGED <<live, errors, late>>
        \/ live /\ Called /\ live' = FALSE /\ errors' = errors + 1
    BY <1>3 DEF ReadChunk, ReadRet, Usable, Cleanup
  <2>2. /\ reader' \in {"none", "loop"}
        /\ UNCHANGED <<sockState, attaching, snd, peer, arrived, sendVars, initBuffer,
                       connectTold, appClosed>>
    BY <1>3 DEF ReadChunk
  <2>3. handed' \in Seq(Nat) /\ inbox' \in Seq(Nat)
    <3>1. ASSUME NEW k \in 1..RecvSize, k <= Len(inbox)
          PROVE  handed \o SubSeq(inbox, 1, k) \in Seq(Nat) /\ Drop(inbox, k) \in Seq(Nat)
      <4>1. k \in 0..Len(inbox) /\ inbox \in Seq(Nat) /\ handed \in Seq(Nat)
        BY <3>1, ConnBounds, LenProperties DEF Inv, TypeOK
      <4> QED BY <4>1, Cut, ConcatProperties
    <3>2. inbox \in Seq(Nat) /\ handed \in Seq(Nat)
      BY DEF Inv, TypeOK
    <3> QED BY <1>3, <3>1, <3>2 DEF ReadChunk
  <2>4. late' \in BOOLEAN /\ errors' \in Nat /\ live' \in BOOLEAN
    <3>1. late \in BOOLEAN /\ errors \in Nat /\ live \in BOOLEAN
      BY DEF Inv, TypeOK
    <3>2. live /\ Called => late' = FALSE
      BY CalledInTime
    <3>3. errors' = errors \/ errors' = errors + 1
      BY <2>1
    <3>4. errors' \in Nat
      BY <3>1, <3>3
    <3>5. live' = live \/ live' = FALSE
      BY <2>1
    <3>6. late' = late \/ late' = FALSE
      BY <2>1, <3>2
    <3> QED BY <3>1, <3>4, <3>5, <3>6, Zenon
  <2>5. TypeOK'
    BY <2>2, <2>3, <2>4 DEF Inv, TypeOK, sendVars
  <2>6. NothingAfterClose'
    BY <2>1, CalledInTime DEF Inv, NothingAfterClose
  <2>7. live' => live
    BY <2>1
  <2>8. Lifecycle'
    BY <2>2, <2>7 DEF Inv, Lifecycle, Fresh
  <2>9. NotReported'
    <3>1. \/ errors' = errors /\ (live' => live)
          \/ live /\ live' = FALSE /\ errors' = errors + 1
      BY <2>1
    <3>2. live => errors = 0 /\ "failed" \notin connectTold /\ ~Fresh
      BY CalledInTime DEF Inv, Lifecycle
    <3> QED BY <2>2, <3>1, <3>2 DEF Inv, NotReported, Fresh
  <2>10. UNCHANGED <<snd, sendVars>>
    BY <2>2
  <2> QED BY <2>5, <2>6, <2>7, <2>8, <2>9, <2>10, OtherStep
<1> QED BY <1>1, <1>2, <1>3

\* processWrite: onWrite suspends and flushes; an incomplete write resumes, or the
\* socket is not open yet.
LEMMA WriteEventInv ==
  ASSUME Inv, WriteEvent
  PROVE  Inv'
<1>1. PICK o, ret : o = SuspendOnWrite(snd) /\ ret = WriteRet(o, Len(buffer))
  OBVIOUS
<1>2. /\ snd \in SendSide /\ buffer \in Seq(Nat) /\ accepted \in Nat /\ owed \in BOOLEAN
      /\ Cat(snd.wire, buffer) = Upto(accepted) /\ Len(buffer) \in Nat
  BY LenProperties DEF Inv, TypeOK, NoByteLost, Cat
<1>3. live = TRUE /\ (Usable <=> sockState = "open")
  BY DEF WriteEvent, Writable, Usable, Inv, TypeOK
<1>4. /\ o \in SendSide /\ o.wire = snd.wire
      /\ WriteRet(o, Len(buffer)) = WriteRet(snd, Len(buffer))
      /\ ~Usable => ~Asleep(o)
  <2>1. (~Usable) \in BOOLEAN
    OBVIOUS
  <2>2. o = [snd EXCEPT !.suspended = TRUE, !.early = ~Usable]
    BY <1>1 DEF SuspendOnWrite
  <2>3. o \in SendSide /\ o.wire = snd.wire /\ o.room = snd.room /\ o.early = ~Usable
    BY <1>2, <2>1, <2>2 DEF SendSide
  <2>4. WriteRet(o, Len(buffer)) = WriteRet(snd, Len(buffer))
    BY <2>3 DEF WriteRet
  <2> QED BY <2>3, <2>4, Zenon DEF Asleep
<1>5. /\ UNCHANGED <<sockState, attaching, live, peer, inbox, arrived, accepted, readVars,
                     connectTold, errors, appClosed>>
      /\ late' = FALSE
  BY <1>3, CalledInTime DEF WriteEvent, AfterFlush
<1>6. /\ WriteTo(o, buffer) \in SendSide /\ Rest(o, buffer) \in Seq(Nat)
      /\ Cat(WriteTo(o, buffer).wire, Rest(o, buffer)) = Cat(o.wire, buffer)
  BY <1>2, <1>4, WriteIsPartial
<1>7. ASSUME ret < Len(buffer) PROVE ~Asleep(WriteTo(o, buffer))
  <2>1. Usable => ~Asleep(WriteTo(o, buffer))
    BY <1>1, <1>2, <1>4, <1>7, WriteIsPartial
  <2>2. ~Usable => ~Asleep(WriteTo(o, buffer))
    BY <1>2, <1>4, WriteIsPartial, Zenon
  <2> QED BY <2>1, <2>2
<1>8. TypeOK' /\ NoByteLost' /\ NoLostWakeup' /\ snd' \in SendSide
  <2>1. CASE buffer = <<>> /\ snd' = o /\ buffer' = buffer /\ owed' = FALSE
    <3>1. TypeOK'
      BY <1>2, <1>4, <1>5, <2>1 DEF Inv, TypeOK, readVars
    <3>2. NoByteLost'
      BY <1>2, <1>4, <1>5, <2>1 DEF NoByteLost, Cat
    <3> QED BY <1>4, <2>1, <3>1, <3>2 DEF NoLostWakeup
  <2>2. CASE /\ buffer # <<>> /\ ret = Len(buffer)
             /\ snd' = WriteTo(o, buffer) /\ buffer' = <<>> /\ owed' = FALSE
    <3>1. Rest(o, buffer) = <<>> /\ <<>> \in Seq(Nat)
      BY <1>1, <1>2, <2>2, EmptySeq DEF Rest
    <3>2. TypeOK'
      BY <1>2, <1>5, <1>6, <2>2, <3>1 DEF Inv, TypeOK, readVars
    <3>3. Cat(snd'.wire, buffer') = Upto(accepted')
      BY <1>2, <1>4, <1>5, <1>6, <2>2, <3>1
    <3>4. NoByteLost'
      BY <3>3 DEF NoByteLost, Cat
    <3> QED BY <1>6, <2>2, <3>2, <3>4 DEF NoLostWakeup
  <2>3. CASE /\ buffer # <<>> /\ ret # Len(buffer)
             /\ snd' = WriteTo(o, buffer) /\ buffer' = FlushLeaves(buffer) /\ owed' = owed
    <3>1. ret \in Int /\ ret <= Len(buffer)
      BY <1>1, <1>2, <1>4, WriteRetBounds
    <3>2. ~Asleep(WriteTo(o, buffer))
      BY <1>2, <1>7, <2>3, <3>1
    <3>3. FlushLeaves(buffer) = Rest(o, buffer)
      BY <1>4, <2>3 DEF FlushLeaves, FlushRet, Rest
    <3>4. TypeOK'
      BY <1>2, <1>5, <1>6, <2>3, <3>3 DEF Inv, TypeOK, readVars
    <3>5. Cat(snd'.wire, buffer') = Upto(accepted')
      BY <1>2, <1>4, <1>5, <1>6, <2>3, <3>3
    <3>6. NoByteLost'
      BY <3>5 DEF NoByteLost, Cat
    <3> QED BY <1>6, <2>3, <3>2, <3>4, <3>6 DEF NoLostWakeup
  <2> QED BY <1>1, <2>1, <2>2, <2>3 DEF WriteEvent
<1>9. Lifecycle'
  <2>1. snd' = o \/ snd' = WriteTo(o, buffer)
    BY <1>1 DEF WriteEvent
  <2>2. ~Usable => ~Asleep(snd')
    <3>1. ~Usable => ~Asleep(WriteTo(o, buffer))
      BY <1>2, <1>4, WriteIsPartial, Zenon
    <3> QED BY <1>4, <2>1, <3>1, Zenon
  <2> QED BY <1>3, <1>5, <2>2 DEF Inv, Lifecycle, Fresh, readVars
<1>10. NotReported' /\ NothingAfterClose'
  BY <1>5 DEF Inv, NotReported, NothingAfterClose, Fresh
<1> QED BY <1>8, <1>9, <1>10 DEF Inv

-----------------------------------------------------------------------------
(* The theorems. *)

LEMMA KernelInv ==
  ASSUME Inv, Kernel, UNCHANGED <<sendVars, readVars, toldVars>>
  PROVE  Inv'
<1>1. /\ sockState' = sockState /\ attaching' = attaching /\ live' = live
      /\ snd' \in SendSide /\ snd'.wire = snd.wire /\ Asleep(snd') = Asleep(snd)
  <2>1. snd \in SendSide
    BY DEF Inv, TypeOK
  <2>2. CASE Drain
    <3>1. snd.room \in 0..SockRoom /\ snd.room < SockRoom /\ SockRoom \in Nat
      BY <2>1, <2>2, SockBounds DEF Drain, SendSide
    <3>2. snd.room + 1 \in 0..SockRoom
      BY <3>1
    <3>3. snd' = [snd EXCEPT !.room = snd.room + 1]
      BY <2>2 DEF Drain
    <3>4. snd' \in SendSide /\ snd'.wire = snd.wire /\ Asleep(snd') = Asleep(snd)
      BY <2>1, <3>2, <3>3 DEF SendSide, Asleep
    <3> QED BY <2>2, <3>4 DEF Drain
  <2>3. CASE Arrive \/ PeerLeaves
    BY <2>1, <2>3 DEF Arrive, PeerLeaves
  <2> QED BY <2>2, <2>3 DEF Kernel
<1>2. peer' \in {"up", "fin", "reset"} /\ arrived' \in Nat
  BY DEF Kernel, Arrive, Drain, PeerLeaves, Inv, TypeOK
<1>3. inbox' \in Seq(Nat)
  <2>1. inbox \in Seq(Nat) /\ arrived \in Nat
    BY DEF Inv, TypeOK
  <2>2. Append(inbox, arrived + 1) \in Seq(Nat) /\ <<>> \in Seq(Nat)
    BY <2>1, AppendProperties, EmptySeq
  <2> QED BY <2>1, <2>2 DEF Kernel, Arrive, Drain, PeerLeaves
<1>4. TypeOK'
  BY <1>1, <1>2, <1>3 DEF Inv, TypeOK, sendVars, readVars, toldVars
<1>5. Lifecycle' /\ NotReported' /\ NothingAfterClose'
  BY <1>1 DEF Inv, Lifecycle, NotReported, NothingAfterClose, Fresh, readVars, toldVars
<1>6. NoByteLost' /\ NoLostWakeup'
  BY <1>1 DEF Inv, NoByteLost, NoLostWakeup, sendVars
<1> QED BY <1>4, <1>5, <1>6 DEF Inv

LEMMA StepInv == Inv /\ [Next]_vars => Inv'
<1> SUFFICES ASSUME Inv, [Next]_vars PROVE Inv'
  OBVIOUS
<1>1. CASE App
  BY <1>1, SendInv, SendBufferedInv, AttachInv, CloseInv DEF App
<1>2. CASE Connecting
  BY <1>2, ConnectEventInv DEF Connecting
<1>3. CASE WriteEvent
  BY <1>3, WriteEventInv
<1>4. CASE ReadEvent \/ Reading
  BY <1>4, ReadingInv DEF Reading
<1>5. CASE Kernel /\ UNCHANGED <<sendVars, readVars, toldVars>>
  BY <1>5, KernelInv
<1>6. CASE AttachFdReturns
  BY <1>6, AttachFdReturnsInv
<1>7. CASE UNCHANGED vars
  BY <1>7 DEF vars, sockVars, sendVars, readVars, toldVars, Inv, TypeOK, Lifecycle, Fresh,
              NotReported, NoByteLost, NoLostWakeup, NothingAfterClose
<1> QED BY <1>1, <1>2, <1>3, <1>4, <1>5, <1>6, <1>7 DEF Next

\* The inductive invariant holds of every reachable state.
THEOREM Invariance == Spec => []Inv
BY InitInv, StepInv, PTL DEF Spec

\* Every variable of the connection and its socket keeps its type.
THEOREM TypeCorrect == Spec => []TypeOK
<1>1. Inv => TypeOK
  BY DEF Inv
<1> QED BY <1>1, Invariance, PTL

\* Whatever the kernel takes at a time, and however a send is split into iovecs, the
\* wire and the buffer together are the bytes reported as sent (send, sendBufferedData).
THEOREM NoByteIsLost == Spec => []NoByteLost
<1>1. Inv => NoByteLost
  BY DEF Inv
<1> QED BY <1>1, Invariance, PTL

\* While bytes are buffered, or a caller was answered 0, the write source runs, unless
\* onWrite suspended it before attachFd had set the state and nothing resumed it since.
THEOREM WriterIsWoken == Spec => []NoLostWakeup
<1>1. Inv => NoLostWakeup
  BY DEF Inv
<1> QED BY <1>1, Invariance, PTL

\* The end of a connection is reported at most once (onConnect, onRead, onClose).
THEOREM EndIsReportedOnce == Spec => []EndReportedOnce
<1>1. Inv => EndReportedOnce
  BY DEF Inv, TypeOK, NotReported, EndReportedOnce
<1> QED BY <1>1, Invariance, PTL

\* No callback is made after close(), from whichever callback it was called.
THEOREM CloseIsFinal == Spec => []NothingAfterClose
<1>1. Inv => NothingAfterClose
  BY DEF Inv
<1> QED BY <1>1, Invariance, PTL

-----------------------------------------------------------------------------
(* The input. *)

\* What was handed over, what came with attachFd and what can be read are the bytes
\* of the peer from the first on; a reset throws the end of them away.
Input == Cat(Cat(handed, initBuffer), inbox)

InputSplit ==
  /\ Fresh =>
       handed = <<>> /\ initBuffer = <<>> /\ inbox = <<>> /\ arrived = 0 /\ reader = "none"
  /\ reader = "loop" => initBuffer = <<>>
  /\ \E m \in Nat : Input = Upto(m) /\ (peer = "up" => m = arrived)

LEMMA InputInit == Init => InputSplit
<1> SUFFICES ASSUME Init PROVE InputSplit
  OBVIOUS
<1>1. Upto(0) = <<>> /\ Cat(Cat(<<>>, <<>>), <<>>) = <<>>
  BY EmptySeq, ConcatEmptySeq DEF Upto, Cat
<1>2. Input = Upto(0) /\ arrived = 0
  BY <1>1 DEF Init, SockInit, Input
<1> QED BY <1>2 DEF Init, SockInit, InputSplit

\* A step that leaves all input where it is.
LEMMA InputKept ==
  ASSUME InputSplit, UNCHANGED <<handed, initBuffer, inbox, arrived, peer>>,
         Fresh' => Fresh /\ reader' = reader,
         reader' = "loop" => reader = "loop"
  PROVE  InputSplit'
BY DEF InputSplit, Input

\* A step that moves input, or adds to it.
LEMMA InputMoved ==
  ASSUME NEW m \in Nat, Input' = Upto(m), peer' = "up" => m = arrived',
         ~Fresh', reader' = "loop" => initBuffer' = <<>>
  PROVE  InputSplit'
BY DEF InputSplit

LEMMA AttachInput ==
  ASSUME Inv, InputSplit, AttachFd
  PROVE  InputSplit'
<1>1. /\ handed = <<>> /\ inbox = <<>> /\ reader = "none" /\ ~Fresh'
      /\ UNCHANGED <<peer, inbox, reader, handed>>
  BY DEF AttachFd, AttachSources, InitWithFd, InputSplit, Fresh
<1>2. PICK n \in Nat : initBuffer' = Upto(n) /\ arrived' = n
  BY ConnBounds DEF AttachFd
<1>3. Cat(Cat(<<>>, Upto(n)), <<>>) = Upto(n)
  BY UptoIsSeq, ConcatEmptySeq, EmptySeq DEF Cat
<1>4. Input' = Upto(n)
  BY <1>1, <1>2, <1>3 DEF Input
<1> QED BY <1>1, <1>2, <1>4, InputMoved

LEMMA InputTypes ==
  ASSUME Inv
  PROVE  /\ handed \in Seq(Nat) /\ initBuffer \in Seq(Nat) /\ inbox \in Seq(Nat)
         /\ Cat(handed, initBuffer) \in Seq(Nat) /\ Input \in Seq(Nat) /\ arrived \in Nat
<1>1. /\ handed \in Seq(Nat) /\ initBuffer \in Seq(Nat) /\ inbox \in Seq(Nat) /\ arrived \in Nat
  BY DEF Inv, TypeOK
<1> QED BY <1>1, CatIsSeq DEF Input

LEMMA ArriveInput ==
  ASSUME Inv, InputSplit, Arrive, UNCHANGED readVars
  PROVE  InputSplit'
<1>1. PICK m \in Nat : Input = Upto(m) /\ m = arrived
  BY DEF Arrive, InputSplit
<1>2. /\ inbox' = Append(inbox, m + 1) /\ arrived' = m + 1 /\ ~Fresh'
      /\ handed' = handed /\ initBuffer' = initBuffer /\ reader' = reader
  BY <1>1 DEF Arrive, Joined, Inv, Lifecycle, Fresh, readVars
<1> DEFINE before == Cat(handed, initBuffer)
           next == [i \in 1..1 |-> m + i]
<1>3. before \in Seq(Nat) /\ inbox \in Seq(Nat)
  BY InputTypes
<1>4. next \in Seq(Nat) /\ Cat(Upto(m), next) = Upto(m + 1)
  BY UptoGrows DEF Cat
<1>n. next = <<m + 1>>
  OBVIOUS
<1>a. m + 1 \in Nat
  OBVIOUS
<1> HIDE DEF before, next
<1>b. Append(inbox, m + 1) = inbox \o <<m + 1>>
  BY <1>3, <1>a, AppendIsConcat
<1>5. Append(inbox, m + 1) = Cat(inbox, next)
  BY <1>n, <1>b DEF Cat
<1>6. Cat(Cat(before, inbox), next) = Cat(before, Cat(inbox, next))
  BY <1>3, <1>4, CatAssociative
<1>7. Cat(before, inbox) = Upto(m) /\ Input' = Cat(before, inbox')
  BY <1>1, <1>2 DEF Input, before
<1>8. Input' = Upto(m + 1)
  BY <1>2, <1>4, <1>5, <1>6, <1>7
<1>9. reader' = "loop" => initBuffer' = <<>>
  BY <1>2 DEF InputSplit
<1> QED BY <1>2, <1>8, <1>9, InputMoved

\* A reset leaves the bytes that were taken out of the kernel in time.
LEMMA PeerLeavesInput ==
  ASSUME Inv, InputSplit, PeerLeaves, UNCHANGED readVars
  PROVE  InputSplit'
<1>1. PICK m \in Nat : Input = Upto(m)
  BY DEF InputSplit
<1>2. /\ ~Fresh' /\ peer' # "up" /\ (inbox' = inbox \/ inbox' = <<>>)
      /\ handed' = handed /\ initBuffer' = initBuffer /\ reader' = reader
  BY DEF PeerLeaves, Joined, Inv, Lifecycle, Fresh, readVars
<1>3. reader' = "loop" => initBuffer' = <<>>
  BY <1>2 DEF InputSplit
<1>4. CASE inbox' = inbox
  <2>1. Input' = Upto(m)
    BY <1>1, <1>2, <1>4 DEF Input
  <2> QED BY <1>2, <1>3, <2>1, InputMoved
<1>5. CASE inbox' = <<>>
  <2>1. Cat(handed, initBuffer) \in Seq(Nat) /\ inbox \in Seq(Nat)
    BY InputTypes
  <2>2. Input' = Cat(handed, initBuffer)
    BY <1>2, <1>5, <2>1, ConcatEmptySeq DEF Input, Cat
  <2>3. Cat(handed, initBuffer) = Upto(Len(Cat(handed, initBuffer)))
    BY <1>1, <2>1, FrontOfUpto DEF Input
  <2>4. Len(Cat(handed, initBuffer)) \in Nat
    BY <2>1, LenProperties
  <2> QED BY <1>2, <1>3, <2>2, <2>3, <2>4, InputMoved
<1> QED BY <1>2, <1>4, <1>5

LEMMA ReadInitInput ==
  ASSUME Inv, InputSplit, NEW goOn \in BOOLEAN, ReadInit(goOn)
  PROVE  InputSplit'
<1>1. PICK m \in Nat : Input = Upto(m) /\ (peer = "up" => m = arrived)
  BY DEF InputSplit
<1>2. /\ handed' = Cat(handed, initBuffer) /\ initBuffer' = <<>> /\ ~Fresh'
      /\ UNCHANGED <<inbox, arrived, peer>>
  BY DEF ReadInit, InitLeft, sockVars, Inv, Lifecycle, Fresh, Cat
<1>3. Cat(Cat(handed, initBuffer), <<>>) = Cat(handed, initBuffer)
  BY InputTypes, ConcatEmptySeq DEF Cat
<1>4. Input' = Upto(m)
  BY <1>1, <1>2, <1>3 DEF Input
<1> QED BY <1>1, <1>2, <1>4, InputMoved

LEMMA ReadChunkInput ==
  ASSUME Inv, InputSplit, NEW goOn \in BOOLEAN, ReadChunk(goOn)
  PROVE  InputSplit'
<1>1. PICK m \in Nat : Input = Upto(m) /\ (peer = "up" => m = arrived)
  BY DEF InputSplit
<1>2. /\ initBuffer = <<>> /\ initBuffer' = <<>> /\ ~Fresh'
      /\ UNCHANGED <<sockState, attaching, peer, arrived>>
  BY DEF ReadChunk, InputSplit, Fresh
<1>3. CASE UNCHANGED <<handed, inbox>>
  <2>1. Input' = Upto(m)
    BY <1>1, <1>2, <1>3 DEF Input
  <2> QED BY <1>1, <1>2, <2>1, InputMoved
<1>4. ASSUME NEW k \in 1..RecvSize, k <= Len(inbox),
             handed' = handed \o SubSeq(inbox, 1, k), inbox' = Drop(inbox, k)
      PROVE  InputSplit'
  <2>1. handed \in Seq(Nat) /\ inbox \in Seq(Nat) /\ k \in 0..Len(inbox)
    BY <1>4, InputTypes, ConnBounds, LenProperties
  <2>2. /\ SubSeq(inbox, 1, k) \in Seq(Nat) /\ Drop(inbox, k) \in Seq(Nat)
        /\ Cat(SubSeq(inbox, 1, k), Drop(inbox, k)) = inbox
    BY <2>1, Cut DEF Cat
  <2>3. Cat(Cat(handed, SubSeq(inbox, 1, k)), Drop(inbox, k)) = Cat(handed, inbox)
    <3>1. Cat(Cat(handed, SubSeq(inbox, 1, k)), Drop(inbox, k))
            = Cat(handed, Cat(SubSeq(inbox, 1, k), Drop(inbox, k)))
      BY <2>1, <2>2, CatAssociative
    <3> QED BY <2>2, <3>1, Zenon
  <2>4. Cat(handed, <<>>) = handed
    BY <2>1, ConcatEmptySeq DEF Cat
  <2>5. handed' = Cat(handed, SubSeq(inbox, 1, k)) /\ handed' \in Seq(Nat)
    BY <1>4, <2>1, <2>2, CatIsSeq DEF Cat
  <2>6. Cat(handed', <<>>) = handed'
    BY <2>5, ConcatEmptySeq DEF Cat
  <2>7. Input' = Upto(m)
    BY <1>1, <1>2, <1>4, <2>3, <2>4, <2>5, <2>6 DEF Input
  <2> QED BY <1>1, <1>2, <2>7, InputMoved
<1> QED BY <1>3, <1>4 DEF ReadChunk

LEMMA InputStep == Inv /\ InputSplit /\ [Next]_vars => InputSplit'
<1> SUFFICES ASSUME Inv, InputSplit, [Next]_vars PROVE InputSplit'
  OBVIOUS
<1>1. CASE App
  <2>1. ASSUME NEW lens, NEW gather, Send(lens, gather) PROVE InputSplit'
    BY <2>1, InputKept DEF Send, Fresh, readVars
  <2>2. ASSUME NEW n, SendBuffered(n) PROVE InputSplit'
    BY <2>2, InputKept DEF SendBuffered, Fresh, readVars
  <2>3. ASSUME NEW fails, Connect(fails) PROVE InputSplit'
    BY <2>3, InputKept DEF Connect, StartConnect, Fresh, readVars
  <2>4. CASE Close
    BY <2>4, InputKept DEF Close, Fresh, readVars
  <2> QED BY <1>1, <2>1, <2>2, <2>3, <2>4, AttachInput DEF App
<1>2. ASSUME NEW ok, ConnectEvent(ok) PROVE InputSplit'
  BY <1>2, InputKept DEF ConnectEvent, Fresh, readVars
<1>3. CASE WriteEvent
  BY <1>3, InputKept DEF WriteEvent, Fresh, readVars
<1>4. CASE ReadEvent
  <2>1. ~Fresh /\ ~Fresh'
    BY <1>4 DEF ReadEvent, Readable, Inv, Lifecycle, Fresh
  <2> QED BY <1>4, <2>1, InputKept DEF ReadEvent
<1>5. CASE Reading
  BY <1>5, ReadInitInput, ReadChunkInput DEF Reading
<1>6. CASE Kernel /\ UNCHANGED <<sendVars, readVars, toldVars>>
  <2>1. CASE Drain
    BY <1>6, <2>1, InputKept DEF Drain, Fresh, readVars
  <2> QED BY <1>6, <2>1, ArriveInput, PeerLeavesInput DEF Kernel
<1>7. CASE AttachFdReturns
  BY <1>7, InputKept DEF AttachFdReturns, AttachOpen, Fresh, readVars
<1>8. CASE UNCHANGED vars
  BY <1>8, InputKept DEF vars, sockVars, readVars, Fresh
<1> QED BY <1>1, <1>2, <1>3, <1>4, <1>5, <1>6, <1>7, <1>8 DEF Next, Connecting

\* Input reaches the handler once and in order, the data that came with attachFd
\* first, however it is cut, whenever the handler stops the loop and whenever the
\* peer leaves (onRead).
THEOREM InputComesInOrder == Spec => []InputInOrder
<1>1. Inv /\ InputSplit => InputInOrder
  <2> SUFFICES ASSUME Inv, InputSplit PROVE InputInOrder
    OBVIOUS
  <2>1. PICK m \in Nat : Input = Upto(m)
    BY DEF InputSplit
  <2>2. handed \in Seq(Nat) /\ initBuffer \in Seq(Nat) /\ inbox \in Seq(Nat)
    BY InputTypes
  <2>3. Cat(handed, Cat(initBuffer, inbox)) = Upto(m)
    BY <2>1, <2>2, CatAssociative DEF Input
  <2>4. Cat(initBuffer, inbox) \in Seq(Nat)
    BY <2>2, CatIsSeq
  <2> QED BY <2>2, <2>3, <2>4, FrontOfUpto DEF InputInOrder
<1> QED BY <1>1, InputInit, InputStep, Invariance, PTL DEF Spec

-----------------------------------------------------------------------------
(* TcpConnection implements ByteStream. *)

\* The wire only grows: what it holds afterwards begins with what it held.
Grows(p, q) == \E more \in Seq(Nat) : q = Cat(p, more)

LEMMA GrowsFacts ==
  ASSUME NEW p \in Seq(Nat)
  PROVE  /\ Grows(p, p)
         /\ \A q, r : Grows(p, q) /\ Grows(q, r) => Grows(p, r)
<1>1. Cat(p, <<>>) = p /\ <<>> \in Seq(Nat)
  BY ConcatEmptySeq, EmptySeq DEF Cat
<1>2. ASSUME NEW x \in Seq(Nat), NEW y \in Seq(Nat)
      PROVE  Cat(Cat(p, x), y) = Cat(p, Cat(x, y)) /\ Cat(x, y) \in Seq(Nat)
  BY CatAssociative, CatIsSeq
<1>3. Grows(p, p)
  BY <1>1 DEF Grows
<1>4. ASSUME NEW q, NEW r, Grows(p, q), Grows(q, r)
      PROVE  Grows(p, r)
  <2>1. PICK x \in Seq(Nat) : q = Cat(p, x)
    BY <1>4 DEF Grows
  <2>2. PICK y \in Seq(Nat) : r = Cat(q, y)
    BY <1>4 DEF Grows
  <2>3. r = Cat(p, Cat(x, y)) /\ Cat(x, y) \in Seq(Nat)
    BY <1>2, <2>1, <2>2
  <2> QED BY <2>3 DEF Grows
<1> QED BY <1>3, <1>4

LEMMA GrowsIsPrefix ==
  ASSUME NEW p \in Seq(Nat), NEW q \in Seq(Nat), Grows(p, q)
  PROVE  Stream!IsPrefix(p, q)
<1>1. PICK more \in Seq(Nat) : q = p \o more
  BY DEF Grows, Cat
<1>2. Len(p) \in Nat /\ Len(more) \in Nat
  BY LenProperties
<1>3. /\ Len(p \o more) = Len(p) + Len(more)
      /\ \A i \in 1..(Len(p) + Len(more)) :
           (p \o more)[i] = IF i <= Len(p) THEN p[i] ELSE more[i - Len(p)]
  BY ConcatProperties
<1>4. Len(p) <= Len(q) /\ \A i \in 1..Len(p) : q[i] = p[i]
  BY <1>1, <1>2, <1>3
<1>5. Len(q) \in Nat
  BY LenProperties
<1>6. SubSeq(p, 1, Len(p)) = SubSeq(q, 1, Len(p))
  <2>1. SubSeq(p, 1, Len(p)) = [i \in 1..Len(p) |-> p[i]]
    BY <1>2
  <2>2. SubSeq(q, 1, Len(p)) = [i \in 1..Len(p) |-> q[i]]
    BY <1>2, <1>4, <1>5
  <2> QED BY <1>4, <2>1, <2>2
<1> QED BY <1>4, <1>6 DEF Stream!IsPrefix

LEMMA WriteGrows ==
  ASSUME NEW o \in SendSide, NEW data \in Seq(Nat)
  PROVE  Grows(o.wire, WriteTo(o, data).wire)
<1>1. Len(data) \in Nat
  BY LenProperties
<1>2. PICK ret : ret = WriteRet(o, Len(data))
  OBVIOUS
<1>3. ret \in Int /\ ret <= Len(data)
  BY <1>1, <1>2, WriteRetBounds
<1>4. PICK took : took = IF ret > 0 THEN ret ELSE 0
  OBVIOUS
<1>5. took \in 0..Len(data)
  BY <1>1, <1>3, <1>4
<1>6. SubSeq(data, 1, took) \in Seq(Nat)
  BY <1>5, Cut
<1>7. WriteTo(o, data).wire = Cat(o.wire, SubSeq(data, 1, took))
  BY <1>2, <1>4 DEF WriteTo, Cat
<1> QED BY <1>6, <1>7 DEF Grows

LEMMA FlushGrows ==
  ASSUME snd \in SendSide, NEW b \in Seq(Nat)
  PROVE  Grows(snd.wire, FlushTo(b).wire)
<1>1. snd.wire \in Seq(Nat)
  BY DEF SendSide
<1>2. FlushTo(b) = snd \/ FlushTo(b) = WriteTo(snd, b)
  BY DEF FlushTo
<1> QED BY <1>1, <1>2, WriteGrows, GrowsFacts

\* No step takes a byte back from the wire, and send takes whole pieces of data.
LEMMA WireGrows ==
  ASSUME Inv, [Next]_vars
  PROVE  Grows(snd.wire, snd'.wire)
<1>1. snd \in SendSide /\ buffer \in Seq(Nat) /\ accepted \in Nat /\ snd.wire \in Seq(Nat)
  BY DEF Inv, TypeOK, SendSide
<1>2. CASE snd'.wire = snd.wire
  BY <1>1, <1>2, GrowsFacts
<1>3. ASSUME NEW lens \in Shapes, NEW gather \in BOOLEAN, Send(lens, gather)
      PROVE  Grows(snd.wire, snd'.wire)
  <2>1. PICK n \in Nat : n = lens[1] + lens[2] + lens[3]
    BY ConnBounds
  <2>2. /\ FlushTo(buffer) \in SendSide /\ NextBytes(n) \in Seq(Nat)
        /\ Grows(snd.wire, FlushTo(buffer).wire)
    BY <1>1, FlushKeepsBytes, FlushGrows, NextBytesFollow
  <2>3. Grows(FlushTo(buffer).wire, WriteTo(FlushTo(buffer), NextBytes(n)).wire)
    BY <2>2, WriteGrows
  <2>4. snd' = FlushTo(buffer) \/ snd' = WriteTo(FlushTo(buffer), NextBytes(n))
    BY <1>3, <2>1 DEF Send
  <2> QED BY <1>1, <2>2, <2>3, <2>4, GrowsFacts
<1>4. ASSUME NEW n \in 1..MaxOut, SendBuffered(n)
      PROVE  Grows(snd.wire, snd'.wire)
  <2>1. n \in Nat
    BY ConnBounds
  <2>2. Cat(buffer, NextBytes(n)) \in Seq(Nat) /\ snd' = FlushTo(Cat(buffer, NextBytes(n)))
    BY <1>1, <1>4, <2>1, NextBytesFollow, CatIsSeq DEF SendBuffered, Cat
  <2> QED BY <1>1, <2>2, FlushGrows
<1>5. CASE WriteEvent
  <2>1. PICK o : o = SuspendOnWrite(snd)
    OBVIOUS
  <2>2. o \in SendSide /\ o.wire = snd.wire
    <3>1. (~Usable) \in BOOLEAN
      OBVIOUS
    <3> QED BY <1>1, <2>1, <3>1 DEF SendSide, SuspendOnWrite
  <2>3. snd' = o \/ snd' = WriteTo(o, buffer)
    BY <1>5, <2>1 DEF WriteEvent
  <2> QED BY <1>1, <2>2, <2>3, WriteGrows, GrowsFacts
<1>6. \/ snd'.wire = snd.wire
      \/ \E lens \in Shapes, gather \in BOOLEAN : Send(lens, gather)
      \/ \E n \in 1..MaxOut : SendBuffered(n)
      \/ WriteEvent
  <2>1. [snd EXCEPT !.suspended = FALSE].wire = snd.wire /\ [snd EXCEPT !.room = @ + 1].wire = snd.wire
    BY <1>1 DEF SendSide
  <2>2. CASE App
    BY <2>1, <2>2 DEF App, Connect, AttachFd, StartConnect, AttachSources, InitWithFd, Close
  <2>3. CASE Connecting \/ ReadEvent \/ Reading \/ AttachFdReturns
    BY <2>3 DEF AttachFdReturns, AttachOpen, Connecting, ConnectEvent, ReadEvent, Reading, ReadInit, ReadChunk, sockVars
  <2>4. CASE Kernel
    BY <2>1, <2>4 DEF Kernel, Arrive, Drain, PeerLeaves
  <2>5. CASE UNCHANGED vars
    BY <2>5 DEF vars, sockVars
  <2> QED BY <2>2, <2>3, <2>4, <2>5 DEF Next
<1> QED BY <1>2, <1>3, <1>4, <1>5, <1>6

LEMMA AcceptedGrows ==
  ASSUME Inv, [Next]_vars
  PROVE  \E n \in 0..MaxOut : accepted' = accepted + n /\ (n > 0 => accepted' <= MaxOut)
<1>1. accepted \in Nat /\ MaxOut \in Nat
  BY ConnBounds DEF Inv, TypeOK
<1>2. CASE accepted' = accepted
  BY <1>1, <1>2
<1>3. ASSUME NEW lens \in Shapes, NEW gather \in BOOLEAN, Send(lens, gather)
      PROVE  \E n \in 0..MaxOut : accepted' = accepted + n /\ (n > 0 => accepted' <= MaxOut)
  <2>1. PICK n \in Nat : n = lens[1] + lens[2] + lens[3]
    BY ConnBounds
  <2>2. accepted + n <= MaxOut /\ (accepted' = accepted \/ accepted' = accepted + n)
    BY <1>3, <2>1 DEF Send, sendVars
  <2>3. n \in 0..MaxOut
    BY <1>1, <2>2
  <2> QED BY <1>1, <1>2, <2>2, <2>3
<1>4. ASSUME NEW n \in 1..MaxOut, SendBuffered(n)
      PROVE  \E k \in 0..MaxOut : accepted' = accepted + k /\ (k > 0 => accepted' <= MaxOut)
  BY <1>1, <1>4 DEF SendBuffered
<1>5. \/ accepted' = accepted
      \/ \E lens \in Shapes, gather \in BOOLEAN : Send(lens, gather)
      \/ \E n \in 1..MaxOut : SendBuffered(n)
  BY DEF Next, App, Connect, AttachFd, AttachFdReturns, Close, Connecting, ConnectEvent, WriteEvent, ReadEvent,
         Reading, ReadInit, ReadChunk, Kernel, vars, sendVars
<1> QED BY <1>2, <1>3, <1>4, <1>5

LEMMA StepIsTransfer == Inv /\ [Next]_vars => [Stream!Transfer]_(Stream!streamVars)
<1> SUFFICES ASSUME Inv, [Next]_vars PROVE Stream!Transfer
  OBVIOUS
<1>1. Inv'
  BY StepInv
<1>2. PICK n \in 0..MaxOut : accepted' = accepted + n /\ (n > 0 => accepted' <= MaxOut)
  BY AcceptedGrows
<1>3. accepted \in Nat /\ MaxOut \in Nat /\ n \in Nat
  BY ConnBounds DEF Inv, TypeOK
<1>4. /\ snd.wire \in Seq(Nat) /\ snd'.wire \in Seq(Nat) /\ buffer' \in Seq(Nat)
      /\ Cat(snd'.wire, buffer') = Upto(accepted') /\ Upto(accepted') \in Seq(Nat)
  BY <1>1, <1>2, <1>3, UptoIsSeq DEF Inv, TypeOK, SendSide, NoByteLost, Cat
<1>5. \E new \in [1..n -> 1..MaxOut] : Upto(accepted') = Upto(accepted) \o new
  <2>1. [i \in 1..n |-> accepted + i] \in [1..n -> 1..MaxOut]
    BY <1>2, <1>3
  <2>2. Upto(accepted) \o [i \in 1..n |-> accepted + i] = Upto(accepted')
    BY <1>2, <1>3, UptoGrows
  <2> QED BY <2>1, <2>2
<1>6. Stream!IsPrefix(snd.wire, snd'.wire)
  BY <1>4, WireGrows, GrowsIsPrefix
<1>7. Stream!IsPrefix(snd'.wire, Upto(accepted'))
  <2>1. Grows(snd'.wire, Upto(accepted'))
    BY <1>4 DEF Grows
  <2> QED BY <1>4, <2>1, GrowsIsPrefix
<1>8. Upto(accepted)' = Upto(accepted')
  BY DEF Upto
<1> QED BY <1>5, <1>6, <1>7, <1>8 DEF Stream!Transfer

\* TcpConnection is a byte stream: what send reports as sent leaves in the order in
\* which it was taken, none lost, repeated or overtaken, whatever the kernel takes.
THEOREM ImplementsByteStream == Spec => IsByteStream
<1>1. Init => Stream!StreamInit
  <2>1. Upto(0) = <<>>
    BY EmptySeq DEF Upto
  <2> QED BY <2>1 DEF Init, SockInit, Stream!StreamInit
<1> QED BY <1>1, StepIsTransfer, Invariance, PTL DEF Spec, IsByteStream, Stream!StreamSpec

=============================================================================
