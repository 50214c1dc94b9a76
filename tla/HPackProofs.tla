----------------------------- MODULE HPackProofs -----------------------------
(***************************************************************************)
(* Theorems about HPack, for every set of headers, every static table and  *)
(* every size of the dynamic tables.                                       *)
(***************************************************************************)
EXTENDS HPack, SequenceTheorems, FiniteSetTheorems, WellFoundedInduction, TLAPS

-----------------------------------------------------------------------------
(* Induction over an interval, as a fact about sets: a set of the numbers  *)
(* 0..L that has L, and i with i + 1, has them all.                        *)

\* Every nonempty set of naturals has a least element.
LEMMA LeastNatural ==
  ASSUME NEW S \in SUBSET Nat, S # {}
  PROVE  \E m \in S : \A k \in S : ~(k < m)
<1>1. PICK m \in S : \A k \in S : <<k, m>> \notin OpToRel(<, Nat)
  BY NatLessThanWellFounded, WFMin, Zenon
<1> QED
  BY <1>1 DEF OpToRel

LEMMA Downward ==
  ASSUME NEW L \in Nat, NEW S \in SUBSET (0..L), L \in S,
         \A i \in 0..L : i < L /\ i + 1 \in S => i \in S
  PROVE  S = 0..L
<1>1. SUFFICES ASSUME NEW x \in 0..L, x \notin S PROVE FALSE
  OBVIOUS
<1>2. PICK m \in {j \in Nat : j <= L /\ L - j \notin S} :
        \A k \in {j \in Nat : j <= L /\ L - j \notin S} : ~(k < m)
  <2>1. L - x \in {j \in Nat : j <= L /\ L - j \notin S}
    BY <1>1
  <2> QED
    BY <2>1, LeastNatural
<1>3. m # 0
  BY <1>2
<1>4. m - 1 \in Nat /\ m - 1 <= L /\ L - (m - 1) \in S
  BY <1>2, <1>3
<1>5. L - m \in 0..L /\ L - m < L /\ (L - m) + 1 \in S
  BY <1>2, <1>3, <1>4
<1> QED
  BY <1>2, <1>5

-----------------------------------------------------------------------------
(* The sizes of a table.                                                   *)

LEMMA SizeType == ASSUME NEW h \in Header PROVE Size(h) \in Nat
<1>1. h.name \in Seq(Letters) /\ h.value \in Seq(Letters)
  BY DEF Header, Text
<1>2. Len(h.name) \in Nat /\ Len(h.value) \in Nat
  BY <1>1, LenProperties
<1> QED
  <2>1. Extra \in Nat
    BY HPackTypes
  <2>2. \A a, b, c \in Nat : a + b + c \in Nat
    OBVIOUS
  <2> QED
    BY <1>2, <2>1, <2>2, Zenon DEF Size

\* What defines the sizes after the entries of a table has a solution.
Sizes(e, f) == f = [i \in 0..Len(e) |->
                      IF i = Len(e) THEN 0 ELSE Size(e[i + 1]) + f[i + 1]]

LEMMA SizesExist ==
  ASSUME NEW e \in Seq(Header) PROVE \E f : Sizes(e, f)
<1> DEFINE L == Len(e)
           Part(k) == {f \in [k..L -> Nat] : \A i \in k..L :
                         f[i] = IF i = L THEN 0 ELSE Size(e[i + 1]) + f[i + 1]}
           S == {k \in 0..L : Part(k) # {}}
<1>1. L \in Nat
  OBVIOUS
<1>2. L \in S
  <2>1. \A i \in L..L : i = L
    BY <1>1
  <2>2. [i \in L..L |-> 0] \in Part(L)
    BY <2>1
  <2> QED
    <3>1. L \in 0..L
      BY <1>1
    <3> HIDE DEF Part
    <3> QED
      BY <2>2, <3>1
<1>3. ASSUME NEW k \in 0..L, k < L, k + 1 \in S PROVE k \in S
  <2>1. PICK f : f \in Part(k + 1)
    BY <1>3
  <2> DEFINE g == [i \in k..L |-> IF i = k THEN Size(e[k + 1]) + f[k + 1] ELSE f[i]]
  <2>2. f \in [(k + 1)..L -> Nat] /\ k + 1 \in (k + 1)..L /\ f[k + 1] \in Nat
    BY <1>1, <1>3, <2>1
  <2>3. Size(e[k + 1]) \in Nat
    <3>1. e[k + 1] \in Header
      BY <1>1, <1>3
    <3> QED
      BY <3>1, SizeType
  <2>4. g \in [k..L -> Nat]
    BY <1>1, <2>2, <2>3
  <2>5. ASSUME NEW i \in k..L PROVE g[i] = IF i = L THEN 0 ELSE Size(e[i + 1]) + g[i + 1]
    <3>1. CASE i = k
      BY <1>1, <1>3, <3>1
    <3>2. CASE i # k
      <4>1. i \in (k + 1)..L /\ (i # L => i + 1 \in (k + 1)..L /\ i + 1 # k)
        BY <1>1, <3>2
      <4>2. f[i] = IF i = L THEN 0 ELSE Size(e[i + 1]) + f[i + 1]
        BY <2>1, <4>1
      <4> QED
        BY <1>1, <3>2, <4>1, <4>2
    <3> QED
      BY <3>1, <3>2
  <2>6. g \in Part(k)
    BY <2>4, <2>5
  <2> QED
    BY <2>6, <1>3
<1>4. 0 \in S
  <2>1. S = 0..L
    <3> HIDE DEF Part
    <3> QED
      BY <1>1, <1>2, <1>3, Downward
  <2> QED
    BY <2>1, <1>1
<1>5. PICK f : f \in Part(0)
  BY <1>4
<1>6. f = [i \in 0..L |-> IF i = L THEN 0 ELSE Size(e[i + 1]) + f[i + 1]]
  BY <1>5
<1> QED
  BY <1>6 DEF Sizes

LEMMA SizeAfterEquation ==
  ASSUME NEW e \in Seq(Header), NEW n \in 0..Len(e)
  PROVE  SizeAfter(e, n) = IF n = Len(e) THEN 0 ELSE Size(e[n + 1]) + SizeAfter(e, n + 1)
<1> DEFINE f == CHOOSE f : Sizes(e, f)
<1>1. Sizes(e, f)
  BY SizesExist
<1>2. ASSUME NEW m \in 0..Len(e) PROVE SizeAfter(e, m) = f[m]
  BY DEF SizeAfter, Sizes
<1>3. f[n] = IF n = Len(e) THEN 0 ELSE Size(e[n + 1]) + f[n + 1]
  <2> HIDE DEF f
  <2> QED
    BY <1>1 DEF Sizes
<1>4. n # Len(e) => n + 1 \in 0..Len(e)
  OBVIOUS
<1> HIDE DEF f
<1> QED
  BY <1>2, <1>3, <1>4

LEMMA SizeAfterType ==
  ASSUME NEW e \in Seq(Header), NEW n \in 0..Len(e) PROVE SizeAfter(e, n) \in Nat
<1> DEFINE L == Len(e)
           S == {k \in 0..L : SizeAfter(e, k) \in Nat}
<1>1. L \in Nat /\ L \in 0..L
  OBVIOUS
<1>2. L \in S
  <2>1. SizeAfter(e, L) = 0
    BY <1>1, SizeAfterEquation
  <2> QED
    BY <1>1, <2>1
<1>3. ASSUME NEW k \in 0..L, k < L, k + 1 \in S PROVE k \in S
  <2>1. e[k + 1] \in Header
    BY <1>1, <1>3
  <2>2. Size(e[k + 1]) \in Nat /\ SizeAfter(e, k + 1) \in Nat
    BY <1>3, <2>1, SizeType
  <2>3. SizeAfter(e, k) = Size(e[k + 1]) + SizeAfter(e, k + 1)
    BY <1>1, <1>3, SizeAfterEquation
  <2> QED
    BY <2>2, <2>3
<1>4. S = 0..L
  <2> HIDE DEF S
  <2>1. S \in SUBSET (0..L)
    BY DEF S
  <2> QED
    BY <1>1, <1>2, <1>3, <2>1, Downward
<1> QED
  BY <1>4

\* The sizes of the first entries of a table.
LEMMA SizeAfterPrefix ==
  ASSUME NEW e \in Seq(Header), NEW m \in 0..Len(e), NEW n \in 0..m
  PROVE  SizeAfter(SubSeq(e, 1, m), n) = SizeAfter(e, n) - SizeAfter(e, m)
<1> DEFINE p == SubSeq(e, 1, m)
           S == {k \in 0..m : SizeAfter(p, k) = SizeAfter(e, k) - SizeAfter(e, m)}
<1>1. /\ p \in Seq(Header) /\ Len(p) = m /\ \A i \in 1..m : p[i] = e[i]
      /\ Len(e) \in Nat /\ m \in Nat /\ m \in 0..m /\ m \in 0..Len(e)
  <2>1. \A i \in 1..m : e[i] \in Header
    OBVIOUS
  <2>2. m \in Int /\ 1 \in Int /\ (1 <= m => m - 1 + 1 = m) /\ (~(1 <= m) => m = 0)
    OBVIOUS
  <2> QED
    BY <2>1, <2>2, SubSeqProperties
<1> HIDE DEF p
<1>2. m \in S
  <2>1. SizeAfter(p, m) = 0
    BY <1>1, SizeAfterEquation
  <2>2. SizeAfter(e, m) \in Nat
    BY SizeAfterType
  <2> QED
    BY <1>1, <2>1, <2>2
<1>3. ASSUME NEW k \in 0..m, k < m, k + 1 \in S PROVE k \in S
  <2>1. k \in 0..Len(e) /\ k # Len(e) /\ k # m /\ k + 1 \in 0..Len(e) /\ k + 1 \in 1..m
    BY <1>1, <1>3
  <2>2. SizeAfter(p, k) = Size(e[k + 1]) + SizeAfter(p, k + 1)
    BY <1>1, <2>1, SizeAfterEquation
  <2>3. SizeAfter(e, k) = Size(e[k + 1]) + SizeAfter(e, k + 1)
    BY <1>1, <2>1, SizeAfterEquation
  <2>4. /\ SizeAfter(e, k + 1) \in Nat /\ SizeAfter(e, m) \in Nat
        /\ e[k + 1] \in Header
    BY <1>1, <2>1, SizeAfterType
  <2>5. Size(e[k + 1]) \in Nat
    BY <2>4, SizeType
  <2>6. SizeAfter(p, k + 1) = SizeAfter(e, k + 1) - SizeAfter(e, m)
    BY <1>3
  <2> QED
    BY <1>3, <2>2, <2>3, <2>4, <2>5, <2>6
<1>4. S = 0..m
  <2> HIDE DEF S
  <2>1. S \in SUBSET (0..m)
    BY DEF S
  <2> QED
    BY <1>1, <1>2, <1>3, <2>1, Downward
<1> QED
  BY <1>4 DEF p

\* The sizes after a new entry.
LEMMA SizeAfterNew ==
  ASSUME NEW e \in Seq(Header), NEW h \in Header
  PROVE  SizeAfter(<<h>> \o e, 0) = Size(h) + SizeAfter(e, 0)
<1> DEFINE q == <<h>> \o e
           L == Len(e)
           S == {k \in 0..L : SizeAfter(q, k + 1) = SizeAfter(e, k)}
<1>1. /\ q \in Seq(Header) /\ Len(q) = L + 1 /\ q[1] = h
      /\ \A i \in 1..L : q[i + 1] = e[i]
      /\ L \in Nat /\ L \in 0..L
  OBVIOUS
<1> HIDE DEF q
<1>2. L \in S
  <2>1. SizeAfter(q, L + 1) = 0 /\ SizeAfter(e, L) = 0
    <3>1. L + 1 \in 0..(L + 1)
      BY <1>1
    <3> QED
      BY <1>1, <3>1, SizeAfterEquation
  <2> QED
    BY <1>1, <2>1
<1>3. ASSUME NEW k \in 0..L, k < L, k + 1 \in S PROVE k \in S
  <2>1. k + 1 \in 0..(L + 1) /\ k + 1 # L + 1 /\ k # L /\ k + 1 \in 1..L
    BY <1>1, <1>3
  <2>2. SizeAfter(q, k + 1) = Size(q[(k + 1) + 1]) + SizeAfter(q, (k + 1) + 1)
    BY <1>1, <2>1, SizeAfterEquation
  <2>3. SizeAfter(e, k) = Size(e[k + 1]) + SizeAfter(e, k + 1)
    BY <1>1, <2>1, SizeAfterEquation
  <2>4. q[(k + 1) + 1] = e[k + 1]
    BY <1>1, <2>1
  <2>5. SizeAfter(q, (k + 1) + 1) = SizeAfter(e, k + 1)
    BY <1>3
  <2> QED
    BY <2>2, <2>3, <2>4, <2>5
<1>4. S = 0..L
  <2> HIDE DEF S
  <2>1. S \in SUBSET (0..L)
    BY DEF S
  <2> QED
    BY <1>1, <1>2, <1>3, <2>1, Downward
<1>5. SizeAfter(q, 0 + 1) = SizeAfter(e, 0)
  <2>1. 0 \in 0..L
    BY <1>1
  <2> QED
    BY <1>4, <2>1
<1>6. SizeAfter(q, 0) = Size(q[0 + 1]) + SizeAfter(q, 0 + 1)
  <2>1. 0 \in 0..(L + 1) /\ 0 # L + 1
    BY <1>1
  <2> QED
    BY <1>1, <2>1, SizeAfterEquation
<1>7. q[0 + 1] = h
  BY <1>1
<1> QED
  BY <1>5, <1>6, <1>7 DEF q

\* Eviction keeps a prefix, and frees enough if anything stays.
LEMMA KeptProperties ==
  ASSUME NEW e \in Seq(Header), NEW sz \in Int
  PROVE  Kept(e, sz) \in 0..Len(e) /\ (Kept(e, sz) # 0 => SizeAfter(e, Kept(e, sz)) >= sz)
<1> DEFINE L == Len(e)
           S == {n \in DOMAIN e : SizeAfter(e, n) >= sz}
<1>1. L \in Nat /\ DOMAIN e = 1..L
  OBVIOUS
<1>2. IsFiniteSet(1..L) /\ Cardinality(1..L) = L
  BY <1>1, FS_Interval, SMTT(60)
<1>3. S \in SUBSET (1..L)
  BY <1>1
<1>4. IsFiniteSet(S) /\ Cardinality(S) \in Nat /\ Cardinality(S) <= L
  <2> HIDE DEF S
  <2> QED
    BY <1>2, <1>3, FS_Subset, FS_CardinalityType
<1> DEFINE n == Cardinality(S)
<1>5. ASSUME n # 0, n \notin S PROVE FALSE
  <2>1. ASSUME NEW m \in S, m >= n PROVE FALSE
    <3>1. m \in 0..L /\ n \in 0..m /\ n \in 1..L /\ m \in 1..L
      <4> HIDE DEF S
      <4> QED
        BY <1>1, <1>3, <1>4, <1>5, <2>1
    <3>2. SizeAfter(SubSeq(e, 1, m), n) = SizeAfter(e, n) - SizeAfter(e, m)
      <4> HIDE DEF n
      <4> QED
        BY <3>1, SizeAfterPrefix
    <3>3. SubSeq(e, 1, m) \in Seq(Header) /\ Len(SubSeq(e, 1, m)) = m
      <4> HIDE DEF S
      <4> QED
        BY <3>1
    <3>4. SizeAfter(SubSeq(e, 1, m), n) \in Nat
      <4> HIDE DEF n
      <4> QED
        BY <3>1, <3>3, SizeAfterType
    <3>5. SizeAfter(e, m) >= sz
      BY <2>1
    <3>6. SizeAfter(e, m) \in Nat /\ SizeAfter(e, n) \in Nat
      <4>1. n \in 0..L
        BY <3>1
      <4> HIDE DEF n
      <4> QED
        BY <3>1, <4>1, SizeAfterType
    <3>7. SizeAfter(e, n) >= sz
      <4> HIDE DEF n
      <4> QED
        BY <3>2, <3>4, <3>5, <3>6
    <3>8. n \in S
      <4>1. n \in DOMAIN e
        BY <1>1, <3>1
      <4> QED
        BY <3>7, <4>1
    <3> QED
      BY <1>5, <3>8
  <2>2. S \in SUBSET (1..(n - 1))
    <3> HIDE DEF S
    <3> QED
      BY <1>3, <1>4, <2>1
  <2>3. IsFiniteSet(1..(n - 1)) /\ Cardinality(1..(n - 1)) = n - 1
    <3>1. 1 \in Int /\ n - 1 \in Int /\ (1 > n - 1 => 0 = n - 1) /\ (n - 1) - 1 + 1 = n - 1
      BY <1>4, <1>5
    <3> HIDE DEF n
    <3> QED
      BY <3>1, FS_Interval
  <2>4. Cardinality(S) <= n - 1
    <3> HIDE DEF S
    <3> QED
      BY <2>2, <2>3, FS_Subset
  <2> QED
    <3> HIDE DEF S
    <3> QED
      BY <1>4, <2>4
<1>6. Kept(e, sz) = n
  BY DEF Kept
<1>7. n # 0 => SizeAfter(e, n) >= sz
  BY <1>5
<1>8. n \in 0..Len(e)
  <2> HIDE DEF S
  <2> QED
    BY <1>4
<1> QED
  BY <1>6, <1>7, <1>8

-----------------------------------------------------------------------------
(* The operations on a table.                                              *)

Sized(t) == t \in Table /\ t.size = SizeAfter(t.entries, 0)
Sound(t) == Sized(t) /\ t.size <= t.limit

\* The table r is what is left of t.
Remainder(t, r) ==
  /\ Sized(r) /\ r.limit = t.limit /\ r.size <= t.size
  /\ Len(r.entries) \in 0..Len(t.entries) /\ r.entries = SubSeq(t.entries, 1, Len(r.entries))

LEMMA EvictProperties ==
  ASSUME NEW t, Sized(t), NEW sz \in Int
  PROVE  Remainder(t, Evict(t, sz)) /\ (Evict(t, sz).size = 0 \/ Evict(t, sz).size <= t.size - sz)
<1> DEFINE e == t.entries
           n == Kept(e, sz)
           p == SubSeq(e, 1, n)
           s == IF t.size > SizeAfter(e, n) THEN t.size - SizeAfter(e, n) ELSE 0
<1>1. e \in Seq(Header) /\ t.size \in Nat /\ t.limit \in Nat /\ t.size = SizeAfter(e, 0)
  BY DEF Sized, Table
<1>2. n \in 0..Len(e) /\ (n # 0 => SizeAfter(e, n) >= sz)
  <2> HIDE DEF e
  <2> QED
    BY <1>1, KeptProperties
<1>3. p \in Seq(Header) /\ Len(p) = n
  <2> HIDE DEF e, n
  <2> QED
    BY <1>1, <1>2
<1>4. Evict(t, sz) = [entries |-> p, size |-> s, limit |-> t.limit]
  <2>1. Evict(t, sz) = [t EXCEPT !.entries = p, !.size = s]
    BY DEF Evict
  <2> HIDE DEF p, s
  <2> QED
    BY <2>1 DEF Sized, Table
<1>5. SizeAfter(p, 0) = t.size - SizeAfter(e, n)
  <2>1. 0 \in 0..n
    <3> HIDE DEF n
    <3> QED
      BY <1>2
  <2> HIDE DEF e, n
  <2> QED
    BY <1>1, <1>2, <2>1, SizeAfterPrefix
<1>6. SizeAfter(e, n) \in Nat /\ SizeAfter(p, 0) \in Nat
  <2>1. 0 \in 0..Len(p)
    <3> HIDE DEF n, p
    <3> QED
      BY <1>2, <1>3
  <2> HIDE DEF e, n, p
  <2> QED
    BY <1>1, <1>2, <1>3, <2>1, SizeAfterType
<1>7. s = SizeAfter(p, 0) /\ s \in Nat /\ s <= t.size
  <2> HIDE DEF e, n, p
  <2> QED
    BY <1>1, <1>5, <1>6
<1>8. s = 0 \/ s <= t.size - sz
  <2>1. CASE n = 0
    <3> HIDE DEF n, e
    <3> QED
      BY <1>1, <2>1
  <2>2. CASE n # 0
    <3> HIDE DEF n, e, p
    <3> QED
      BY <1>1, <1>2, <1>5, <1>6, <2>2
  <2> QED
    BY <2>1, <2>2
<1> DEFINE r == [entries |-> p, size |-> s, limit |-> t.limit]
<1>9. r.entries = p /\ r.size = s /\ r.limit = t.limit
  BY Zenon
<1>10. r \in Table
  <2> HIDE DEF p, s
  <2> QED
    BY <1>1, <1>3, <1>7 DEF Table
<1>11. Remainder(t, r) /\ (r.size = 0 \/ r.size <= t.size - sz)
  <2>1. p = SubSeq(t.entries, 1, Len(p)) /\ Len(p) \in 0..Len(t.entries)
    BY <1>2, <1>3
  <2> HIDE DEF e, n, p, s, r
  <2> QED
    BY <1>7, <1>8, <1>9, <1>10, <2>1 DEF Remainder, Sized
<1>12. Evict(t, sz) = r
  BY <1>4
<1> HIDE DEF r
<1> QED
  BY <1>11, <1>12, Zenon

LEMMA SameTable == ASSUME NEW t, Sized(t) PROVE Remainder(t, t)
<1>1. t.entries \in Seq(Header) /\ t.size \in Nat
  BY DEF Sized, Table
<1>2. SubSeq(t.entries, 1, Len(t.entries)) = t.entries
  BY <1>1, SubSeqFull
<1>3. Len(t.entries) \in 0..Len(t.entries) /\ t.size <= t.size
  BY <1>1
<1> QED
  BY <1>2, <1>3 DEF Remainder

LEMMA MadeRoomProperties ==
  ASSUME NEW t, Sound(t), NEW h \in Header
  PROVE  Remainder(t, MadeRoom(t, h)) /\ (Fits(t, h) => MadeRoom(t, h).size + Size(h) <= t.limit)
<1>1. t.size \in Nat /\ t.limit \in Nat /\ Size(h) \in Nat /\ Sized(t) /\ t.size <= t.limit
  BY SizeType DEF Sound, Sized, Table
<1>2. Excess(t, h) = Size(h) + t.size - t.limit /\ Excess(t, h) \in Int
  BY <1>1 DEF Excess
<1>3. CASE Excess(t, h) > 0
  <2>1. MadeRoom(t, h) = Evict(t, Excess(t, h))
    BY <1>3 DEF MadeRoom
  <2> DEFINE r == Evict(t, Excess(t, h))
  <2>2. Remainder(t, r) /\ (r.size = 0 \/ r.size <= t.size - Excess(t, h))
    BY <1>1, <1>2, EvictProperties
  <2> HIDE DEF r
  <2>3. r.size \in Nat
    BY <2>2 DEF Remainder, Sized, Table
  <2>4. Fits(t, h) => r.size + Size(h) <= t.limit
    BY <1>1, <1>2, <2>2, <2>3 DEF Fits
  <2> QED
    BY <2>1, <2>2, <2>4 DEF r
<1>4. CASE ~(Excess(t, h) > 0)
  <2>1. MadeRoom(t, h) = t
    BY <1>4 DEF MadeRoom
  <2> QED
    BY <1>1, <1>2, <1>4, <2>1, SameTable
<1> QED
  BY <1>3, <1>4

LEMMA AddHeaderSound ==
  ASSUME NEW t, Sound(t), NEW h \in Header
  PROVE  Sound(AddHeader(t, h)) /\ AddHeader(t, h).limit = t.limit
<1> DEFINE r == MadeRoom(t, h)
<1>1. Remainder(t, r) /\ (Fits(t, h) => r.size + Size(h) <= t.limit)
  BY MadeRoomProperties
<1>2. /\ r \in Table /\ r.entries \in Seq(Header) /\ r.size \in Nat /\ r.limit = t.limit
      /\ r.size = SizeAfter(r.entries, 0) /\ r.size <= t.size
  BY <1>1 DEF Remainder, Sized, Table
<1>3. t.size \in Nat /\ t.limit \in Nat /\ t.size <= t.limit /\ Size(h) \in Nat
  BY SizeType DEF Sound, Sized, Table
<1>4. CASE ~Fits(t, h)
  <2>1. AddHeader(t, h) = r
    BY <1>4 DEF AddHeader
  <2> HIDE DEF r
  <2> QED
    BY <1>2, <1>3, <2>1 DEF Sound, Sized
<1>5. CASE Fits(t, h)
  <2> DEFINE e == <<h>> \o r.entries
             a == [entries |-> e, size |-> r.size + Size(h), limit |-> r.limit]
  <2>1. AddHeader(t, h) = a
    <3>1. AddHeader(t, h) = [r EXCEPT !.entries = <<h>> \o @, !.size = @ + Size(h)]
      BY <1>5 DEF AddHeader
    <3> HIDE DEF r
    <3> QED
      BY <1>2, <3>1 DEF Table
  <2> HIDE DEF r
  <2>2. e \in Seq(Header) /\ SizeAfter(e, 0) = Size(h) + SizeAfter(r.entries, 0)
    BY <1>2, SizeAfterNew
  <2> HIDE DEF e
  <2>3. a.size = r.size + Size(h) /\ a.entries = e /\ a.limit = t.limit
    BY <1>2
  <2>4. a \in Table
    BY <1>2, <1>3, <2>2 DEF Table
  <2> HIDE DEF a
  <2> QED
    BY <1>1, <1>2, <1>3, <1>5, <2>1, <2>2, <2>3, <2>4 DEF Sound, Sized
<1> QED
  BY <1>4, <1>5

LEMMA UpdateLimitSizeSound ==
  ASSUME NEW t, Sound(t), NEW sz \in Nat
  PROVE  Sound(UpdateLimitSize(t, sz)) /\ (sz = t.limit => UpdateLimitSize(t, sz) = t)
<1> DEFINE r == IF t.size > sz THEN Evict(t, t.size - sz) ELSE t
<1>1. UpdateLimitSize(t, sz) = [r EXCEPT !.limit = sz]
  BY DEF UpdateLimitSize
<1>2. t.size \in Nat /\ t.limit \in Nat /\ t.size <= t.limit /\ Sized(t) /\ t \in Table
  BY DEF Sound, Sized, Table
<1>3. Sized(r) /\ r.size <= sz
  <2>1. CASE t.size > sz
    <3>1. r = Evict(t, t.size - sz) /\ t.size - sz \in Int
      BY <1>2, <2>1
    <3>2. Remainder(t, r) /\ (r.size = 0 \/ r.size <= t.size - (t.size - sz))
      BY <1>2, <3>1, EvictProperties
    <3> HIDE DEF r
    <3> QED
      BY <1>2, <3>2 DEF Remainder
  <2>2. CASE ~(t.size > sz)
    BY <1>2, <2>2
  <2> QED
    BY <2>1, <2>2
<1>4. sz = t.limit => UpdateLimitSize(t, sz) = t
  <2> SUFFICES ASSUME sz = t.limit PROVE UpdateLimitSize(t, sz) = t
    OBVIOUS
  <2>1. r = t
    BY <1>2
  <2> HIDE DEF r
  <2> QED
    BY <1>1, <1>2, <2>1 DEF Table
<1> HIDE DEF r
<1>5. Sound([r EXCEPT !.limit = sz])
  <2> DEFINE a == [r EXCEPT !.limit = sz]
  <2>1. r \in Table /\ r.size = SizeAfter(r.entries, 0)
    BY <1>3 DEF Sized
  <2>2. a \in Table /\ a.entries = r.entries /\ a.size = r.size /\ a.limit = sz
    BY <2>1 DEF Table
  <2> HIDE DEF a
  <2>3. Sound(a)
    BY <1>3, <2>1, <2>2 DEF Sound, Sized
  <2> QED
    BY <2>3 DEF a
<1> QED
  BY <1>1, <1>4, <1>5

-----------------------------------------------------------------------------
(* The inductive invariant: the fields under way are right for the tables  *)
(* they were encoded with, and these tables lead from the decoder's to the *)
(* encoder's as long as nothing was lost.                                  *)

FieldRight(f) ==
  f.kind # "sizeUpdate" => Resolves(f.table, f) /\ Decoded(f.table, f) = f.hdr
After(f) == TableAfter(f.table, f)

FieldsRight == \A i \in 1..Len(wire) : FieldRight(wire[i])
Chain == ~lost =>
  /\ wire = <<>> => dec = enc
  /\ wire # <<>> => wire[1].table = dec /\ After(wire[Len(wire)]) = enc
  /\ \A i \in 1..Len(wire) : i < Len(wire) => wire[i + 1].table = After(wire[i])

Inv == TypeOK /\ Sound(enc) /\ Sound(dec) /\ IndexExact /\ FieldsRight /\ Chain

LEMMA KeyInKeys == ASSUME NEW h \in Headers
                   PROVE  Key(h) \in Keys /\ h.name \in Keys /\ h \in Header
  BY HPackTypes DEF Keys

LEMMA DynamicIndexType ==
  ASSUME TypeOK, NEW k \in Keys
  PROVE  /\ DynamicIndex(k) \in Int /\ DynamicIndex(k) >= -1
         /\ indexMap[k].idxS \in -1..(Len(Static) - 1) /\ indexMap[k].idxD \in -1..indexSequence
<1>1. /\ indexMap[k].idxD \in -1..indexSequence /\ indexMap[k].idxS \in -1..(Len(Static) - 1)
      /\ indexSequence \in Nat
  BY DEF TypeOK
<1> QED
  BY <1>1 DEF DynamicIndex

LEMMA StaticLength == Len(Static) \in Nat /\ \A i \in 1..Len(Static) : Static[i] \in Header
<1>1. Static \in Seq(Header)
  BY HPackTypes
<1> QED
  BY <1>1

LEMMA SameHeader == ASSUME NEW a \in Header, NEW b \in Header,
                           a.name = b.name, a.value = b.value
                    PROVE  a = b
  BY DEF Header

LEMMA DynamicStartType == DynamicStart \in Nat /\ DynamicStart = Len(Static) + 1 /\ Len(Static) \in Nat
<1>1. Len(Static) \in Nat
  BY StaticLength
<1> QED
  BY <1>1 DEF DynamicStart

\* The two ranges of the indices.
LEMMA DynamicAt ==
  ASSUME NEW t, Len(t.entries) \in Nat, NEW d \in 0..(Len(t.entries) - 1)
  PROVE  /\ d + DynamicStart \in Nat /\ d + DynamicStart # 0 /\ HasIndex(t, d + DynamicStart)
         /\ At(t, d + DynamicStart) = t.entries[d + 1]
<1>1. DynamicStart \in Nat /\ DynamicStart > 0
  BY DynamicStartType
<1> DEFINE n == Len(t.entries)
<1>2. n \in Nat /\ d \in Nat /\ d < n
  OBVIOUS
<1> HIDE DEF n
<1>3. d + DynamicStart \in Nat /\ d + DynamicStart # 0
  BY <1>1, <1>2
<1>4. d + DynamicStart > 0 /\ d + DynamicStart < DynamicStart + n
  BY <1>1, <1>2
<1>5. ~(d + DynamicStart < DynamicStart) /\ (d + DynamicStart) - DynamicStart + 1 = d + 1
  BY <1>1, <1>2
<1>6. HasIndex(t, d + DynamicStart)
  BY <1>4, Zenon DEF HasIndex, n
<1>7. At(t, d + DynamicStart) = t.entries[d + 1]
  <2>1. At(t, d + DynamicStart) = t.entries[(d + DynamicStart) - DynamicStart + 1]
    BY <1>5 DEF At
  <2> QED
    BY <1>5, <2>1
<1> QED
  BY <1>3, <1>6, <1>7

LEMMA StaticAt ==
  ASSUME NEW t, Len(t.entries) \in Nat, NEW s \in 0..(Len(Static) - 1)
  PROVE  s + 1 \in Nat /\ s + 1 # 0 /\ HasIndex(t, s + 1) /\ At(t, s + 1) = Static[s + 1]
<1>1. DynamicStart = Len(Static) + 1 /\ Len(Static) \in Nat
  BY DynamicStartType
<1> DEFINE n == Len(t.entries)
           l == Len(Static)
<1>2. n \in Nat /\ s \in Nat /\ s < l /\ l \in Nat /\ DynamicStart = l + 1
  BY <1>1
<1> HIDE DEF n, l
<1>3. s + 1 \in Nat /\ s + 1 # 0 /\ s + 1 > 0 /\ s + 1 < DynamicStart /\ s + 1 < DynamicStart + n
  BY <1>2
<1>4. HasIndex(t, s + 1)
  BY <1>3, Zenon DEF HasIndex, n
<1>5. At(t, s + 1) = Static[s + 1]
  BY <1>3, Zenon DEF At
<1> QED
  BY <1>3, <1>4, <1>5

\* The text at an index is a header.
LEMMA AtType ==
  ASSUME NEW t \in Table, NEW i \in Nat, HasIndex(t, i) PROVE At(t, i) \in Header
<1> DEFINE n == Len(t.entries)
<1>1. n \in Nat /\ \A j \in 1..n : t.entries[j] \in Header
  <2>1. t.entries \in Seq(Header)
    BY DEF Table
  <2> QED
    BY <2>1
<1>2. i > 0 /\ i < DynamicStart + n
  BY Zenon DEF HasIndex, n
<1> HIDE DEF n
<1>3. CASE i < DynamicStart
  <2>1. i \in 1..Len(Static)
    BY <1>2, <1>3, DynamicStartType
  <2>2. At(t, i) = Static[i]
    BY <1>3, Zenon DEF At
  <2> QED
    BY <2>1, <2>2, StaticLength
<1>4. CASE ~(i < DynamicStart)
  <2>1. i - DynamicStart + 1 \in 1..n
    BY <1>1, <1>2, <1>4, DynamicStartType
  <2>2. At(t, i) = t.entries[i - DynamicStart + 1]
    BY <1>4, Zenon DEF At
  <2> QED
    BY <1>1, <2>1, <2>2
<1> QED
  BY <1>3, <1>4

\* What getIndex returns for a header.
IndexRight(g, h) ==
  /\ g.index \in Nat /\ g.valueIndexed \in BOOLEAN
  /\ g.index # 0 => HasIndex(enc, g.index) /\ At(enc, g.index).name = h.name
  /\ g.valueIndexed => g.index # 0 /\ At(enc, g.index) = h

LEMMA GetIndexRight ==
  ASSUME TypeOK, NEW h \in Headers PROVE IndexRight(GetIndex(h), h)
<1> DEFINE k == IF DynamicIndex(Key(h)) = -1 /\ indexMap[Key(h)].idxS = -1 THEN h.name ELSE Key(h)
           d == DynamicIndex(k)
           s == indexMap[k].idxS
<1>1. k \in Keys /\ h \in Header
  BY KeyInKeys
<1>2. d \in Int /\ d >= -1 /\ s \in -1..(Len(Static) - 1)
  <2> HIDE DEF k
  <2> QED
    BY <1>1, DynamicIndexType
<1>3. enc \in Table /\ Len(enc.entries) \in Nat
  <2>1. enc.entries \in Seq(Header)
    BY DEF TypeOK, Table
  <2> QED
    BY <2>1 DEF TypeOK
<1>4. CASE d # -1 /\ d < Len(enc.entries) /\ SameName(h, enc.entries[d + 1])
  <2> DEFINE g == [index |-> d + DynamicStart,
                   valueIndexed |-> enc.entries[d + 1].value = h.value]
  <2>1. GetIndex(h) = g
    BY <1>4 DEF GetIndex
  <2> HIDE DEF k, d, s
  <2>2. d \in 0..(Len(enc.entries) - 1)
    BY <1>2, <1>3, <1>4
  <2>3. /\ d + DynamicStart \in Nat /\ d + DynamicStart # 0 /\ HasIndex(enc, d + DynamicStart)
        /\ At(enc, d + DynamicStart) = enc.entries[d + 1]
    BY <1>3, <2>2, DynamicAt
  <2>5. At(enc, d + DynamicStart) \in Header /\ At(enc, d + DynamicStart).name = h.name
    BY <1>3, <1>4, <2>3, AtType DEF SameName
  <2>6. enc.entries[d + 1].value = h.value => At(enc, d + DynamicStart) = h
    BY <1>1, <2>3, <2>5, SameHeader
  <2>7. g.index = d + DynamicStart /\ g.valueIndexed = (enc.entries[d + 1].value = h.value)
    OBVIOUS
  <2> HIDE DEF g
  <2>8. IndexRight(g, h)
    BY <2>3, <2>5, <2>6, <2>7, Zenon DEF IndexRight
  <2> QED
    BY <2>1, <2>8, Zenon
<1>5. CASE /\ ~(d # -1 /\ d < Len(enc.entries) /\ SameName(h, enc.entries[d + 1]))
           /\ s # -1 /\ SameName(h, Static[s + 1])
  <2> DEFINE g == [index |-> s + 1, valueIndexed |-> Static[s + 1].value = h.value]
  <2>1. GetIndex(h) = g
    BY <1>5 DEF GetIndex
  <2> HIDE DEF k, d, s
  <2>2. s \in 0..(Len(Static) - 1)
    BY <1>2, <1>5
  <2>3. s + 1 \in Nat /\ s + 1 # 0 /\ HasIndex(enc, s + 1) /\ At(enc, s + 1) = Static[s + 1]
    BY <1>3, <2>2, StaticAt
  <2>4. At(enc, s + 1) \in Header /\ At(enc, s + 1).name = h.name
    BY <1>3, <1>5, <2>3, AtType DEF SameName
  <2>5. Static[s + 1].value = h.value => At(enc, s + 1) = h
    BY <1>1, <2>3, <2>4, SameHeader
  <2>6. g.index = s + 1 /\ g.valueIndexed = (Static[s + 1].value = h.value)
    OBVIOUS
  <2> HIDE DEF g
  <2>7. IndexRight(g, h)
    BY <2>3, <2>4, <2>5, <2>6, Zenon DEF IndexRight
  <2> QED
    BY <2>1, <2>7, Zenon
<1>6. CASE /\ ~(d # -1 /\ d < Len(enc.entries) /\ SameName(h, enc.entries[d + 1]))
           /\ ~(s # -1 /\ SameName(h, Static[s + 1]))
  <2>1. GetIndex(h) = [index |-> 0, valueIndexed |-> FALSE]
    BY <1>6 DEF GetIndex
  <2> QED
    BY <2>1 DEF IndexRight
<1> QED
  BY <1>4, <1>5, <1>6

-----------------------------------------------------------------------------
(* The map of the encoder.                                                 *)

\* The place of a key with the map m, as DynamicIndex with the sequence q.
Place(m, q, k) == IF m[k].idxD = -1 THEN -1 ELSE q - m[k].idxD

\* The map m with the sequence q is right of the key k in the entries e.
KeyExact(e, m, q, k) ==
  IF Place(m, q, k) = -1 THEN \A i \in 1..Len(e) : Key(e[i]) # k
  ELSE /\ Place(m, q, k) \in 0..(Len(e) - 1) /\ Key(e[Place(m, q, k) + 1]) = k
       /\ \A i \in 1..Place(m, q, k) : Key(e[i]) # k

LEMMA IndexExactIsKeyExact ==
  ASSUME enc.entries \in Seq(Header)
  PROVE  IndexExact <=> \A k \in Keys : KeyExact(enc.entries, indexMap, indexSequence, k)
<1>1. DOMAIN enc.entries = 1..Len(enc.entries)
  OBVIOUS
<1> QED
  BY <1>1 DEF IndexExact, KeyExact, Place, DynamicIndex

\* What eviction and the new entry do to the map.
LEMMA IndexStep ==
  ASSUME TypeOK, IndexExact, NEW h \in Headers, NEW n \in 0..Len(enc.entries),
         NEW e, NEW q, NEW k \in Keys,
         n = Len(MadeRoom(enc, h).entries),
         Fits(enc, h) => /\ e = <<h>> \o SubSeq(enc.entries, 1, n)
                         /\ q = indexSequence + 1,
         ~Fits(enc, h) => e = SubSeq(enc.entries, 1, n) /\ q = indexSequence
  PROVE  /\ IndexAfter(h)[k].idxD \in -1..q
         /\ IndexAfter(h)[k].idxS = indexMap[k].idxS
         /\ KeyExact(e, IndexAfter(h), q, k)
<1> DEFINE o == enc.entries
           m == IndexAfter(h)
           p == SubSeq(o, 1, n)
           x == IF Fits(enc, h) THEN 1 ELSE 0
           D == DynamicIndex(k)
<1>1. o \in Seq(Header) /\ Len(o) \in Nat /\ indexSequence \in Nat /\ DOMAIN o = 1..Len(o)
  <2>1. o \in Seq(Header)
    BY DEF TypeOK, Table
  <2> QED
    BY <2>1 DEF TypeOK
<1>2. /\ indexMap[k].idxD \in -1..indexSequence
      /\ indexMap[k] = [idxD |-> indexMap[k].idxD, idxS |-> indexMap[k].idxS]
  BY DEF TypeOK
<1>3. p \in Seq(Header) /\ Len(p) = n /\ \A i \in 1..n : p[i] = o[i]
  <2>1. n \in 0..Len(o)
    OBVIOUS
  <2> HIDE DEF o
  <2> QED
    BY <1>1, <2>1
<1>4. h \in Header
  BY KeyInKeys
<1>5. n \in Nat /\ n <= Len(o) /\ x \in {0, 1}
  BY <1>1
<1>11. Len(e) = n + x /\ q = indexSequence + x /\ (x = 1 => e[1] = h)
  <2>2. CASE Fits(enc, h)
    <3>1. e = <<h>> \o p /\ x = 1 /\ q = indexSequence + 1
      BY <2>2
    <3> HIDE DEF p, x, o
    <3>2. Len(e) = n + 1 /\ e[1] = h
      BY <1>3, <1>4, <1>5, <3>1
    <3> QED
      BY <3>1, <3>2
  <2>3. CASE ~Fits(enc, h)
    <3>1. e = p /\ x = 0 /\ q = indexSequence
      BY <2>3
    <3> HIDE DEF p, x, o
    <3> QED
      BY <1>1, <1>3, <1>5, <3>1
  <2> QED
    BY <2>2, <2>3
<1>12. ASSUME NEW i \in 1..Len(e), ~(x = 1 /\ i = 1)
       PROVE  i - x \in 1..n /\ e[i] = o[i - x]
  <2>1. i - x \in 1..n /\ i \in Nat
    <3> HIDE DEF x, o
    <3> QED
      BY <1>5, <1>11, <1>12
  <2>2. CASE Fits(enc, h)
    <3>1. e = <<h>> \o p /\ x = 1
      BY <2>2
    <3> HIDE DEF p, x, o
    <3>2. e[i] = p[i - 1]
      BY <1>3, <1>4, <1>5, <2>1, <3>1
    <3> QED
      BY <1>3, <2>1, <3>1, <3>2
  <2>3. CASE ~Fits(enc, h)
    <3>1. e = p /\ x = 0
      BY <2>3
    <3> HIDE DEF p, x, o
    <3> QED
      BY <1>3, <2>1, <3>1
  <2> QED
    BY <2>2, <2>3
<1>13. x = 1 <=> Fits(enc, h)
  OBVIOUS
\* A key that is in none of the first j entries of o is in none of the first j + x of e.
<1>14. ASSUME NEW j \in 0..n, \A i \in 1..j : Key(o[i]) # k, x = 1 => Key(h) # k
       PROVE  \A i \in 1..(j + x) : Key(e[i]) # k
  <2> SUFFICES ASSUME NEW i \in 1..(j + x) PROVE Key(e[i]) # k
    OBVIOUS
  <2> HIDE DEF x, o, p
  <2>1. i \in 1..Len(e) /\ (i - x \in 1..n => i - x \in 1..j)
    BY <1>5, <1>11, <1>14
  <2>2. CASE x = 1 /\ i = 1
    BY <1>11, <1>14, <2>2
  <2>3. CASE ~(x = 1 /\ i = 1)
    <3>1. i - x \in 1..n /\ e[i] = o[i - x]
      BY <1>12, <2>1, <2>3
    <3> QED
      BY <1>14, <2>1, <3>1
  <2> QED
    BY <2>2, <2>3
<1>6. IF D = -1 THEN \A i \in 1..Len(o) : Key(o[i]) # k
      ELSE D \in 0..(Len(o) - 1) /\ Key(o[D + 1]) = k /\ \A i \in 1..D : Key(o[i]) # k
  BY <1>1 DEF IndexExact
<1>7. D = IF indexMap[k].idxD = -1 THEN -1 ELSE indexSequence - indexMap[k].idxD
  BY DEF DynamicIndex
<1>8. CASE Fits(enc, h) /\ k = Key(h)
  <2>1. m[k] = [indexMap[k] EXCEPT !.idxD = indexSequence + 1]
    BY <1>8 DEF IndexAfter, UpdatedIndex
  <2>2. m[k].idxD = indexSequence + 1 /\ m[k].idxS = indexMap[k].idxS
    <3> HIDE DEF m
    <3> QED
      BY <1>2, <2>1
  <2> HIDE DEF m, o, p
  <2>3. q = indexSequence + 1 /\ Len(e) = n + 1 /\ e[1] = h /\ n \in Nat
    BY <1>5, <1>8, <1>11, <1>13
  <2>4. Place(m, q, k) = 0 /\ indexSequence + 1 \in -1..q
    BY <1>1, <2>2, <2>3 DEF Place
  <2>5. KeyExact(e, m, q, k)
    BY <1>8, <2>3, <2>4 DEF KeyExact
  <2> QED
    BY <2>2, <2>4, <2>5 DEF m
<1>9. CASE ~(Fits(enc, h) /\ k = Key(h)) /\ RemoveIndex(k, n)
  <2>1. m[k] = [indexMap[k] EXCEPT !.idxD = -1]
    BY <1>9 DEF IndexAfter
  <2>2. m[k].idxD = -1 /\ m[k].idxS = indexMap[k].idxS
    <3> HIDE DEF m
    <3> QED
      BY <1>2, <2>1
  <2>3. PICK j \in 1..Len(o) : j > n /\ D = j - 1
    BY <1>1, <1>9 DEF RemoveIndex
  <2> HIDE DEF m, o, p, D
  <2>4. \A i \in 1..n : Key(o[i]) # k
    <3>1. D \in Nat /\ D >= n /\ \A i \in 1..D : Key(o[i]) # k
      BY <1>1, <1>5, <1>6, <2>3
    <3>2. \A i \in 1..n : i \in 1..D
      BY <1>5, <3>1
    <3> QED
      BY <3>1, <3>2
  <2>5. \A i \in 1..Len(e) : Key(e[i]) # k
    <3>1. n \in 0..n /\ (x = 1 => Key(h) # k)
      BY <1>5, <1>9, <1>13
    <3> QED
      BY <1>11, <1>14, <2>4, <3>1
  <2>6. Place(m, q, k) = -1
    BY <2>2 DEF Place
  <2>7. -1 \in -1..q
    BY <1>1, <1>5, <1>11
  <2> QED
    BY <2>2, <2>5, <2>6, <2>7 DEF KeyExact, m
<1>10. CASE ~(Fits(enc, h) /\ k = Key(h)) /\ ~RemoveIndex(k, n)
  <2>1. m[k] = indexMap[k]
    BY <1>10 DEF IndexAfter
  <2>2. \A j \in 1..Len(o) : j > n /\ Key(o[j]) = k => D # j - 1
    BY <1>1, <1>10 DEF RemoveIndex
  <2> HIDE DEF m, o, p, D
  <2>3. indexMap[k].idxD \in -1..q
    BY <1>1, <1>2, <1>5, <1>11
  <2>8. x = 1 => Key(h) # k
    BY <1>10, <1>13
  <2>4. CASE D = -1
    <3>1. indexMap[k].idxD = -1
      BY <1>1, <1>2, <1>7, <2>4
    <3>2. Place(m, q, k) = -1
      BY <2>1, <3>1 DEF Place
    <3>3. \A i \in 1..Len(e) : Key(e[i]) # k
      <4>1. \A i \in 1..Len(o) : Key(o[i]) # k
        BY <1>6, <2>4
      <4>2. n \in 0..n /\ \A i \in 1..n : i \in 1..Len(o)
        BY <1>1, <1>5
      <4>3. \A i \in 1..n : Key(o[i]) # k
        BY <4>1, <4>2
      <4> QED
        BY <1>11, <1>14, <2>8, <4>2, <4>3
    <3> QED
      BY <2>1, <2>3, <3>2, <3>3 DEF KeyExact, m
  <2>5. CASE D # -1
    <3>1. /\ D \in 0..(Len(o) - 1) /\ Key(o[D + 1]) = k
          /\ indexMap[k].idxD # -1 /\ D = indexSequence - indexMap[k].idxD
      BY <1>6, <1>7, <2>5
    <3>2. D + 1 <= n /\ D \in Nat
      <4>1. D + 1 \in 1..Len(o) /\ D = (D + 1) - 1
        BY <1>1, <3>1, SMTT(60)
      <4>2. ~(D + 1 > n)
        BY <2>2, <3>1, <4>1
      <4> QED
        BY <1>5, <4>1, <4>2
    <3>3. Place(m, q, k) = D + x
      <4>1. Place(m, q, k) = q - indexMap[k].idxD
        BY <2>1, <3>1 DEF Place
      <4> QED
        BY <1>1, <1>2, <1>5, <1>11, <3>1, <4>1
    <3>4. D + x \in 0..(Len(e) - 1) /\ D + x # -1 /\ (D + x) + 1 \in 1..Len(e)
      <4>1. Len(e) = n + x
        BY <1>11
      <4> HIDE DEF x
      <4> QED
        BY <1>5, <3>2, <4>1
    <3>5. Key(e[(D + x) + 1]) = k
      <4>1. ~(x = 1 /\ (D + x) + 1 = 1) /\ ((D + x) + 1) - x = D + 1
        BY <1>5, <3>2
      <4>2. e[(D + x) + 1] = o[((D + x) + 1) - x]
        BY <1>12, <3>4, <4>1
      <4> QED
        BY <3>1, <4>1, <4>2
    <3>6. \A i \in 1..(D + x) : Key(e[i]) # k
      <4>1. D \in 0..n /\ \A i \in 1..D : Key(o[i]) # k
        <5>1. D \in 0..n
          BY <1>5, <3>2
        <5> QED
          BY <1>6, <2>5, <5>1
      <4> QED
        BY <1>14, <2>8, <4>1
    <3>7. KeyExact(e, m, q, k)
      BY <3>3, <3>4, <3>5, <3>6 DEF KeyExact
    <3> QED
      BY <2>1, <2>3, <3>7 DEF m
  <2> QED
    BY <2>4, <2>5
<1> QED
  BY <1>8, <1>9, <1>10

LEMMA AddHeaderEntries ==
  ASSUME NEW t, Sound(t), NEW h \in Header
  PROVE  /\ Len(MadeRoom(t, h).entries) \in 0..Len(t.entries)
         /\ MadeRoom(t, h).entries = SubSeq(t.entries, 1, Len(MadeRoom(t, h).entries))
         /\ Fits(t, h) => AddHeader(t, h).entries = <<h>> \o MadeRoom(t, h).entries
         /\ ~Fits(t, h) => AddHeader(t, h).entries = MadeRoom(t, h).entries
<1> DEFINE r == MadeRoom(t, h)
<1>1. Remainder(t, r)
  BY MadeRoomProperties
<1>2. ~Fits(t, h) => AddHeader(t, h) = r
  BY DEF AddHeader
<1>3. Fits(t, h) => AddHeader(t, h) = [r EXCEPT !.entries = <<h>> \o @, !.size = @ + Size(h)]
  BY DEF AddHeader
<1> HIDE DEF r
<1>4. r \in Table
  BY <1>1 DEF Remainder, Sized
<1>5. Fits(t, h) => AddHeader(t, h).entries = <<h>> \o r.entries
  BY <1>3, <1>4 DEF Table
<1>6. /\ Len(r.entries) \in 0..Len(t.entries)
      /\ r.entries = SubSeq(t.entries, 1, Len(r.entries))
  BY <1>1 DEF Remainder
<1> QED
  BY <1>2, <1>5, <1>6 DEF r

-----------------------------------------------------------------------------
(* The fields under way.                                                   *)

\* Two fields that differ in last or in the table mean the same.
Alike(f, g) == f.kind = g.kind /\ f.I = g.I /\ f.hdr = g.hdr

LEMMA AlikeFields ==
  ASSUME NEW f, NEW g, Alike(f, g), NEW t
  PROVE  /\ Resolves(t, f) <=> Resolves(t, g)
         /\ Decoded(t, f) = Decoded(t, g) /\ TableAfter(t, f) = TableAfter(t, g)
<1>1. f.kind = g.kind /\ f.I = g.I /\ f.hdr = g.hdr
  BY DEF Alike
<1>2. Decoded(t, f) = Decoded(t, g)
  BY <1>1 DEF Decoded
<1> QED
  BY <1>1, <1>2 DEF Resolves, TableAfter

LEMMA TableAfterSound ==
  ASSUME NEW t, Sound(t), NEW f \in FieldType, Resolves(t, f)
  PROVE  Sound(TableAfter(t, f))
<1>1. t \in Table /\ f.I \in Nat /\ f.hdr \in Header
  BY DEF Sound, Sized, FieldType
<1>2. CASE f.kind = "sizeUpdate"
  BY <1>1, <1>2, UpdateLimitSizeSound DEF TableAfter
<1>3. CASE f.kind = "indexing"
  <2>1. HasIndex(t, f.I) \/ f.I = 0
    BY <1>3 DEF Resolves
  <2>2. f.hdr.name \in Text /\ f.hdr.value \in Text
    BY <1>1 DEF Header
  <2>3. HasIndex(t, f.I) => At(t, f.I).name \in Text
    <3>1. HasIndex(t, f.I) => At(t, f.I) \in Header
      BY <1>1, AtType
    <3> QED
      BY <3>1 DEF Header
  <2>4. Decoded(t, f) \in Header
    BY <1>3, <2>1, <2>2, <2>3 DEF Decoded, Header
  <2>5. TableAfter(t, f) = AddHeader(t, Decoded(t, f))
    BY <1>3 DEF TableAfter
  <2> QED
    BY <2>4, <2>5, AddHeaderSound
<1>4. CASE f.kind # "sizeUpdate" /\ f.kind # "indexing"
  BY <1>4 DEF TableAfter
<1> QED
  BY <1>2, <1>3, <1>4

\* A field put on the wire.
LEMMA AppendStep ==
  ASSUME Inv, NEW f \in FieldType, f.table = enc, FieldRight(f),
         wire' = Append(wire, f), pending' = pending + 1, dec' = dec, lost' = lost,
         enc' = After(f)
  PROVE  wire' \in Seq(FieldType) /\ pending' \in 0..Len(wire') /\ FieldsRight' /\ Chain'
<1> DEFINE L == Len(wire)
<1>1. wire \in Seq(FieldType) /\ L \in Nat /\ pending \in 0..L
  <2>1. wire \in Seq(FieldType) /\ pending \in 0..Len(wire)
    BY DEF Inv, TypeOK
  <2> QED
    BY <2>1
<1>2. /\ wire' \in Seq(FieldType) /\ Len(wire') = L + 1 /\ wire'[L + 1] = f
      /\ \A i \in 1..L : wire'[i] = wire[i]
  BY <1>1
<1>3. wire' # <<>> /\ (wire = <<>> <=> L = 0)
  BY <1>1, <1>2
<1> HIDE DEF L
<1>4. pending' \in 0..Len(wire')
  BY <1>1, <1>2
<1>5. FieldsRight'
  <2> SUFFICES ASSUME NEW i \in 1..(L + 1) PROVE FieldRight(wire'[i])
    BY <1>2 DEF FieldsRight, FieldRight, Resolves, Decoded, HasIndex, At
  <2>1. CASE i = L + 1
    BY <1>2, <2>1
  <2>2. CASE i # L + 1
    <3>1. i \in 1..L
      BY <1>1, <2>2
    <3> QED
      BY <1>2, <3>1 DEF Inv, FieldsRight, L
  <2> QED
    BY <2>1, <2>2
<1>6. Chain'
  <2> SUFFICES ASSUME ~lost
               PROVE  /\ wire'[1].table = dec /\ After(wire'[L + 1]) = enc'
                      /\ \A i \in 1..(L + 1) : i < L + 1 =>
                           wire'[i + 1].table = After(wire'[i])
    BY <1>2, <1>3 DEF Chain, After
  <2>1. /\ wire = <<>> => dec = enc
        /\ wire # <<>> => wire[1].table = dec /\ After(wire[L]) = enc
        /\ \A i \in 1..L : i < L => wire[i + 1].table = After(wire[i])
    BY DEF Inv, Chain, L
  <2>2. wire'[1].table = dec
    <3>1. CASE L = 0
      BY <1>2, <1>3, <2>1, <3>1
    <3>2. CASE L # 0
      <4>1. 1 \in 1..L
        BY <1>1, <3>2
      <4> QED
        BY <1>2, <1>3, <2>1, <3>2, <4>1
    <3> QED
      BY <3>1, <3>2
  <2>3. After(wire'[L + 1]) = enc'
    BY <1>2
  <2>4. ASSUME NEW i \in 1..(L + 1), i < L + 1 PROVE wire'[i + 1].table = After(wire'[i])
    <3>1. i \in 1..L /\ wire'[i] = wire[i]
      BY <1>1, <1>2, <2>4
    <3>2. CASE i = L
      <4>1. wire # <<>>
        BY <1>1, <1>3, <3>1
      <4> QED
        BY <1>2, <2>1, <3>1, <3>2, <4>1
    <3>3. CASE i # L
      <4>1. i < L /\ i + 1 \in 1..L
        BY <1>1, <3>1, <3>3
      <4> QED
        BY <1>2, <2>1, <3>1, <4>1
    <3> QED
      BY <3>2, <3>3
  <2> QED
    BY <2>2, <2>3, <2>4
<1> QED
  BY <1>2, <1>4, <1>5, <1>6

-----------------------------------------------------------------------------
(* Every step keeps the invariant.                                         *)

LEMMA NoHeaderType == NoHeader \in Header
  BY DEF NoHeader, Header, Text

LEMMA FieldTyped ==
  ASSUME Inv, NEW kind \in {"sizeUpdate", "indexed", "indexing", "plain"}, NEW I \in Nat,
         NEW h \in Header
  PROVE  /\ Field(kind, I, h) \in FieldType /\ Field(kind, I, h).table = enc
         /\ Field(kind, I, h).kind = kind /\ Field(kind, I, h).I = I
         /\ Field(kind, I, h).hdr = h
<1>1. enc \in Table
  BY DEF Inv, Sound, Sized
<1> QED
  BY <1>1 DEF Field, FieldType

LEMMA InitInv == Init => Inv
<1> SUFFICES ASSUME Init PROVE Inv
  OBVIOUS
<1>1. SizeAfter(<<>>, 0) = 0
  <2>1. <<>> \in Seq(Header) /\ Len(<<>>) = 0 /\ 0 \in 0..0
    OBVIOUS
  <2> QED
    BY <2>1, SizeAfterEquation
<1>2. Empty \in Table /\ Sound(Empty) /\ Empty.entries = <<>>
  <2>1. TableSize \in Nat
    BY HPackTypes
  <2>2. Empty \in Table /\ Empty.entries = <<>> /\ Empty.size = 0 /\ Empty.limit = TableSize
    BY <2>1 DEF Empty, Table
  <2> QED
    BY <1>1, <2>1, <2>2 DEF Sound, Sized
<1>3. \A k \in Keys : StaticIndex(k) \in -1..(Len(Static) - 1)
  <2> SUFFICES ASSUME NEW k \in Keys PROVE StaticIndex(k) \in -1..(Len(Static) - 1)
    OBVIOUS
  <2> DEFINE S == {i \in 1..Len(Static) : Key(Static[i]) = k}
  <2>1. DOMAIN Static = 1..Len(Static) /\ Len(Static) \in Nat
    BY HPackTypes
  <2>2. CASE S = {}
    BY <2>1, <2>2 DEF StaticIndex
  <2>3. CASE S # {}
    <3>1. \E i \in DOMAIN Static : Key(Static[i]) = k
              /\ \A j \in DOMAIN Static : Key(Static[j]) = k => i <= j
      <4>1. S \in SUBSET Nat
        BY <2>1
      <4>2. PICK m \in S : \A j \in S : ~(j < m)
        <5> HIDE DEF S
        <5> QED
          BY <2>3, <4>1, LeastNatural
      <4>3. \A j \in S : m <= j
        BY <2>1, <4>2
      <4> QED
        BY <2>1, <4>3
    <3> DEFINE i == CHOOSE i \in DOMAIN Static : Key(Static[i]) = k
              /\ \A j \in DOMAIN Static : Key(Static[j]) = k => i <= j
    <3>2. i \in 1..Len(Static)
      BY <2>1, <3>1
    <3>3. StaticIndex(k) = i - 1
      BY <3>1 DEF StaticIndex
    <3> HIDE DEF i
    <3> QED
      BY <2>1, <3>2, <3>3
  <2> QED
    BY <2>2, <2>3
<1>4. TypeOK
  <2>1. indexMap \in [Keys -> [idxD : -1..indexSequence, idxS : -1..(Len(Static) - 1)]]
    <3>1. indexSequence = 0 /\ -1 \in -1..0
      BY DEF Init
    <3>2. indexMap = [k \in Keys |-> [idxD |-> -1, idxS |-> StaticIndex(k)]]
      BY DEF Init
    <3> QED
      BY <1>3, <3>1, <3>2
  <2>2. wire \in Seq(FieldType) /\ pending \in 0..Len(wire)
    BY DEF Init
  <2> QED
    BY <1>2, <2>1, <2>2 DEF TypeOK, Init
<1>5. IndexExact
  BY <1>2 DEF Init, IndexExact, DynamicIndex
<1>6. FieldsRight /\ Chain
  BY DEF Init, FieldsRight, Chain
<1> QED
  BY <1>2, <1>4, <1>5, <1>6 DEF Inv, Init

LEMMA SizeUpdateStep == Inv /\ EncodeSizeUpdate => Inv'
<1> SUFFICES ASSUME Inv, EncodeSizeUpdate PROVE Inv'
  OBVIOUS
<1> DEFINE f == Field("sizeUpdate", enc.limit, NoHeader)
<1>1. Sound(enc) /\ enc.limit \in Nat
  BY DEF Inv, Sound, Sized, Table
<1>2. f \in FieldType /\ f.table = enc /\ f.kind = "sizeUpdate" /\ f.I = enc.limit
  BY <1>1, FieldTyped, NoHeaderType
<1>3. /\ wire' = Append(wire, f) /\ pending' = pending + 1 /\ dec' = dec /\ lost' = lost
      /\ enc' = enc
  BY DEF EncodeSizeUpdate
<1> HIDE DEF f
<1>4. FieldRight(f)
  BY <1>2 DEF FieldRight
<1>5. enc' = After(f)
  <2>1. After(f) = UpdateLimitSize(enc, enc.limit)
    BY <1>2 DEF After, TableAfter
  <2> QED
    BY <1>1, <1>3, <2>1, UpdateLimitSizeSound
<1>6. wire' \in Seq(FieldType) /\ pending' \in 0..Len(wire') /\ FieldsRight' /\ Chain'
  BY <1>2, <1>3, <1>4, <1>5, AppendStep
<1>7. UNCHANGED <<enc, dec, indexSequence, indexMap, skipping, inBlock, failed, lost>>
      /\ updateTableSize' = FALSE
  BY DEF EncodeSizeUpdate
<1>8. TypeOK' /\ Sound(enc)' /\ Sound(dec)'
  BY <1>6, <1>7 DEF Inv, TypeOK, Sound, Sized
<1>9. IndexExact'
  BY <1>7 DEF Inv, IndexExact, DynamicIndex
<1> QED
  BY <1>6, <1>8, <1>9 DEF Inv

LEMMA IndexedStep ==
  ASSUME Inv, NEW h \in Headers, EncodeHeader(h), EncodeIndexed(h) PROVE Inv'
<1> DEFINE g == GetIndex(h)
           f == Field("indexed", g.index, h)
<1>1. IndexRight(g, h) /\ h \in Header
  BY GetIndexRight, KeyInKeys DEF Inv
<1>2. g.valueIndexed
  BY DEF EncodeIndexed
<1> HIDE DEF g
<1>3. g.index \in Nat /\ HasIndex(enc, g.index) /\ At(enc, g.index) = h
  BY <1>1, <1>2 DEF IndexRight
<1>4. f \in FieldType /\ f.table = enc /\ f.kind = "indexed" /\ f.I = g.index /\ f.hdr = h
  BY <1>1, <1>3, FieldTyped
<1>5. /\ wire' = Append(wire, f) /\ pending' = pending + 1 /\ dec' = dec /\ lost' = lost
      /\ enc' = enc
  BY DEF EncodeIndexed, EncodeHeader, g
<1> HIDE DEF f
<1>6. FieldRight(f)
  BY <1>3, <1>4 DEF FieldRight, Resolves, Decoded
<1>7. enc' = After(f)
  BY <1>4, <1>5 DEF After, TableAfter
<1>8. wire' \in Seq(FieldType) /\ pending' \in 0..Len(wire') /\ FieldsRight' /\ Chain'
  BY <1>4, <1>5, <1>6, <1>7, AppendStep
<1>9. UNCHANGED <<enc, dec, indexSequence, indexMap, updateTableSize, skipping, inBlock,
                  failed, lost>>
  BY DEF EncodeHeader, EncodeIndexed
<1>10. TypeOK' /\ Sound(enc)' /\ Sound(dec)'
  BY <1>8, <1>9 DEF Inv, TypeOK, Sound, Sized
<1>11. IndexExact'
  BY <1>9 DEF Inv, IndexExact, DynamicIndex
<1> QED
  BY <1>8, <1>10, <1>11 DEF Inv

LEMMA LiteralStep ==
  ASSUME Inv, NEW h \in Headers, EncodeHeader(h), EncodeLiteral(h) PROVE Inv'
<1> DEFINE g == GetIndex(h)
           kind == IF h.name \in Indexing THEN "indexing" ELSE "plain"
           f == Field(kind, g.index, h)
<1>1. IndexRight(g, h) /\ h \in Header /\ Sound(enc) /\ TypeOK /\ IndexExact
  BY GetIndexRight, KeyInKeys DEF Inv
<1> HIDE DEF g
<1>2. g.index \in Nat /\ (g.index # 0 => HasIndex(enc, g.index) /\ At(enc, g.index).name = h.name)
  BY <1>1 DEF IndexRight
<1>3. kind \in {"indexing", "plain"} /\ (kind = "indexing" <=> h.name \in Indexing)
  OBVIOUS
<1>4. /\ f \in FieldType /\ f.table = enc /\ f.kind = kind /\ f.I = g.index /\ f.hdr = h
  <2> HIDE DEF kind
  <2> QED
    BY <1>1, <1>2, <1>3, FieldTyped
<1>5. /\ wire' = Append(wire, f) /\ pending' = pending + 1
      /\ UNCHANGED <<updateTableSize, dec, skipping, inBlock, failed, lost>>
  BY DEF EncodeLiteral, EncodeHeader, g
<1> HIDE DEF f
<1>6. Resolves(enc, f) /\ Decoded(enc, f) = h
  <2>1. f.kind # "sizeUpdate" /\ f.kind # "indexed"
    BY <1>3, <1>4
  <2>2. Decoded(enc, f) = [name |-> h.name, value |-> h.value]
    BY <1>2, <1>4, <2>1 DEF Decoded
  <2>3. h = [name |-> h.name, value |-> h.value]
    BY <1>1 DEF Header
  <2> QED
    BY <1>2, <1>4, <2>1, <2>2, <2>3 DEF Resolves
<1>7. FieldRight(f)
  BY <1>4, <1>6 DEF FieldRight
<1>8. CASE h.name \in Indexing
  <2> DEFINE n == Len(MadeRoom(enc, h).entries)
             e == AddHeader(enc, h).entries
             q == IF Fits(enc, h) THEN indexSequence + 1 ELSE indexSequence
             m == IndexAfter(h)
  <2>1. enc' = AddHeader(enc, h) /\ indexSequence' = q /\ indexMap' = m
    BY <1>8 DEF EncodeLiteral, AddToTable
  <2>2. enc' = After(f)
    <3>1. After(f) = AddHeader(enc, h)
      BY <1>3, <1>4, <1>6, <1>8 DEF After, TableAfter
    <3> QED
      BY <2>1, <3>1
  <2>3. wire' \in Seq(FieldType) /\ pending' \in 0..Len(wire') /\ FieldsRight' /\ Chain'
    BY <1>4, <1>5, <1>7, <2>2, AppendStep
  <2>4. Sound(AddHeader(enc, h))
    BY <1>1, AddHeaderSound
  <2>5. /\ n \in 0..Len(enc.entries)
        /\ Fits(enc, h) => e = <<h>> \o SubSeq(enc.entries, 1, n)
        /\ ~Fits(enc, h) => e = SubSeq(enc.entries, 1, n)
    BY <1>1, AddHeaderEntries, Zenon
  <2>6. Fits(enc, h) => q = indexSequence + 1
    OBVIOUS
  <2>7. ~Fits(enc, h) => q = indexSequence
    OBVIOUS
  <2>8. q \in Nat
    BY <1>1 DEF TypeOK
  <2>9. ASSUME NEW k \in Keys
        PROVE  m[k].idxD \in -1..q /\ m[k].idxS = indexMap[k].idxS /\ KeyExact(e, m, q, k)
    <3> HIDE DEF e, q
    <3>1. n = Len(MadeRoom(enc, h).entries)
      OBVIOUS
    <3> HIDE DEF n
    <3> QED
      BY <1>1, <2>5, <2>6, <2>7, <3>1, IndexStep
  <2>10. m \in [Keys -> [idxD : -1..q, idxS : -1..(Len(Static) - 1)]]
    <3>1. m = [k \in Keys |-> m[k]]
      BY DEF IndexAfter
    <3>2. ASSUME NEW k \in Keys PROVE m[k] \in [idxD : -1..q, idxS : -1..(Len(Static) - 1)]
      <4>1. indexMap[k] \in [idxD : -1..indexSequence, idxS : -1..(Len(Static) - 1)]
        BY <1>1 DEF TypeOK
      <4>2. \/ m[k] = [indexMap[k] EXCEPT !.idxD = UpdatedIndex(indexSequence + 1)]
            \/ m[k] = [indexMap[k] EXCEPT !.idxD = -1]
            \/ m[k] = indexMap[k]
        BY DEF IndexAfter
      <4>3. m[k] = [idxD |-> m[k].idxD, idxS |-> m[k].idxS]
        <5> HIDE DEF m
        <5> QED
          BY <4>1, <4>2
      <4>4. m[k].idxD \in -1..q /\ m[k].idxS \in -1..(Len(Static) - 1)
        <5> HIDE DEF m, q
        <5> QED
          BY <2>9, <4>1
      <4> HIDE DEF m, q
      <4> QED
        BY <4>3, <4>4
    <3> HIDE DEF m, q
    <3> QED
      BY <3>1, <3>2
  <2>11. TypeOK' /\ Sound(enc)' /\ Sound(dec)'
    <3> HIDE DEF q, m
    <3>1. Sound(enc') /\ enc' \in Table
      BY <2>1, <2>4 DEF Sound, Sized
    <3>2. indexMap' \in [Keys -> [idxD : -1..indexSequence', idxS : -1..(Len(Static) - 1)]]
      BY <2>1, <2>10
    <3> QED
      BY <1>5, <2>1, <2>3, <2>8, <3>1, <3>2 DEF Inv, TypeOK, Sound, Sized
  <2>12. IndexExact'
    <3>1. enc'.entries = e /\ enc'.entries \in Seq(Header)
      BY <2>1, <2>4 DEF Sound, Sized, Table
    <3>2. \A k \in Keys : KeyExact(enc'.entries, indexMap', indexSequence', k)
      <4> HIDE DEF e, q, m
      <4> QED
        BY <2>1, <2>9, <3>1
    <3>3. DOMAIN enc'.entries = 1..Len(enc'.entries)
      BY <3>1
    <3> HIDE DEF e, q, m
    <3> QED
      BY <3>2, <3>3 DEF IndexExact, KeyExact, Place, DynamicIndex
  <2> QED
    BY <2>3, <2>11, <2>12 DEF Inv
<1>9. CASE h.name \notin Indexing
  <2>1. UNCHANGED <<enc, indexSequence, indexMap>>
    BY <1>9 DEF EncodeLiteral, AddToTable
  <2>2. enc' = After(f)
    BY <1>3, <1>4, <1>9, <2>1 DEF After, TableAfter
  <2>3. wire' \in Seq(FieldType) /\ pending' \in 0..Len(wire') /\ FieldsRight' /\ Chain'
    BY <1>4, <1>5, <1>7, <2>2, AppendStep
  <2>4. TypeOK' /\ Sound(enc)' /\ Sound(dec)'
    BY <1>5, <2>1, <2>3 DEF Inv, TypeOK, Sound, Sized
  <2>5. IndexExact'
    BY <2>1 DEF Inv, IndexExact, DynamicIndex
  <2> QED
    BY <2>3, <2>4, <2>5 DEF Inv
<1> QED
  BY <1>8, <1>9

LEMMA WireType == Inv => /\ wire \in Seq(FieldType) /\ Len(wire) \in Nat
                         /\ pending \in 0..Len(wire) /\ (wire = <<>> <=> Len(wire) = 0)
<1> SUFFICES ASSUME Inv PROVE /\ wire \in Seq(FieldType) /\ Len(wire) \in Nat
                              /\ pending \in 0..Len(wire) /\ (wire = <<>> <=> Len(wire) = 0)
  OBVIOUS
<1>1. wire \in Seq(FieldType) /\ pending \in 0..Len(wire)
  BY DEF Inv, TypeOK
<1> QED
  BY <1>1

LEMMA SendBlockStep == Inv /\ SendBlock => Inv'
<1> SUFFICES ASSUME Inv, SendBlock PROVE Inv'
  OBVIOUS
<1> DEFINE L == Len(wire)
           g == [wire[L] EXCEPT !.last = TRUE]
<1>1. /\ wire \in Seq(FieldType) /\ L \in Nat /\ pending \in 0..L /\ pending > 0
  BY WireType DEF SendBlock
<1>2. L \in 1..L /\ wire[L] \in FieldType
  BY <1>1
<1>3. g \in FieldType /\ Alike(g, wire[L]) /\ g.table = wire[L].table
  BY <1>2 DEF FieldType, Alike
<1>4. wire' = [wire EXCEPT ![L] = g] /\ pending' = 0
  BY <1>2 DEF SendBlock
<1> HIDE DEF g
<1>5. wire' \in Seq(FieldType) /\ Len(wire') = L
      /\ \A i \in 1..L : wire'[i] = IF i = L THEN g ELSE wire[i]
  BY <1>1, <1>2, <1>3, <1>4, ExceptSeq
<1>6. ASSUME NEW i \in 1..L
      PROVE  Alike(wire'[i], wire[i]) /\ wire'[i].table = wire[i].table
  BY <1>3, <1>5 DEF Alike
<1>7. \A i \in 1..L : After(wire'[i]) = After(wire[i]) /\ (FieldRight(wire[i]) => FieldRight(wire'[i]))
  <2> SUFFICES ASSUME NEW i \in 1..L
               PROVE  /\ After(wire'[i]) = After(wire[i])
                      /\ (FieldRight(wire[i]) => FieldRight(wire'[i]))
    OBVIOUS
  <2> DEFINE t == wire[i].table
  <2>1. Alike(wire'[i], wire[i]) /\ wire'[i].table = t
    BY <1>6
  <2> HIDE DEF t
  <2>2. /\ Resolves(t, wire'[i]) <=> Resolves(t, wire[i])
        /\ Decoded(t, wire'[i]) = Decoded(t, wire[i])
        /\ TableAfter(t, wire'[i]) = TableAfter(t, wire[i])
    BY <2>1, AlikeFields
  <2>3. t = wire[i].table
    BY DEF t
  <2> QED
    BY <2>1, <2>2, <2>3, Zenon DEF After, FieldRight, Alike
<1>8. UNCHANGED <<enc, dec, indexSequence, indexMap, updateTableSize, skipping, inBlock,
                  failed, lost>>
  BY DEF SendBlock
<1>9. FieldsRight'
  <2>1. \A i \in 1..L : FieldRight(wire[i])
    BY DEF Inv, FieldsRight
  <2>2. \A i \in 1..Len(wire') : FieldRight(wire'[i])
    BY <1>5, <1>7, <2>1
  <2> QED
    BY <2>2 DEF FieldsRight, FieldRight, Resolves, Decoded, HasIndex, At
<1>10. Chain'
  <2> SUFFICES ASSUME ~lost
               PROVE  /\ wire'[1].table = dec /\ After(wire'[L]) = enc
                      /\ \A i \in 1..L : i < L => wire'[i + 1].table = After(wire'[i])
    BY <1>1, <1>5, <1>8 DEF Chain, After
  <2>1. /\ wire[1].table = dec /\ After(wire[L]) = enc
        /\ \A i \in 1..L : i < L => wire[i + 1].table = After(wire[i])
    BY <1>1 DEF Inv, Chain
  <2>2. 1 \in 1..L /\ \A i \in 1..L : i < L => i + 1 \in 1..L
    BY <1>1
  <2> HIDE DEF L
  <2> QED
    BY <1>2, <1>6, <1>7, <2>1, <2>2
<1>11. pending' \in 0..Len(wire')
  BY <1>1, <1>4, <1>5
<1>12. TypeOK' /\ Sound(enc)' /\ Sound(dec)'
  BY <1>5, <1>8, <1>11 DEF Inv, TypeOK, Sound, Sized
<1>13. IndexExact'
  BY <1>8 DEF Inv, IndexExact, DynamicIndex
<1> QED
  BY <1>9, <1>10, <1>12, <1>13 DEF Inv

\* A field taken off the wire.
LEMMA TailStep ==
  ASSUME Inv, Arrived, wire' = Tail(wire), UNCHANGED pending
  PROVE  wire' \in Seq(FieldType) /\ pending' \in 0..Len(wire') /\ FieldsRight'
         /\ Len(wire') = Len(wire) - 1 /\ \A i \in 1..Len(wire') : wire'[i] = wire[i + 1]
<1>1. wire \in Seq(FieldType) /\ Len(wire) \in Nat /\ pending \in 0..Len(wire)
      /\ Len(wire) > pending /\ wire # <<>>
  BY WireType DEF Arrived
<1>2. /\ wire' \in Seq(FieldType) /\ Len(wire') = Len(wire) - 1
      /\ \A i \in 1..Len(wire') : wire'[i] = wire[i + 1]
  BY <1>1, HeadTailProperties
<1>3. pending' \in 0..Len(wire')
  BY <1>1, <1>2
<1>4. \A i \in 1..Len(wire') : FieldRight(wire'[i])
  <2> SUFFICES ASSUME NEW i \in 1..Len(wire') PROVE FieldRight(wire'[i])
    OBVIOUS
  <2>1. i + 1 \in 1..Len(wire)
    BY <1>1, <1>2
  <2> QED
    BY <1>2, <2>1 DEF Inv, FieldsRight
<1> QED
  BY <1>2, <1>3, <1>4 DEF FieldsRight, FieldRight, Resolves, Decoded, HasIndex, At

LEMMA LostStep ==
  ASSUME Inv, lost' = TRUE, wire' \in Seq(FieldType), pending' \in 0..Len(wire'), FieldsRight',
         UNCHANGED <<enc, dec, indexSequence, indexMap, updateTableSize, failed>>,
         skipping' \in BOOLEAN, inBlock' = inBlock
  PROVE  Inv'
<1>1. TypeOK' /\ Sound(enc)' /\ Sound(dec)'
  BY DEF Inv, TypeOK, Sound, Sized
<1>2. IndexExact'
  BY DEF Inv, IndexExact, DynamicIndex
<1>3. Chain'
  BY DEF Chain
<1> QED
  BY <1>1, <1>2, <1>3 DEF Inv

LEMMA EncodeFailsStep == Inv /\ EncodeFails => Inv'
<1> SUFFICES ASSUME Inv, EncodeFails PROVE Inv'
  OBVIOUS
<1> DEFINE n == Len(wire) - pending
<1>1. wire \in Seq(FieldType) /\ Len(wire) \in Nat /\ n \in 0..Len(wire)
  BY WireType
<1>2. wire' = SubSeq(wire, 1, n) /\ pending' = 0
  BY DEF EncodeFails
<1> HIDE DEF n
<1>3. wire' \in Seq(FieldType) /\ Len(wire') = n /\ \A i \in 1..n : wire'[i] = wire[i]
  BY <1>1, <1>2
<1>4. \A i \in 1..Len(wire') : FieldRight(wire'[i])
  <2>1. \A i \in 1..n : i \in 1..Len(wire)
    BY <1>1
  <2> QED
    BY <1>3, <2>1 DEF Inv, FieldsRight
<1>5. FieldsRight'
  BY <1>4 DEF FieldsRight, FieldRight, Resolves, Decoded, HasIndex, At
<1>6. pending' \in 0..Len(wire') /\ skipping' \in BOOLEAN
  BY <1>1, <1>2, <1>3 DEF EncodeFails, Inv, TypeOK
<1> QED
  BY <1>3, <1>5, <1>6, LostStep DEF EncodeFails

LEMMA DropFieldStep == Inv /\ DropField => Inv'
<1> SUFFICES ASSUME Inv, DropField PROVE Inv'
  OBVIOUS
<1>1. Arrived /\ wire' = Tail(wire) /\ UNCHANGED pending
  BY DEF DropField
<1>2. wire' \in Seq(FieldType) /\ pending' \in 0..Len(wire') /\ FieldsRight'
  BY <1>1, TailStep
<1>3. skipping' \in BOOLEAN
  BY DEF DropField
<1> QED
  BY <1>2, <1>3, LostStep DEF DropField

LEMMA DecodeFieldStep == Inv /\ DecodeField => Inv'
<1> SUFFICES ASSUME Inv, DecodeField PROVE Inv'
  OBVIOUS
<1> DEFINE f == Head(wire)
<1>1. UNCHANGED <<enc, indexSequence, indexMap, updateTableSize, pending, skipping, lost>>
      /\ Arrived
  BY DEF DecodeField
<1>2. wire \in Seq(FieldType) /\ Len(wire) \in Nat /\ wire # <<>> /\ Len(wire) > 0
  BY <1>1, WireType DEF Arrived
<1>3. f \in FieldType /\ f = wire[1]
  BY <1>2
<1>4. IndexExact'
  BY <1>1 DEF Inv, IndexExact, DynamicIndex
<1>5. CASE ~Resolves(dec, f) \/ (f.kind = "sizeUpdate" /\ f.I > TableSize)
  <2>1. failed' = TRUE /\ UNCHANGED <<dec, wire, inBlock>>
    BY <1>5 DEF DecodeField
  <2>2. TypeOK' /\ Sound(enc)' /\ Sound(dec)'
    BY <1>1, <2>1 DEF Inv, TypeOK, Sound, Sized
  <2>3. FieldsRight' /\ Chain'
    BY <1>1, <2>1 DEF Inv, FieldsRight, FieldRight, Resolves, Decoded, HasIndex, At, Chain, After
  <2> QED
    BY <1>4, <2>2, <2>3 DEF Inv
<1>6. CASE Resolves(dec, f) /\ ~(f.kind = "sizeUpdate" /\ f.I > TableSize)
  <2>1. /\ dec' = TableAfter(dec, f) /\ wire' = Tail(wire)
        /\ inBlock' = ~f.last /\ failed' = FALSE
    BY <1>6 DEF DecodeField
  <2>2. Sound(dec')
    <3>1. Sound(dec)
      BY DEF Inv
    <3> HIDE DEF f
    <3> QED
      BY <1>3, <1>6, <2>1, <3>1, TableAfterSound
  <2>3. /\ wire' \in Seq(FieldType) /\ pending' \in 0..Len(wire') /\ FieldsRight'
        /\ Len(wire') = Len(wire) - 1 /\ \A i \in 1..Len(wire') : wire'[i] = wire[i + 1]
    BY <1>1, <2>1, TailStep
  <2>4. TypeOK' /\ Sound(enc)' /\ Sound(dec)'
    <3>1. dec' \in Table /\ inBlock' \in BOOLEAN
      BY <2>1, <2>2 DEF Sound, Sized
    <3> QED
      BY <1>1, <2>1, <2>2, <2>3, <3>1 DEF Inv, TypeOK, Sound, Sized
  <2>5. Chain'
    <3> SUFFICES ASSUME ~lost
                 PROVE  /\ wire' = <<>> => dec' = enc
                        /\ wire' # <<>> => wire'[1].table = dec' /\ After(wire'[Len(wire')]) = enc
                        /\ \A i \in 1..Len(wire') : i < Len(wire') =>
                             wire'[i + 1].table = After(wire'[i])
      BY <1>1 DEF Chain, After
    <3> DEFINE L == Len(wire)
    <3>1. /\ wire[1].table = dec /\ After(wire[L]) = enc
          /\ \A i \in 1..L : i < L => wire[i + 1].table = After(wire[i])
      BY <1>2 DEF Inv, Chain
    <3>2. dec' = After(wire[1])
      BY <1>3, <2>1, <3>1 DEF After
    <3>3. Len(wire') = L - 1 /\ L \in Nat /\ L > 0 /\ (wire' = <<>> <=> L = 1)
      BY <1>2, <2>3
    <3> HIDE DEF L
    <3>4. wire' = <<>> => dec' = enc
      BY <3>1, <3>2, <3>3
    <3>5. ASSUME wire' # <<>> PROVE wire'[1].table = dec' /\ After(wire'[Len(wire')]) = enc
      <4>1. 1 \in 1..L /\ 1 < L /\ 1 \in 1..Len(wire') /\ L - 1 \in 1..Len(wire') /\ (L - 1) + 1 = L
        BY <3>3, <3>5
      <4>2. wire'[1] = wire[1 + 1] /\ wire'[L - 1] = wire[L]
        BY <2>3, <4>1
      <4>3. wire[1 + 1].table = After(wire[1])
        BY <3>1, <4>1
      <4> QED
        BY <3>1, <3>2, <3>3, <4>2, <4>3
    <3>6. ASSUME NEW i \in 1..Len(wire'), i < Len(wire')
          PROVE  wire'[i + 1].table = After(wire'[i])
      <4>1. i + 1 \in 1..Len(wire') /\ i + 1 \in 1..L /\ i + 1 < L
        BY <3>3, <3>6
      <4>2. wire'[i] = wire[i + 1] /\ wire'[i + 1] = wire[(i + 1) + 1]
        BY <2>3, <4>1
      <4> QED
        BY <3>1, <4>1, <4>2
    <3> QED
      BY <3>4, <3>5, <3>6
  <2> QED
    BY <1>4, <2>3, <2>4, <2>5 DEF Inv
<1> QED
  BY <1>5, <1>6

LEMMA NextInv == Inv /\ [Next]_vars => Inv'
<1> SUFFICES ASSUME Inv, [Next]_vars PROVE Inv'
  OBVIOUS
<1>1. CASE EncodeSizeUpdate
  BY <1>1, SizeUpdateStep
<1>2. CASE \E h \in Headers : EncodeHeader(h)
  <2>1. PICK h \in Headers : EncodeHeader(h)
    BY <1>2
  <2>2. EncodeIndexed(h) \/ EncodeLiteral(h)
    BY <2>1 DEF EncodeHeader
  <2> QED
    BY <2>1, <2>2, IndexedStep, LiteralStep
<1>3. CASE SendBlock
  BY <1>3, SendBlockStep
<1>4. CASE EncodeFails
  BY <1>4, EncodeFailsStep
<1>5. CASE DecodeField
  BY <1>5, DecodeFieldStep
<1>6. CASE DropField
  BY <1>6, DropFieldStep
<1>7. CASE UNCHANGED vars
  <2>1. UNCHANGED <<enc, dec, indexSequence, indexMap, updateTableSize, wire, pending,
                    skipping, inBlock, failed, lost>>
    BY <1>7 DEF vars
  <2>2. TypeOK' /\ Sound(enc)' /\ Sound(dec)'
    BY <2>1 DEF Inv, TypeOK, Sound, Sized
  <2>3. IndexExact'
    BY <2>1 DEF Inv, IndexExact, DynamicIndex
  <2>4. FieldsRight' /\ Chain'
    BY <2>1 DEF Inv, FieldsRight, FieldRight, Resolves, Decoded, HasIndex, At, Chain, After
  <2> QED
    BY <2>2, <2>3, <2>4 DEF Inv
<1> QED
  BY <1>1, <1>2, <1>3, <1>4, <1>5, <1>6, <1>7 DEF Next

\* The inductive invariant holds in every state of the two ends.
THEOREM Invariance == Spec => []Inv
  BY InitInv, NextInv, PTL DEF Spec

\* The variables keep their types, and no index is ahead of the sequence, for every set of
\* headers and every static table.
THEOREM Typing == Spec => []TypeOK
<1>1. Inv => TypeOK
  BY DEF Inv
<1> QED
  BY <1>1, Invariance, PTL

\* The map of the encoder is exact (updateIndex, removeIndex, getDynamicIndex), whatever
\* headers share a key and whatever their sizes.
THEOREM IndexIsExact == Spec => []IndexExact
<1>1. Inv => IndexExact
  BY DEF Inv
<1> QED
  BY <1>1, Invariance, PTL

\* The size of a table is the sum of its entries' sizes, and within the limit (addHeader,
\* evictTableBySize), whatever the limit.
THEOREM SizeIsExact == Spec => []SizeExact
<1>1. Inv => SizeExact
  BY DEF Inv, SizeExact, Sound, Sized
<1> QED
  BY <1>1, Invariance, PTL

\* A field that arrives stands for the header it was encoded from (encodeHeader, decode).
THEOREM FieldsDecodeRight == Spec => []DecodesRight
<1>1. Inv => DecodesRight
  <2> SUFFICES ASSUME Inv, ~lost, Arrived, Head(wire).kind # "sizeUpdate"
               PROVE  Resolves(dec, Head(wire)) /\ Decoded(dec, Head(wire)) = Head(wire).hdr
    BY DEF DecodesRight
  <2>1. wire \in Seq(FieldType) /\ Len(wire) \in Nat /\ wire # <<>> /\ 1 \in 1..Len(wire)
    BY WireType DEF Arrived
  <2>2. Head(wire) = wire[1]
    BY <2>1
  <2>3. wire[1].table = dec /\ FieldRight(wire[1])
    BY <2>1 DEF Inv, Chain, FieldsRight
  <2> QED
    BY <2>2, <2>3 DEF FieldRight
<1> QED
  BY <1>1, Invariance, PTL

\* With nothing under way the two tables are equal (addHeader, updateLimitSize at both ends).
THEOREM TablesStayEqual == Spec => []TablesAgree
<1>1. Inv => TablesAgree
  BY DEF Inv, Chain, TablesAgree
<1> QED
  BY <1>1, Invariance, PTL
=============================================================================
