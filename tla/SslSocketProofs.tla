-------------------------- MODULE SslSocketProofs --------------------------
(***************************************************************************)
(* Proofs about SslSocket for every size of the records and every room of  *)
(* the kernel: what TcpConnection reported as sent reaches the wire once   *)
(* and in order, though the library holds back a record that it has been   *)
(* given and TcpConnection gives it that record again.                     *)
(***************************************************************************)
EXTENDS SslSocket, SequenceTheorems, TLAPS

Units == {"flight", "bad", "data", "notify"}
Ssl == [there : BOOLEAN, state : {"none", "handshake", "success", "error"}, step : Nat,
        held : Seq(Nat), ahead : Nat, plain : Seq(Nat)]
Tcp == [state : {"idle", "connecting", "open", "closed"}, live : BOOLEAN,
        suspended : BOOLEAN, room : Nat, wire : Seq(Nat)]

Typed == /\ ssl \in Ssl /\ tcp \in Tcp /\ inbox \in Seq(Units)
         /\ buffer \in Seq(Nat) /\ accepted \in Nat /\ handed \in Seq(Nat)

\* The bytes of q are those behind byte b.
Behind(b, q) == \A i \in 1..Len(q) : q[i] = b + i

\* Where the wire ends for TcpConnection: it was told nothing of the bytes ahead.
Base(s, t) == Len(t.wire) - s.ahead

\* While the socket is there: what TcpConnection knows of the wire and the buffer together
\* are the n bytes that were accepted, and what the library holds back begins where the
\* wire ends; with the bytes ahead it is no more than TcpConnection will give it again, if
\* that holds something.
Booked(s, t, buf, n) ==
  /\ t.live => /\ Behind(0, t.wire) /\ s.ahead <= Len(t.wire)
               /\ Behind(Base(s, t), buf) /\ Behind(Len(t.wire), s.held)
               /\ Base(s, t) + Len(buf) = n
  /\ s.there =>
       /\ t.live
       /\ s.ahead > 0 => s.held # <<>>
       /\ buf # <<>> => s.ahead + Len(s.held) <= Len(buf)
  /\ s.held # <<>> => s.there

\* Nothing is sent before the socket is open.
Unopened == tcp.state \in {"idle", "connecting"} =>
  tcp.wire = <<>> /\ buffer = <<>> /\ accepted = 0 /\ ~ssl.there /\ ssl.ahead = 0

Inv == Typed /\ Booked(ssl, tcp, buffer, accepted) /\ Unopened

-----------------------------------------------------------------------------
(* Pieces of data. *)

LEMMA Empty == \A b : Behind(b, <<>>)
BY DEF Behind

LEMMA Piece ==
  ASSUME NEW q \in Seq(Nat), NEW b \in Nat, Behind(b, q), NEW i \in Nat, NEW j \in 0..Len(q)
  PROVE  /\ SubSeq(q, i + 1, j) \in Seq(Nat) /\ Behind(b + i, SubSeq(q, i + 1, j))
         /\ Len(SubSeq(q, i + 1, j)) = IF i <= j THEN j - i ELSE 0
<1>1. PICK n \in Nat : n = Len(q)
  OBVIOUS
<1>2. PICK p : p = SubSeq(q, i + 1, j)
  OBVIOUS
<1>3. j \in 0..n /\ \A k \in 1..n : q[k] = b + k /\ q[k] \in Nat
  BY <1>1 DEF Behind
<1>4. \A k \in (i + 1)..j : q[k] \in Nat
  BY <1>3
<1>5. p \in Seq(Nat)
  BY <1>2, <1>4
<1>6. Len(p) = IF i <= j THEN j - i ELSE 0
  BY <1>2, <1>3
<1>7. \A k \in 1..Len(p) : p[k] = q[i + k] /\ i + k \in 1..n
  BY <1>2, <1>3, <1>6
<1>8. Behind(b + i, p)
  <2>1. \A k \in 1..Len(p) : k \in Int
    BY <1>6, <1>3
  <2>2. \A k \in Int : b + (i + k) = (b + i) + k
    OBVIOUS
  <2> QED BY <1>3, <1>7, <2>1, <2>2 DEF Behind
<1> QED BY <1>2, <1>5, <1>6, <1>8

LEMMA Joined ==
  ASSUME NEW p \in Seq(Nat), NEW q \in Seq(Nat), NEW b \in Nat,
         Behind(b, p), Behind(b + Len(p), q)
  PROVE  /\ p \o q \in Seq(Nat) /\ Len(p \o q) = Len(p) + Len(q)
         /\ Behind(b, p \o q)
<1>1. PICK m \in Nat, n \in Nat : m = Len(p) /\ n = Len(q)
  OBVIOUS
<1>2. PICK r : r = p \o q
  OBVIOUS
<1>3. r \in Seq(Nat) /\ Len(r) = m + n
      /\ \A i \in 1..(m + n) : r[i] = IF i <= m THEN p[i] ELSE q[i - m]
  BY <1>1, <1>2, ConcatProperties
<1>4. Behind(b, r)
  <2> SUFFICES ASSUME NEW i \in 1..(m + n)
               PROVE  r[i] = b + i
    BY <1>3 DEF Behind
  <2>1. CASE i <= m
    BY <1>1, <1>3, <2>1 DEF Behind
  <2>2. CASE i > m
    <3>1. i - m \in 1..n /\ (b + m) + (i - m) = b + i
      BY <2>2
    <3>2. q[i - m] = (b + m) + (i - m)
      BY <1>1, <3>1 DEF Behind
    <3> QED BY <1>3, <2>2, <3>1, <3>2
  <2> QED BY <2>1, <2>2
<1> QED BY <1>1, <1>2, <1>3, <1>4

LEMMA SameBytes ==
  ASSUME NEW p \in Seq(Nat), NEW q \in Seq(Nat), NEW b, Behind(b, p), Behind(b, q), Len(p) = Len(q)
  PROVE  p = q
<1>1. \A i \in 1..Len(p) : p[i] = q[i]
  BY DEF Behind
<1> QED BY <1>1, SeqEqual

LEMMA NumbersBehind ==
  ASSUME NEW n \in Nat
  PROVE  Upto(n) \in Seq(Nat) /\ Len(Upto(n)) = n /\ Behind(0, Upto(n))
BY DEF Upto, Behind

-----------------------------------------------------------------------------
(* The handshake touches nothing but its steps and the room they take. *)

Lib == [s : Ssl, t : Tcp, in : Seq(Units)]
SameData(q, r) == /\ q.s.held = r.s.held /\ q.s.there = r.s.there /\ q.s.plain = r.s.plain
                  /\ q.s.ahead = r.s.ahead
                  /\ q.t.wire = r.t.wire /\ q.t.live = r.t.live /\ q.t.state = r.t.state

LEMMA SslFields ==
  ASSUME NEW s \in Ssl
  PROVE  /\ s.there \in BOOLEAN /\ s.held \in Seq(Nat) /\ s.plain \in Seq(Nat) /\ s.step \in Nat
         /\ s.ahead \in Nat
         /\ \A n \in Nat : /\ [s EXCEPT !.step = n] \in Ssl
                           /\ [s EXCEPT !.step = n].held = s.held
                           /\ [s EXCEPT !.step = n].there = s.there
                           /\ [s EXCEPT !.step = n].plain = s.plain
                           /\ [s EXCEPT !.step = n].ahead = s.ahead
         /\ Freed(s) \in Ssl /\ Freed(s).there = FALSE /\ Freed(s).held = <<>>
         /\ Freed(s).ahead = s.ahead
<1>1. ASSUME NEW n \in Nat
      PROVE  /\ [s EXCEPT !.step = n] \in Ssl
             /\ [s EXCEPT !.step = n].held = s.held
             /\ [s EXCEPT !.step = n].there = s.there
             /\ [s EXCEPT !.step = n].plain = s.plain
             /\ [s EXCEPT !.step = n].ahead = s.ahead
  BY DEF Ssl
<1>2. <<>> \in Seq(Nat) /\ FALSE \in BOOLEAN
  OBVIOUS
<1>3. Freed(s) \in Ssl
  BY <1>2 DEF Ssl, Freed
<1>4. Freed(s).there = FALSE /\ Freed(s).held = <<>> /\ Freed(s).ahead = s.ahead
  BY DEF Ssl, Freed
<1>5. s.there \in BOOLEAN /\ s.held \in Seq(Nat) /\ s.plain \in Seq(Nat) /\ s.step \in Nat
      /\ s.ahead \in Nat
  BY DEF Ssl
<1> QED BY <1>1, <1>3, <1>4, <1>5

LEMMA FlightKeeps ==
  ASSUME NEW r \in Lib
  PROVE  Flight(r) \in Lib /\ SameData(Flight(r), r)
<1>0. r.s \in Ssl /\ r.t \in Tcp /\ r.in \in Seq(Units) /\ r.s.step \in Nat /\ r.t.room \in Nat
  BY DEF Lib, Ssl, Tcp
<1>1. CASE Goes(r)
  <2>1. PICK s, t : s = [r.s EXCEPT !.step = @ + 1] /\ t = [r.t EXCEPT !.room = @ - 1]
    OBVIOUS
  <2>2. Flight(r) = Gone(r)
    BY <1>1, Zenon DEF Flight
  <2>3. Flight(r) = [r EXCEPT !.s = s, !.t = t]
    BY <2>1, <2>2 DEF Lib, Gone
  <2>4. s \in Ssl /\ s.held = r.s.held /\ s.there = r.s.there /\ s.plain = r.s.plain
        /\ s.ahead = r.s.ahead
    <3>1. r.s.step + 1 \in Nat
      BY <1>0
    <3> QED BY <1>0, <2>1, <3>1, SslFields
  <2>5. t \in Tcp /\ t.wire = r.t.wire /\ t.live = r.t.live /\ t.state = r.t.state
    <3>1. r.t.room - 1 \in Nat
      BY <1>0, <1>1 DEF Goes
    <3> QED BY <1>0, <2>1, <3>1 DEF Tcp
  <2>6. Flight(r) \in Lib /\ Flight(r).s = s /\ Flight(r).t = t
    BY <2>3, <2>4, <2>5 DEF Lib
  <2> QED BY <2>4, <2>5, <2>6 DEF SameData
<1>2. CASE ~Goes(r) /\ Comes(r)
  <2>1. PICK s, i : s = [r.s EXCEPT !.step = @ + 1] /\ i = Tail(r.in)
    OBVIOUS
  <2>2. Flight(r) = Come(r)
    BY <1>2, Zenon DEF Flight
  <2>3. Flight(r) = [r EXCEPT !.s = s, !.in = i]
    BY <2>1, <2>2 DEF Lib, Come
  <2>4. s \in Ssl /\ s.held = r.s.held /\ s.there = r.s.there /\ s.plain = r.s.plain
        /\ s.ahead = r.s.ahead
    <3>1. r.s.step + 1 \in Nat
      BY <1>0
    <3> QED BY <1>0, <2>1, <3>1, SslFields
  <2>5. i \in Seq(Units)
    BY <1>0, <1>2, <2>1 DEF Comes
  <2>6. Flight(r) \in Lib /\ Flight(r).s = s /\ Flight(r).t = r.t
    BY <2>3, <2>4, <2>5 DEF Lib
  <2> QED BY <2>4, <2>6 DEF SameData
<1>3. CASE ~Goes(r) /\ ~Comes(r)
  <2>1. Flight(r) = r
    BY <1>3, Zenon DEF Flight
  <2> QED BY <2>1 DEF SameData
<1> QED BY <1>1, <1>2, <1>3

LEMMA HandshakeKeeps ==
  ASSUME NEW s \in Ssl, NEW t \in Tcp, NEW i \in Seq(Units),
         NEW r, r = DoSslHandshake(s, t, i)
  PROVE  /\ r \in Lib /\ r.t.wire = t.wire /\ r.t.live = t.live /\ r.t.state = t.state
         /\ r.s.ahead = s.ahead
         /\ \/ r.s.there = s.there /\ r.s.held = s.held
            \/ ~r.s.there /\ r.s.held = <<>>
<1>1. PICK r0 : r0 = [s |-> s, t |-> t, in |-> i]
  OBVIOUS
<1>2. r0 \in Lib /\ r0.s = s /\ r0.t = t
  BY <1>1 DEF Lib
<1>3. PICK r1, r2 : r1 = Flight(r0) /\ r2 = Flight(r1)
  OBVIOUS
<1>4. PICK r3, r4 : r3 = Flight(r2) /\ r4 = Flight(r3)
  OBVIOUS
<1>5. r1 \in Lib /\ SameData(r1, r0)
  BY <1>2, <1>3, FlightKeeps
<1>6. r2 \in Lib /\ SameData(r2, r1)
  BY <1>3, <1>5, FlightKeeps
<1>7. r3 \in Lib /\ SameData(r3, r2)
  BY <1>4, <1>6, FlightKeeps
<1>8. r4 \in Lib /\ SameData(r4, r3)
  BY <1>4, <1>7, FlightKeeps
<1>9. SameData(r4, r0)
  BY <1>5, <1>6, <1>7, <1>8 DEF SameData
<1>10. PICK v : v = Verdict(r4)
  OBVIOUS
<1>11. v \in {"success", "handshake", "error"}
  BY <1>10 DEF Verdict
<1>12. PICK s5 : s5 = [r4.s EXCEPT !.state = v]
  OBVIOUS
<1>13. PICK a : a = [r4 EXCEPT !.s = s5]
  OBVIOUS
<1>14. a = Advance(s, t, i)
  BY <1>1, <1>3, <1>4, <1>10, <1>12, <1>13 DEF Advance
<1>15. s5 \in Ssl /\ s5.held = r4.s.held /\ s5.there = r4.s.there /\ s5.ahead = r4.s.ahead
  BY <1>8, <1>11, <1>12 DEF Lib, Ssl
<1>16. a \in Lib /\ a.s = s5 /\ a.t = r4.t
  BY <1>8, <1>13, <1>15 DEF Lib
<1>17. a.s.held = s.held /\ a.s.there = s.there /\ a.s.ahead = s.ahead
       /\ a.t.wire = t.wire /\ a.t.live = t.live /\ a.t.state = t.state
  BY <1>2, <1>9, <1>15, <1>16 DEF SameData
<1>18. CASE a.s.state # "error"
  <2>1. r = a
    BY <1>14, <1>18 DEF DoSslHandshake
  <2> QED BY <1>16, <1>17, <2>1
<1>19. CASE a.s.state = "error"
  <2>1. PICK f : f = Freed(a.s)
    OBVIOUS
  <2>2. r = [a EXCEPT !.s = f]
    BY <1>14, <1>19, <2>1 DEF DoSslHandshake
  <2>3. f \in Ssl /\ ~f.there /\ f.held = <<>> /\ f.ahead = a.s.ahead
    BY <1>15, <1>16, <2>1, SslFields
  <2>4. r \in Lib /\ r.s = f /\ r.t = a.t
    BY <1>16, <2>2, <2>3 DEF Lib
  <2> QED BY <1>17, <2>3, <2>4
<1> QED BY <1>18, <1>19

-----------------------------------------------------------------------------
(* Writing. *)

Result == [ret : Int, s : Ssl, t : Tcp]

\* Data that may be written: the library is given again what it holds back.
Ready(s, t, data) ==
  /\ s \in Ssl /\ t \in Tcp /\ data \in Seq(Nat) /\ data # <<>>
  /\ s.there =>
       /\ t.live /\ Behind(0, t.wire) /\ Behind(Len(t.wire), s.held)
       /\ s.ahead <= Len(t.wire) /\ Behind(Base(s, t), data)
       /\ s.ahead > 0 => s.held # <<>>

\* A write either fails, and then the socket is gone, or it puts on the wire what it
\* reports, and the library holds back no more than what is left.
Broke(r) == r.ret = -1 /\ ~r.s.there /\ r.s.held = <<>> /\ ~r.t.live
Went(r, b, n) ==
  /\ r.ret \in 0..n /\ r.s.there /\ r.t.live /\ Behind(0, r.t.wire)
  /\ Len(r.t.wire) = b + r.ret + r.s.ahead /\ Behind(Len(r.t.wire), r.s.held)
  /\ r.s.ahead + Len(r.s.held) <= n - r.ret
  /\ r.s.ahead > 0 => r.s.held # <<>>

\* The records that go out, and the one that does not, are cut from the same data.
LEMMA RecordsGoOut ==
  ASSUME NEW s, NEW t, NEW data, Ready(s, t, data), s.there,
         NEW r, r = SendRecords(s, t, data)
  PROVE  /\ r \in Result /\ r.t.state = t.state
         /\ r.ret = -1 \/ Went(r, Base(s, t), Len(data))
<1>0. /\ s \in Ssl /\ t \in Tcp /\ data \in Seq(Nat) /\ data # <<>>
      /\ t.live /\ Behind(0, t.wire) /\ Behind(Len(t.wire), s.held)
      /\ s.ahead <= Len(t.wire) /\ Behind(Base(s, t), data)
      /\ s.ahead > 0 => s.held # <<>>
      /\ s.held \in Seq(Nat) /\ t.wire \in Seq(Nat) /\ t.room \in Nat /\ s.ahead \in Nat
  BY DEF Ready, Ssl, Tcp
<1>1. PICK l \in Nat, h \in Nat, b \in Nat, a \in Nat :
        l = Len(data) /\ h = Len(s.held) /\ b = Len(t.wire) /\ a = s.ahead
  <2>1. Len(data) \in Nat /\ Len(s.held) \in Nat /\ Len(t.wire) \in Nat
    BY <1>0, LenProperties
  <2> QED BY <1>0, <2>1
<1>2. RecSize \in Nat /\ RecSize > 0
  BY SslBounds
<1>3. CASE peer = "reset" \/ l < a + h
  <2>1. r = [ret |-> -1, s |-> s, t |-> t]
    BY <1>1, <1>3 DEF SendRecords
  <2> QED BY <1>0, <2>1 DEF Result
<1>4. CASE ~(peer = "reset" \/ l < a + h)
  <2> DEFINE todo == Rest(data, a)
  <2>1. PICK n \in Nat : n = l - a /\ n > 0 /\ h <= n /\ a <= b
    <3>1. l > 0
      <4>1. l # 0
        BY <1>0, <1>1, EmptySeq
      <4> QED BY <4>1
    <3>2. a > 0 => h > 0
      <4>1. a > 0 => h # 0
        BY <1>0, <1>1, EmptySeq
      <4> QED BY <4>1
    <3>3. a <= b
      BY <1>0, <1>1
    <3> QED BY <1>4, <3>1, <3>2, <3>3
  <2>2. todo \in Seq(Nat) /\ Len(todo) = n /\ Behind(b, todo)
    <3>1. PICK c \in Nat : c = Base(s, t) /\ c + a = b
      <4>1. Base(s, t) = b - a
        BY <1>1 DEF Base
      <4>2. b - a \in Nat /\ (b - a) + a = b
        BY <2>1
      <4> QED BY <4>1, <4>2
    <3>2. Behind(c, data) /\ l \in 0..Len(data)
      BY <1>0, <1>1, <3>1
    <3>3. /\ SubSeq(data, a + 1, l) \in Seq(Nat) /\ Behind(c + a, SubSeq(data, a + 1, l))
          /\ Len(SubSeq(data, a + 1, l)) = IF a <= l THEN l - a ELSE 0
      BY <1>0, <3>2, Piece
    <3> QED BY <1>1, <2>1, <3>1, <3>3 DEF Rest
  <2> HIDE DEF todo
  <2>3. PICK first \in Nat :
          first = (IF s.held # <<>> THEN h ELSE RecSize) /\ first > 0 /\ first - h >= 0
    <3>1. s.held # <<>> => h # 0
      BY <1>0, <1>1, EmptySeq
    <3>2. s.held = <<>> => h = 0
      BY <1>1
    <3> QED BY <1>2, <3>1, <3>2
  <2> DEFINE cut(i) == IF i = 0 THEN 0 ELSE Least(n, first + (i - 1) * RecSize)
             all == 1 + (n - first + RecSize - 1) \div RecSize
  <2>4. \A i \in Nat : cut(i) \in 0..n
    <3> SUFFICES ASSUME NEW i \in Nat, i # 0
                 PROVE  Least(n, first + (i - 1) * RecSize) \in 0..n
      OBVIOUS
    <3>1. \A x, y \in Nat : x * y \in Nat
      OBVIOUS
    <3>2. PICK p \in Nat : p = (i - 1) * RecSize
      <4>1. i - 1 \in Nat
        OBVIOUS
      <4> QED BY <1>2, <3>1, <4>1
    <3> QED BY <3>2 DEF Least
  <2>5. all \in Nat
    <3>1. PICK x \in Nat : x = n - first + RecSize - 1
      <4>1. s.held # <<>> => first = h /\ h <= n
        BY <2>1, <2>3
      <4>2. s.held = <<>> => first = RecSize
        BY <2>3
      <4> QED BY <1>2, <2>1, <2>3, <4>1, <4>2
    <3>2. x \div RecSize \in Nat
      BY <1>2
    <3> QED BY <3>1, <3>2
  <2>6. cut(0) = 0 /\ cut(1) = Least(n, first) /\ cut(2) = Least(n, first + RecSize)
    <3>1. (1 - 1) * RecSize = 0 /\ (2 - 1) * RecSize = RecSize
      BY <1>2
    <3>2. first + 0 = first
      OBVIOUS
    <3> QED BY <3>1, <3>2
  <2> HIDE DEF cut, all
  <2>7. PICK k \in Nat : k = Least(t.room, all) /\ k <= t.room
    BY <1>0, <2>5 DEF Least
  <2>8. PICK c \in 0..n, e \in 0..n : c = cut(k) /\ e = cut(k + 1)
    BY <2>4
  <2>9. PICK again \in BOOLEAN : again = (s.held # <<>> /\ k <= 1 /\ c # n)
    OBVIOUS
  \* A record is held back again.
  <2>10. again => e > c
    <3> SUFFICES ASSUME again PROVE e > c
      OBVIOUS
    <3>1. k \in {0, 1} /\ c # n /\ c <= n
      <4>1. k <= 1 /\ c # n
        BY <2>9
      <4> QED BY <4>1
    <3>2. CASE k = 0
      <4>1. c = 0 /\ e = Least(n, first)
        BY <2>6, <2>8, <3>2
      <4> QED BY <2>1, <2>3, <4>1 DEF Least
    <3>3. CASE k = 1
      <4>1. c = Least(n, first) /\ e = Least(n, first + RecSize)
        BY <2>6, <2>8, <3>3
      <4> QED BY <1>2, <2>1, <2>3, <3>1, <4>1 DEF Least
    <3> QED BY <3>1, <3>2, <3>3
  <2>11. PICK out : out = s.held \o Rest(todo, h)
    OBVIOUS
  <2>12. out \in Seq(Nat) /\ Len(out) = n /\ Behind(b, out)
    <3>1. h <= n /\ n \in 0..Len(todo)
      BY <2>1, <2>2
    <3>2. /\ Rest(todo, h) \in Seq(Nat) /\ Behind(b + h, Rest(todo, h))
          /\ Len(Rest(todo, h)) = n - h
      BY <2>2, <3>1, Piece DEF Rest
    <3>3. out \in Seq(Nat) /\ Len(out) = Len(s.held) + Len(Rest(todo, h)) /\ Behind(b, out)
      BY <1>0, <1>1, <2>11, <3>2, Joined
    <3> QED BY <1>1, <3>2, <3>3
  <2>13. PICK held, went : held = SubSeq(out, c + 1, e) /\ went = SubSeq(out, 1, c)
    OBVIOUS
  <2>14. /\ held \in Seq(Nat) /\ Behind(b + c, held) /\ Len(held) <= n - c /\ Len(held) \in Nat
         /\ e > c => held # <<>>
    <3>1. c \in Nat /\ e \in 0..Len(out)
      BY <2>12
    <3>2. /\ held \in Seq(Nat) /\ Behind(b + c, held)
          /\ Len(held) = IF c <= e THEN e - c ELSE 0
      BY <2>12, <2>13, <3>1, Piece
    <3>3. e > c => Len(held) # 0
      BY <3>2
    <3>4. Len(<<>>) = 0
      OBVIOUS
    <3>5. e > c => held # <<>>
      BY <3>3, <3>4
    <3> QED BY <3>2, <3>5
  <2>15. went \in Seq(Nat) /\ Behind(b, went) /\ Len(went) = c
    <3>1. c \in 0..Len(out) /\ 0 \in Nat
      BY <2>12
    <3>2. /\ SubSeq(out, 0 + 1, c) \in Seq(Nat) /\ Behind(b + 0, SubSeq(out, 0 + 1, c))
          /\ Len(SubSeq(out, 0 + 1, c)) = IF 0 <= c THEN c - 0 ELSE 0
      BY <2>12, <3>1, Piece
    <3>3. 0 + 1 = 1 /\ b + 0 = b
      OBVIOUS
    <3> QED BY <2>13, <3>2, <3>3
  <2>16. PICK wire : wire = t.wire \o went
    OBVIOUS
  <2>17. wire \in Seq(Nat) /\ Len(wire) = b + c /\ Behind(0, wire)
    <3>1. Behind(0 + Len(t.wire), went)
      BY <1>1, <2>15
    <3>2. 0 \in Nat
      OBVIOUS
    <3>3. t.wire \o went \in Seq(Nat) /\ Len(t.wire \o went) = Len(t.wire) + Len(went)
          /\ Behind(0, t.wire \o went)
      BY <1>0, <2>15, <3>1, <3>2, Joined
    <3> QED BY <1>1, <2>15, <2>16, <3>3
  <2>18. PICK a2 \in Nat, ret \in Nat :
           a2 = (IF again THEN a + c ELSE 0) /\ ret = (IF again THEN 0 ELSE a + c)
    <3>1. a + c \in Nat
      OBVIOUS
    <3> QED BY <3>1
  <2>19. PICK s2, t2 : /\ s2 = [s EXCEPT !.held = held, !.ahead = a2]
                       /\ t2 = [t EXCEPT !.room = @ - k, !.wire = wire]
    OBVIOUS
  <2>20. s2 \in Ssl /\ s2.held = held /\ s2.ahead = a2 /\ s2.there
    BY <1>0, <2>14, <2>19 DEF Ssl
  <2>21. t2 \in Tcp /\ t2.wire = wire /\ t2.live /\ t2.state = t.state
    <3>1. t.room - k \in Nat
      BY <1>0, <2>7
    <3> QED BY <1>0, <2>17, <2>19, <3>1 DEF Tcp
  <2>22. r = [ret |-> ret, s |-> s2, t |-> t2]
    <3>1. r = [ret |-> CASE cut(k) = n -> Len(data)
                         [] s.held # <<>> /\ k <= 1 /\ cut(k) # n -> Retried(data)
                         [] OTHER -> s.ahead + cut(k) + Retried(data),
               s |-> [s EXCEPT !.held = SubSeq(out, cut(k) + 1, cut(k + 1)),
                               !.ahead = IF s.held # <<>> /\ k <= 1 /\ cut(k) # n
                                         THEN @ + cut(k) ELSE 0],
               t |-> [t EXCEPT !.room = @ - k, !.wire = @ \o SubSeq(out, 1, cut(k))]]
      BY <1>1, <1>4, <2>2, <2>3, <2>7, <2>11 DEF SendRecords, cut, all, todo
    <3>2. (CASE c = n -> Len(data)
             [] s.held # <<>> /\ k <= 1 /\ c # n -> Retried(data)
             [] OTHER -> s.ahead + c + Retried(data)) = ret
      <4>1. CASE c = n
        <5>1. ~again
          BY <2>9, <4>1
        <5>2. ret = a + n
          BY <2>18, <4>1, <5>1
        <5>3. a + n = l
          BY <2>1
        <5> QED BY <1>1, <4>1, <5>2, <5>3
      <4>2. CASE again
        BY <2>9, <2>18, <4>2 DEF Retried
      <4>3. CASE c # n /\ ~again
        <5>1. a + c + 0 = a + c
          OBVIOUS
        <5> QED BY <1>1, <2>9, <2>18, <4>3, <5>1 DEF Retried
      <4> QED BY <4>1, <4>2, <4>3
    <3>3. (IF s.held # <<>> /\ k <= 1 /\ c # n THEN s.ahead + c ELSE 0) = a2
      BY <1>1, <2>9, <2>18
    <3> QED BY <2>8, <2>13, <2>16, <2>19, <3>1, <3>2, <3>3
  <2>23. r.ret = ret /\ r.s = s2 /\ r.t = t2 /\ r \in Result
    BY <2>18, <2>20, <2>21, <2>22 DEF Result
  <2>24. Went(r, Base(s, t), l)
    <3>1. PICK m \in Nat : m = Len(held) /\ m <= n - c
      BY <2>14
    <3>2. PICK d \in Int : d = Base(s, t) /\ d = b - a
      BY <1>1 DEF Base
    <3>3. ret \in 0..l
      BY <2>1, <2>18
    <3>4. b + c = d + ret + a2
      BY <2>18, <3>2
    <3>5. a2 + m <= l - ret
      BY <2>1, <2>18, <3>1
    <3>6. a2 > 0 => held # <<>>
      BY <2>10, <2>14, <2>18
    <3>7. Behind(Len(wire), held)
      BY <2>14, <2>17
    <3> QED BY <2>17, <2>20, <2>21, <2>23, <3>1, <3>2, <3>3, <3>4, <3>5, <3>6, <3>7 DEF Went
  <2> QED BY <1>1, <2>21, <2>23, <2>24
<1> QED BY <1>3, <1>4

LEMMA WriteResult ==
  ASSUME NEW s, NEW t, NEW data, Ready(s, t, data), NEW r, r = Write(s, t, data)
  PROVE  /\ r \in Result /\ r.t.state = t.state
         /\ Broke(r) \/ (s.there /\ Went(r, Base(s, t), Len(data)))
<1>1. s \in Ssl /\ t \in Tcp
  BY DEF Ready
<1>2. ASSUME NEW u \in Ssl, NEW v \in Tcp, v.state = t.state, r = Failing(u, v)
      PROVE  r \in Result /\ r.t.state = t.state /\ Broke(r)
  <2>1. PICK f, c : f = Freed(u) /\ c = Cleaned(v)
    OBVIOUS
  <2>2. f \in Ssl /\ ~f.there /\ f.held = <<>>
    BY <2>1, SslFields
  <2>3. c \in Tcp /\ ~c.live /\ c.state = v.state
    BY <2>1 DEF Cleaned, Tcp
  <2>4. r = [ret |-> -1, s |-> f, t |-> c]
    BY <1>2, <2>1 DEF Failing
  <2> QED BY <1>2, <2>2, <2>3, <2>4 DEF Result, Broke
<1>3. CASE ~s.there
  <2>1. r = Failing(s, t)
    BY <1>3 DEF Write
  <2> QED BY <1>1, <1>2, <2>1
<1>4. CASE s.there
  <2>1. PICK q : q = SendRecords(s, t, data)
    OBVIOUS
  <2>2. /\ q \in Result /\ q.t.state = t.state
        /\ q.ret = -1 \/ Went(q, Base(s, t), Len(data))
    BY <1>4, <2>1, RecordsGoOut
  <2>3. q.s \in Ssl /\ q.t \in Tcp /\ q.ret \in Int
    BY <2>2 DEF Result
  <2>4. CASE q.ret < 0
    <3>1. r = Failing(q.s, q.t)
      BY <1>4, <2>1, <2>4 DEF Write
    <3> QED BY <1>2, <2>2, <2>3, <3>1
  <2>5. CASE ~(q.ret < 0)
    <3>1. r = q
      BY <1>4, <2>1, <2>5 DEF Write
    <3>2. q.ret # -1
      BY <2>3, <2>5
    <3> QED BY <1>4, <2>2, <3>1, <3>2
  <2> QED BY <2>3, <2>4, <2>5
<1> QED BY <1>3, <1>4

\* Two iovecs are like one: the library is not asked for the second one before the
\* first is on the wire.
LEMMA WritevResult ==
  ASSUME NEW s, NEW t, NEW data, Ready(s, t, data),
         NEW r, r = Writev(s, t, SubSeq(data, 1, 1), Rest(data, 1))
  PROVE  /\ r \in Result /\ r.t.state = t.state
         /\ Broke(r) \/ (s.there /\ Went(r, Base(s, t), Len(data)))
<1>0. /\ s \in Ssl /\ t \in Tcp /\ data \in Seq(Nat) /\ data # <<>> /\ t.wire \in Seq(Nat)
  BY DEF Ready, Tcp
<1>1. PICK n \in Nat, b \in Int : n = Len(data) /\ b = Base(s, t) /\ (s.there => b \in Nat)
  <2>1. Len(data) \in Nat /\ Len(t.wire) \in Nat /\ s.ahead \in Nat
    BY <1>0, LenProperties DEF Ssl
  <2>2. s.there => s.ahead <= Len(t.wire)
    BY DEF Ready
  <2> QED BY <2>1, <2>2 DEF Base
<1>2. n > 0
  BY <1>0, <1>1, EmptySeq
<1>3. PICK one, two : one = SubSeq(data, 1, 1) /\ two = Rest(data, 1)
  OBVIOUS
<1>4. /\ one \in Seq(Nat) /\ Len(one) = 1 /\ one # <<>>
      /\ two \in Seq(Nat) /\ Len(two) = n - 1
      /\ \A c \in Nat : Behind(c, data) => Behind(c, one) /\ Behind(c + 1, two)
  <2>1. one \in Seq(Nat) /\ Len(one) = 1
    BY <1>0, <1>1, <1>2, <1>3
  <2>2. two \in Seq(Nat) /\ Len(two) = n - 1
    BY <1>0, <1>1, <1>2, <1>3 DEF Rest
  <2>3. ASSUME NEW c \in Nat, Behind(c, data)
        PROVE  Behind(c, one) /\ Behind(c + 1, two)
    <3>1. 0 \in Nat /\ 1 \in Nat /\ 1 \in 0..Len(data) /\ Len(data) \in 0..Len(data)
      BY <1>1, <1>2
    <3>2. Behind(c + 0, SubSeq(data, 0 + 1, 1))
      BY <1>0, <2>3, <3>1, Piece
    <3>3. Behind(c + 1, SubSeq(data, 1 + 1, Len(data)))
      BY <1>0, <2>3, <3>1, Piece
    <3>4. c + 0 = c /\ 0 + 1 = 1
      OBVIOUS
    <3> QED BY <1>3, <3>2, <3>3, <3>4 DEF Rest
  <2>4. one # <<>>
    BY <2>1
  <2>5. \A c \in Nat : Behind(c, data) => Behind(c, one) /\ Behind(c + 1, two)
    BY <2>3
  <2> QED BY <2>1, <2>2, <2>4, <2>5
<1>5. PICK r1 : r1 = Write(s, t, one)
  OBVIOUS
<1>6. Ready(s, t, one)
  <2>1. s.there => Behind(b, one)
    BY <1>1, <1>4 DEF Ready
  <2> QED BY <1>1, <1>4, <2>1 DEF Ready
<1>7. /\ r1 \in Result /\ r1.t.state = t.state
      /\ Broke(r1) \/ (s.there /\ Went(r1, b, 1))
  <2>1. /\ r1 \in Result /\ r1.t.state = t.state
        /\ Broke(r1) \/ (s.there /\ Went(r1, Base(s, t), Len(one)))
    BY <1>5, <1>6, WriteResult
  <2> QED BY <1>1, <1>4, <2>1
<1>8. CASE Broke(r1) \/ r1.ret < 1 \/ two = <<>>
  <2>1. r = r1
    BY <1>3, <1>4, <1>5, <1>8 DEF Writev, Broke
  <2>2. Went(r1, b, 1) => Went(r1, b, n)
    <3>1. r1.s.held \in Seq(Nat) /\ r1.ret \in Int /\ r1.s.ahead \in Nat
      BY <1>7 DEF Result, Ssl
    <3>2. Len(r1.s.held) \in Nat
      BY <3>1, LenProperties
    <3> QED BY <1>2, <3>1, <3>2, SMTT(60) DEF Went
  <2> QED BY <1>1, <1>7, <2>1, <2>2
<1>9. CASE ~(Broke(r1) \/ r1.ret < 1 \/ two = <<>>)
  <2>1. s.there /\ Went(r1, b, 1)
    BY <1>7, <1>9
  <2>2. r1.ret = 1 /\ r1.s \in Ssl /\ r1.t \in Tcp
    <3>1. r1.ret \in 0..1
      BY <2>1 DEF Went
    <3> QED BY <1>7, <1>9, <3>1 DEF Result
  <2>3. /\ Len(r1.t.wire) = b + 1 /\ Behind(0, r1.t.wire) /\ r1.t.live /\ r1.s.ahead = 0
        /\ Behind(Len(r1.t.wire), r1.s.held) /\ Base(r1.s, r1.t) = b + 1 /\ b \in Nat
    <3>1. PICK h \in Nat, m \in Nat : h = Len(r1.s.held) /\ m = r1.s.ahead
      <4>1. r1.s.held \in Seq(Nat) /\ r1.s.ahead \in Nat
        BY <2>2 DEF Ssl
      <4> QED BY <4>1, LenProperties
    <3>2. m + h <= 1 - 1 /\ Len(r1.t.wire) = b + 1 + m
      BY <2>1, <2>2, <3>1 DEF Went
    <3>3. m = 0 /\ Len(r1.t.wire) = b + 1
      BY <3>2
    <3>4. Base(r1.s, r1.t) = b + 1
      BY <3>1, <3>3 DEF Base
    <3> QED BY <1>1, <2>1, <3>1, <3>3, <3>4 DEF Went
  <2>4. Ready(r1.s, r1.t, two)
    <3>1. Behind(b + 1, two)
      BY <1>1, <1>4, <2>1, <2>3 DEF Ready
    <3>2. 0 <= b + 1
      BY <2>3
    <3> QED BY <1>4, <1>9, <2>2, <2>3, <3>1, <3>2 DEF Ready
  <2>5. PICK r2 : r2 = Write(r1.s, r1.t, two)
    OBVIOUS
  <2>6. /\ r2 \in Result /\ r2.t.state = t.state
        /\ Broke(r2) \/ Went(r2, b + 1, n - 1)
    BY <1>4, <1>7, <2>3, <2>4, <2>5, WriteResult
  <2>7. r = IF r2.ret < 0 THEN r2 ELSE [r2 EXCEPT !.ret = @ + r1.ret]
    BY <1>3, <1>4, <1>5, <1>9, <2>2, <2>5 DEF Writev
  <2>8. CASE Broke(r2)
    <3>1. r = r2
      BY <2>7, <2>8 DEF Broke
    <3> QED BY <2>6, <2>8, <3>1
  <2>9. CASE Went(r2, b + 1, n - 1)
    <3>1. r2.ret \in 0..(n - 1) /\ r2.ret \in Nat
      BY <2>9 DEF Went
    <3>2. r = [r2 EXCEPT !.ret = r2.ret + 1]
      BY <2>2, <2>7, <3>1
    <3>3. r.ret = r2.ret + 1 /\ r.s = r2.s /\ r.t = r2.t /\ r \in Result
      BY <2>6, <3>1, <3>2 DEF Result
    <3>4. r.ret \in 0..n /\ b + 1 + r2.ret = b + r.ret /\ n - 1 - r2.ret = n - r.ret
      BY <1>2, <3>1, <3>3
    <3>5. Went(r, b, n)
      BY <2>9, <3>3, <3>4, Zenon DEF Went
    <3> QED BY <1>1, <2>1, <2>6, <3>3, <3>5
  <2> QED BY <2>6, <2>8, <2>9
<1> QED BY <1>8, <1>9

-----------------------------------------------------------------------------
(* The buffer. *)

LEMMA BrokeIsBooked ==
  ASSUME NEW r, Broke(r), NEW buf \in Seq(Nat), NEW n
  PROVE  Booked(r.s, r.t, buf, n)
<1>1. Len(buf) \in Nat /\ Len(<<>>) = 0
  BY LenProperties
<1> QED BY <1>1 DEF Broke, Booked

\* What is left of some data after a write, in the buffer.
LEMMA RestIsBooked ==
  ASSUME NEW r \in Result, NEW data \in Seq(Nat), NEW b \in Nat, Behind(b, data),
         Went(r, b, Len(data))
  PROVE  /\ Rest(data, r.ret) \in Seq(Nat) /\ Len(Rest(data, r.ret)) = Len(data) - r.ret
         /\ Booked(r.s, r.t, Rest(data, r.ret), b + Len(data))
<1>1. PICK n \in Nat, k \in Int : n = Len(data) /\ k = r.ret
  <2>1. Len(data) \in Nat /\ r.ret \in Int
    BY LenProperties DEF Result
  <2> QED BY <2>1
<1>2. k \in Nat /\ k <= n
  BY <1>1 DEF Went
<1>3. PICK q : q = Rest(data, k)
  OBVIOUS
<1>4. q \in Seq(Nat) /\ Behind(b + k, q) /\ Len(q) = n - k
  <2>1. n \in 0..Len(data) /\ k \in Nat
    BY <1>1, <1>2
  <2>2. /\ SubSeq(data, k + 1, n) \in Seq(Nat) /\ Behind(b + k, SubSeq(data, k + 1, n))
        /\ Len(SubSeq(data, k + 1, n)) = IF k <= n THEN n - k ELSE 0
    BY <2>1, Piece
  <2> QED BY <1>1, <1>2, <1>3, <2>2 DEF Rest
<1>5. /\ Behind(Len(r.t.wire), r.s.held) /\ r.s.ahead + Len(r.s.held) <= n - k
      /\ Behind(0, r.t.wire) /\ r.s.there /\ r.t.live
      /\ r.s.ahead > 0 => r.s.held # <<>>
  BY <1>1 DEF Went
<1>6. Base(r.s, r.t) = b + k /\ r.s.ahead <= Len(r.t.wire)
  <2>1. PICK m \in Nat : m = r.s.ahead
    BY DEF Result, Ssl
  <2>2. Len(r.t.wire) = b + k + m
    BY <1>1, <2>1 DEF Went
  <2> QED BY <1>2, <2>1, <2>2 DEF Base
<1>7. (b + k) + (n - k) = b + n
  OBVIOUS
<1> QED BY <1>1, <1>3, <1>4, <1>5, <1>6, <1>7 DEF Booked

\* sendBufferedData: what it leaves in the buffer still follows the wire.
LEMMA FlushResult ==
  ASSUME Inv, NEW t \in Tcp, t.wire = tcp.wire, t.live = tcp.live, t.state = tcp.state,
         NEW f, f = Flush(ssl, t)
  PROVE  /\ f \in Result /\ f.t.state = tcp.state /\ (f.ret < 0 => Broke(f))
         /\ Left(f.ret) \in Seq(Nat) /\ Booked(f.s, f.t, Left(f.ret), accepted)
<1>1. /\ ssl \in Ssl /\ buffer \in Seq(Nat) /\ accepted \in Nat /\ t.wire \in Seq(Nat)
      /\ Booked(ssl, t, buffer, accepted)
  BY DEF Inv, Typed, Booked, Tcp, Base
<1>2. CASE buffer = <<>>
  <2>1. f = [ret |-> 0, s |-> ssl, t |-> t]
    BY <1>2 DEF Flush
  <2>2. f \in Result /\ f.ret = 0 /\ f.s = ssl /\ f.t = t
    BY <1>1, <2>1 DEF Result
  <2>3. Left(f.ret) = buffer
    BY <2>2 DEF Left
  <2> QED BY <1>1, <2>2, <2>3
<1>3. CASE buffer # <<>>
  <2>1. Ready(ssl, t, buffer)
    BY <1>1, <1>3 DEF Ready, Booked
  <2>2. f = Write(ssl, t, buffer)
    BY <1>3 DEF Flush
  <2>3. /\ f \in Result /\ f.t.state = t.state
        /\ Broke(f) \/ (ssl.there /\ Went(f, Base(ssl, t), Len(buffer)))
    BY <2>1, <2>2, WriteResult
  <2>4. CASE Broke(f)
    <3>1. Left(f.ret) = buffer
      BY <2>4 DEF Broke, Left
    <3> QED BY <1>1, <2>3, <2>4, <3>1, BrokeIsBooked
  <2>5. CASE ssl.there /\ Went(f, Base(ssl, t), Len(buffer))
    <3>1. PICK b \in Nat : b = Base(ssl, t)
      <4>1. Len(t.wire) \in Nat /\ ssl.ahead \in Nat /\ ssl.ahead <= Len(t.wire)
        BY <1>1, <2>5, LenProperties DEF Booked, Ssl
      <4> QED BY <4>1 DEF Base
    <3>2. Behind(b, buffer) /\ b + Len(buffer) = accepted
      BY <1>1, <2>5, <3>1 DEF Booked
    <3>3. /\ Rest(buffer, f.ret) \in Seq(Nat)
          /\ Booked(f.s, f.t, Rest(buffer, f.ret), b + Len(buffer))
      BY <1>1, <2>3, <2>5, <3>1, <3>2, RestIsBooked
    <3>4. f.ret \in Nat /\ ~(f.ret < 0)
      BY <2>5 DEF Went
    <3>5. Left(f.ret) = Rest(buffer, f.ret)
      <4>1. CASE f.ret > 0
        BY <4>1 DEF Left
      <4>2. CASE f.ret = 0
        <5>1. Rest(buffer, 0) = buffer
          <6>1. SubSeq(buffer, 1, Len(buffer)) = buffer
            BY <1>1, SubSeqFull
          <6>2. 0 + 1 = 1
            OBVIOUS
          <6> QED BY <6>1, <6>2 DEF Rest
        <5> QED BY <4>2, <5>1 DEF Left
      <4> QED BY <3>4, <4>1, <4>2
    <3> QED BY <2>3, <3>2, <3>3, <3>4, <3>5
  <2> QED BY <2>3, <2>4, <2>5
<1> QED BY <1>2, <1>3

-----------------------------------------------------------------------------
(* The invariant. *)

\* What a step has to show.
LEMMA InvFollows ==
  ASSUME Inv, ssl' \in Ssl, tcp' \in Tcp, inbox' \in Seq(Units), buffer' \in Seq(Nat),
         accepted' \in Nat, handed' \in Seq(Nat), Booked(ssl', tcp', buffer', accepted'),
         tcp'.state \notin {"idle", "connecting"}
  PROVE  Inv'
BY DEF Inv, Typed, Unopened

LEMMA InitInv == Init => Inv
<1> SUFFICES ASSUME Init PROVE Inv
  OBVIOUS
<1>1. ssl \in Ssl /\ ssl.held = <<>> /\ ~ssl.there /\ ssl.ahead = 0
  BY DEF Init, Ssl
<1>2. tcp \in Tcp /\ ~tcp.live /\ tcp.wire = <<>>
  BY SslBounds DEF Init, Tcp
<1>3. inbox \in Seq(Units) /\ buffer \in Seq(Nat) /\ handed \in Seq(Nat) /\ accepted \in Nat
      /\ buffer = <<>> /\ accepted = 0
  BY DEF Init
<1>4. Booked(ssl, tcp, buffer, accepted)
  BY <1>1, <1>2, <1>3 DEF Booked
<1> QED BY <1>1, <1>2, <1>3, <1>4 DEF Inv, Typed, Unopened

\* The data of a send is what follows the bytes accepted so far.
LEMMA SendInv ==
  ASSUME Inv, NEW n \in 1..MaxOut, NEW gather \in BOOLEAN, Send(n, gather)
  PROVE  Inv'
<1> USE SslBounds
<1>0. PICK data : data = [i \in 1..n |-> accepted + i]
  OBVIOUS
<1>1. PICK f, w : /\ f = Flush(ssl, tcp)
                  /\ w = IF gather THEN Writev(f.s, f.t, SubSeq(data, 1, 1), Rest(data, 1))
                         ELSE Write(f.s, f.t, data)
  OBVIOUS
<1>2. /\ ssl \in Ssl /\ tcp \in Tcp /\ inbox \in Seq(Units) /\ buffer \in Seq(Nat)
      /\ accepted \in Nat /\ handed \in Seq(Nat) /\ n \in Nat /\ n > 0
  BY DEF Inv, Typed
<1>3. data \in Seq(Nat) /\ Len(data) = n /\ data # <<>> /\ Behind(accepted, data)
  <2>1. PICK a \in Nat : a = accepted
    BY <1>2
  <2>2. data = [i \in 1..n |-> a + i] /\ n \in Nat /\ n > 0
    BY <1>0, <1>2, <2>1
  <2>3. data \in Seq(Nat)
    BY <2>2
  <2>4. Len(data) = n
    BY <2>2
  <2>5. \A i \in 1..n : data[i] = a + i
    BY <2>2
  <2> QED BY <2>1, <2>2, <2>3, <2>4, <2>5 DEF Behind
<1>4. /\ f \in Result /\ f.t.state = tcp.state /\ (f.ret < 0 => Broke(f))
      /\ Left(f.ret) \in Seq(Nat) /\ Booked(f.s, f.t, Left(f.ret), accepted)
  BY <1>1, <1>2, FlushResult
<1>5. f.s \in Ssl /\ f.t \in Tcp
  BY <1>4 DEF Result
<1>6. tcp.state = "open" /\ inbox' = inbox /\ handed' = handed
  BY DEF Send
<1>7. CASE /\ f.ret < 0 /\ ssl' = f.s /\ tcp' = f.t /\ UNCHANGED connVars
  <2>1. Booked(ssl', tcp', buffer', accepted')
    BY <1>2, <1>4, <1>7, BrokeIsBooked DEF connVars
  <2> QED BY <1>2, <1>4, <1>5, <1>6, <1>7, <2>1, InvFollows DEF connVars
<1>8. CASE /\ ssl' = f.s /\ tcp' = f.t /\ buffer' = Left(f.ret) /\ accepted' = accepted
  BY <1>2, <1>4, <1>5, <1>6, <1>8, InvFollows
<1>9. CASE /\ Left(f.ret) = <<>> /\ ssl' = w.s /\ tcp' = w.t
           /\ IF w.ret > 0 \/ (w.ret = 0 /\ gather)
              THEN buffer' = Rest(data, w.ret) /\ accepted' = accepted + n
              ELSE buffer' = <<>> /\ UNCHANGED accepted
  <2>1. Booked(f.s, f.t, <<>>, accepted) /\ f.t.wire \in Seq(Nat) /\ Len(f.t.wire) \in Nat
    BY <1>4, <1>5, <1>9, LenProperties DEF Tcp
  <2>2. f.s.there => f.t.live /\ Base(f.s, f.t) = accepted
    <3>1. Len(<<>>) = 0 /\ f.s.ahead \in Nat
      BY <1>5 DEF Ssl
    <3> QED BY <1>2, <2>1, <3>1 DEF Booked, Base
  <2>3. Ready(f.s, f.t, data)
    BY <1>3, <1>5, <2>1, <2>2 DEF Ready, Booked
  <2>4. /\ w \in Result /\ w.t.state = f.t.state
        /\ Broke(w) \/ (f.s.there /\ Went(w, Base(f.s, f.t), Len(data)))
    <3>1. CASE gather
      BY <1>1, <2>3, <3>1, WritevResult
    <3>2. CASE ~gather
      BY <1>1, <2>3, <3>2, WriteResult
    <3> QED BY <3>1, <3>2
  <2>5. w.s \in Ssl /\ w.t \in Tcp /\ w.t.state = "open" /\ w.ret \in Int
    BY <1>4, <1>6, <2>4 DEF Result
  <2>6. CASE Broke(w)
    <3>1. buffer' = <<>> /\ accepted' = accepted
      BY <1>9, <2>6 DEF Broke
    <3>2. <<>> \in Seq(Nat)
      OBVIOUS
    <3>3. Booked(w.s, w.t, <<>>, accepted)
      BY <2>6, <3>2, BrokeIsBooked
    <3> QED BY <1>2, <1>6, <1>9, <2>5, <3>1, <3>2, <3>3, InvFollows
  <2>7. CASE f.s.there /\ Went(w, Base(f.s, f.t), Len(data))
    <3>1. Went(w, accepted, Len(data))
      BY <2>2, <2>7
    <3>2. /\ Rest(data, w.ret) \in Seq(Nat)
          /\ Booked(w.s, w.t, Rest(data, w.ret), accepted + Len(data))
      BY <1>2, <1>3, <2>4, <3>1, RestIsBooked
    <3>3. CASE w.ret > 0 \/ (w.ret = 0 /\ gather)
      <4>1. buffer' = Rest(data, w.ret) /\ accepted' = accepted + n
        BY <1>9, <3>3
      <4>2. accepted + n \in Nat
        BY <1>2
      <4> QED BY <1>2, <1>3, <1>6, <1>9, <2>5, <3>2, <4>1, <4>2, InvFollows
    <3>4. CASE ~(w.ret > 0 \/ (w.ret = 0 /\ gather))
      <4>1. buffer' = <<>> /\ accepted' = accepted
        BY <1>9, <3>4
      <4>2. w.ret = 0
        BY <2>5, <3>1, <3>4 DEF Went
      <4>3. Booked(w.s, w.t, <<>>, accepted)
        <5>1. PICK m \in Nat, v \in Nat : m = w.s.ahead /\ v = Len(w.t.wire)
          <6>1. w.s.ahead \in Nat /\ Len(w.t.wire) \in Nat
            BY <2>5, LenProperties DEF Ssl, Tcp
          <6> QED BY <6>1
        <5>2. PICK x \in Nat : x = accepted /\ v = x + 0 + m
          BY <1>2, <3>1, <4>2, <5>1 DEF Went
        <5>3. v - m = x /\ m <= v
          BY <5>2
        <5>5. Base(w.s, w.t) = accepted /\ w.s.ahead <= Len(w.t.wire)
          BY <5>1, <5>2, <5>3 DEF Base
        <5>4. accepted + 0 = accepted /\ Len(<<>>) = 0
          BY <1>2
        <5> QED BY <1>2, <3>1, <5>5, <5>4, Empty DEF Went, Booked
      <4>4. <<>> \in Seq(Nat)
        OBVIOUS
      <4> QED BY <1>2, <1>6, <1>9, <2>5, <4>1, <4>3, <4>4, InvFollows
    <3> QED BY <3>3, <3>4
  <2> QED BY <2>4, <2>6, <2>7
<1>10. \/ f.ret < 0 /\ ssl' = f.s /\ tcp' = f.t /\ UNCHANGED connVars
       \/ ssl' = f.s /\ tcp' = f.t /\ buffer' = Left(f.ret) /\ accepted' = accepted
       \/ /\ Left(f.ret) = <<>> /\ ssl' = w.s /\ tcp' = w.t
          /\ IF w.ret > 0 \/ (w.ret = 0 /\ gather)
             THEN buffer' = Rest(data, w.ret) /\ accepted' = accepted + n
             ELSE buffer' = <<>> /\ UNCHANGED accepted
  BY <1>0, <1>1, Zenon DEF Send
<1> QED BY <1>7, <1>8, <1>9, <1>10

\* A clean-up leaves nothing to keep books of.
LEMMA CleanUpKeeps ==
  ASSUME Inv, CleanUp
  PROVE  /\ ssl' \in Ssl /\ tcp' \in Tcp /\ tcp'.state = tcp.state
         /\ tcp'.wire = tcp.wire /\ ~ssl'.there /\ ssl'.ahead = ssl.ahead
         /\ Booked(ssl', tcp', buffer, accepted)
<1>1. ssl \in Ssl /\ tcp \in Tcp /\ buffer \in Seq(Nat)
  BY DEF Inv, Typed
<1>2. ssl' \in Ssl /\ ~ssl'.there /\ ssl'.held = <<>> /\ ssl'.ahead = ssl.ahead
  BY <1>1, SslFields DEF CleanUp
<1>3. tcp' \in Tcp /\ ~tcp'.live /\ tcp'.state = tcp.state /\ tcp'.wire = tcp.wire
  BY <1>1 DEF CleanUp, Cleaned, Tcp
<1>4. Len(buffer) \in Nat /\ Len(<<>>) = 0
  BY <1>1, LenProperties
<1>5. Booked(ssl', tcp', buffer, accepted)
  BY <1>2, <1>3, <1>4 DEF Booked
<1> QED BY <1>2, <1>3, <1>5

\* A step of the handshake keeps the books.
LEMMA ShakeInv ==
  ASSUME Inv, NEW s \in Ssl, s.held = ssl.held, s.ahead = ssl.ahead, s.there => tcp.live,
         ssl.there => s.there, s.there => ssl.there \/ (buffer = <<>> /\ s.ahead = 0),
         NEW t \in Tcp, t.wire = tcp.wire, t.live = tcp.live, t.state = "open",
         NEW r, r = DoSslHandshake(s, t, inbox), ssl' = r.s, tcp' = r.t, inbox' = r.in,
         UNCHANGED <<connVars, handed>>
  PROVE  Inv'
<1>1. inbox \in Seq(Units) /\ buffer \in Seq(Nat) /\ accepted \in Nat /\ handed \in Seq(Nat)
      /\ Booked(ssl, tcp, buffer, accepted)
  BY DEF Inv, Typed
<1>2. /\ r \in Lib /\ r.t.wire = t.wire /\ r.t.live = t.live /\ r.t.state = t.state
      /\ (r.s.there = s.there /\ r.s.held = s.held) \/ (~r.s.there /\ r.s.held = <<>>)
      /\ r.s.ahead = s.ahead
  BY <1>1, HandshakeKeeps
<1>3. r.s \in Ssl /\ r.t \in Tcp /\ r.in \in Seq(Units)
  BY <1>2 DEF Lib
<1>4. Booked(r.s, r.t, buffer, accepted)
  <2>1. CASE r.s.there = s.there /\ r.s.held = s.held
    <3>1. r.s.held # <<>> => r.s.there
      BY <1>1, <2>1 DEF Booked
    <3>2. r.s.there => r.t.live
      BY <1>2, <2>1
    <3> QED BY <1>1, <1>2, <2>1, <3>1, <3>2 DEF Booked, Base
  <2>2. CASE ~r.s.there /\ r.s.held = <<>>
    <3>1. Len(buffer) \in Nat /\ Len(<<>>) = 0
      BY <1>1, LenProperties
    <3> QED BY <1>1, <1>2, <2>2, <3>1, Empty DEF Booked, Base
  <2> QED BY <1>2, <2>1, <2>2
<1> QED BY <1>1, <1>2, <1>3, <1>4, InvFollows DEF connVars

LEMMA ConnectInv ==
  ASSUME Inv, (\E fails \in BOOLEAN : Connect(fails)) \/ AttachFd
  PROVE  Inv'
<1>1. /\ tcp.state = "idle" /\ tcp'.live = TRUE /\ tcp'.wire = tcp.wire /\ tcp' \in Tcp
      /\ UNCHANGED <<ssl, inbox, connVars, handed>>
  BY DEF Connect, AttachFd, Inv, Typed, Tcp, histVars
<1>2. /\ tcp.wire = <<>> /\ buffer = <<>> /\ accepted = 0 /\ ~ssl.there /\ ssl.held = <<>>
      /\ ssl.ahead = 0
  BY <1>1 DEF Inv, Unopened, Booked
<1>3. Booked(ssl', tcp', buffer', accepted')
  <2>1. Len(<<>>) = 0 /\ 0 + 0 = 0 /\ 0 - 0 = 0 /\ 0 <= 0
    OBVIOUS
  <2> QED BY <1>1, <1>2, <2>1, Empty DEF Booked, Base, connVars
<1> QED BY <1>1, <1>2, <1>3 DEF Inv, Typed, Unopened, connVars

LEMMA ConnectEventInv ==
  ASSUME Inv, NEW ok \in BOOLEAN, NEW noSsl \in BOOLEAN, ConnectEvent(ok, noSsl)
  PROVE  Inv'
<1>0. PICK new, open : new = [ssl EXCEPT !.there = TRUE] /\ open = [tcp EXCEPT !.state = "open"]
  OBVIOUS
<1>1. PICK r : r = DoSslHandshake(new, open, inbox)
  OBVIOUS
<1>2. /\ ssl \in Ssl /\ tcp \in Tcp /\ inbox \in Seq(Units) /\ buffer \in Seq(Nat)
      /\ accepted \in Nat /\ handed \in Seq(Nat) /\ Booked(ssl, tcp, buffer, accepted)
  BY DEF Inv, Typed
<1>3. /\ tcp.live /\ tcp.state = "connecting" /\ UNCHANGED <<connVars, handed>>
      /\ ssl.held = <<>> /\ ~ssl.there /\ buffer = <<>> /\ ssl.ahead = 0
  BY DEF ConnectEvent, Inv, Unopened, Booked
<1>4. new \in Ssl /\ new.held = ssl.held /\ new.there = TRUE /\ new.ahead = ssl.ahead
  <2>1. TRUE \in BOOLEAN
    OBVIOUS
  <2> QED BY <1>0, <1>2, <2>1 DEF Ssl
<1>5. open \in Tcp /\ open.wire = tcp.wire /\ open.live = tcp.live /\ open.state = "open"
  BY <1>0, <1>2 DEF Tcp
<1>6. CASE tcp' = Cleaned([tcp EXCEPT !.state = "closed"]) /\ UNCHANGED <<ssl, inbox>>
  <2>1. tcp' \in Tcp /\ ~tcp'.live /\ tcp'.state = "closed"
    BY <1>2, <1>6 DEF Cleaned, Tcp
  <2>2. Len(buffer) \in Nat /\ Len(<<>>) = 0
    BY <1>2, LenProperties
  <2>3. Booked(ssl', tcp', buffer', accepted')
    BY <1>3, <1>6, <2>1, <2>2 DEF Booked, connVars
  <2> QED BY <1>2, <1>3, <1>6, <2>1, <2>3, InvFollows DEF connVars
<1>7. CASE tcp' = open /\ UNCHANGED <<ssl, inbox>>
  <2>1. Booked(ssl', tcp', buffer', accepted')
    BY <1>2, <1>3, <1>5, <1>7 DEF Booked, Base, connVars
  <2> QED BY <1>2, <1>3, <1>5, <1>7, <2>1, InvFollows DEF connVars
<1>8. CASE ssl' = r.s /\ tcp' = r.t /\ inbox' = r.in
  BY <1>1, <1>3, <1>4, <1>5, <1>8, ShakeInv
<1>9. \/ tcp' = Cleaned([tcp EXCEPT !.state = "closed"]) /\ UNCHANGED <<ssl, inbox>>
      \/ tcp' = open /\ UNCHANGED <<ssl, inbox>>
      \/ ssl' = r.s /\ tcp' = r.t /\ inbox' = r.in
  BY <1>0, <1>1, Zenon DEF ConnectEvent
<1> QED BY <1>6, <1>7, <1>8, <1>9

LEMMA CloseInv ==
  ASSUME Inv, CleanUp, UNCHANGED <<inbox, connVars, handed>>
  PROVE  Inv'
<1>1. /\ ssl' \in Ssl /\ tcp' \in Tcp /\ tcp'.state = tcp.state /\ tcp'.wire = tcp.wire
      /\ ~ssl'.there /\ ssl'.ahead = ssl.ahead /\ Booked(ssl', tcp', buffer, accepted)
  BY CleanUpKeeps
<1> QED BY <1>1 DEF Inv, Typed, Unopened, connVars

LEMMA WriteEventInv ==
  ASSUME Inv, WriteEvent
  PROVE  Inv'
<1>0. PICK t, f : t = [tcp EXCEPT !.suspended = TRUE] /\ f = Flush(ssl, t)
  OBVIOUS
<1>1. /\ ssl \in Ssl /\ tcp \in Tcp /\ inbox \in Seq(Units) /\ buffer \in Seq(Nat)
      /\ accepted \in Nat /\ handed \in Seq(Nat) /\ Booked(ssl, tcp, buffer, accepted)
  BY DEF Inv, Typed
<1>2. tcp.state = "open" /\ accepted' = accepted /\ handed' = handed
  BY DEF WriteEvent
<1>3. t \in Tcp /\ t.wire = tcp.wire /\ t.live = tcp.live /\ t.state = tcp.state
  <2>1. TRUE \in BOOLEAN
    OBVIOUS
  <2> QED BY <1>0, <1>1, <2>1 DEF Tcp
<1>4. CASE CheckSslState(t) /\ UNCHANGED buffer
  <2>1. PICK r : r = DoSslHandshake(ssl, t, inbox) /\ ssl' = r.s /\ tcp' = r.t /\ inbox' = r.in
    BY <1>4, Zenon DEF CheckSslState
  <2>2. ssl.there => tcp.live
    BY <1>1 DEF Booked
  <2> QED BY <1>1, <1>2, <1>3, <1>4, <2>1, <2>2, ShakeInv DEF connVars
<1>5. CASE ssl' = f.s /\ tcp' = f.t /\ buffer' = Left(f.ret) /\ UNCHANGED inbox
  <2>1. /\ f \in Result /\ f.t.state = tcp.state
        /\ Left(f.ret) \in Seq(Nat) /\ Booked(f.s, f.t, Left(f.ret), accepted)
    BY <1>0, <1>3, FlushResult
  <2>2. f.s \in Ssl /\ f.t \in Tcp
    BY <2>1 DEF Result
  <2> QED BY <1>1, <1>2, <1>5, <2>1, <2>2, InvFollows
<1>6. \/ CheckSslState(t) /\ UNCHANGED buffer
      \/ ssl' = f.s /\ tcp' = f.t /\ buffer' = Left(f.ret) /\ UNCHANGED inbox
  BY <1>0, Zenon DEF WriteEvent
<1> QED BY <1>4, <1>5, <1>6

\* Steps that leave what is sent alone.
LEMMA StillBooked ==
  ASSUME Inv, ssl' \in Ssl, tcp' \in Tcp, inbox' \in Seq(Units), handed' \in Seq(Nat),
         ssl'.held = ssl.held, ssl'.there = ssl.there, ssl'.ahead = ssl.ahead,
         tcp'.wire = tcp.wire,
         tcp'.live = tcp.live, tcp'.state = tcp.state, UNCHANGED connVars
  PROVE  Inv'
BY DEF Inv, Typed, Booked, Base, Unopened, connVars

LEMMA ReadEventInv ==
  ASSUME Inv, ReadEvent
  PROVE  Inv'
<1>1. /\ ssl \in Ssl /\ tcp \in Tcp /\ inbox \in Seq(Units) /\ handed \in Seq(Nat)
      /\ Booked(ssl, tcp, buffer, accepted)
  BY DEF Inv, Typed
<1>2. tcp.state = "open" /\ UNCHANGED <<connVars, handed>>
  BY DEF ReadEvent
<1>3. CASE Ends /\ UNCHANGED inbox
  BY <1>2, <1>3, CloseInv DEF Ends
<1>4. CASE CheckSslState(tcp)
  <2>1. PICK r : r = DoSslHandshake(ssl, tcp, inbox) /\ ssl' = r.s /\ tcp' = r.t /\ inbox' = r.in
    BY <1>4, Zenon DEF CheckSslState
  <2>2. ssl.there => tcp.live
    BY <1>1 DEF Booked
  <2> QED BY <1>1, <1>2, <2>1, <2>2, ShakeInv
<1>5. CASE UNCHANGED <<ssl, tcp, inbox>>
  BY <1>1, <1>2, <1>5, StillBooked
<1> QED BY <1>3, <1>4, <1>5 DEF ReadEvent

LEMMA HandOverInv ==
  ASSUME Inv, NEW plain \in Seq(Nat), plain # <<>>, HandOver(plain), inbox' \in Seq(Units),
         UNCHANGED connVars
  PROVE  Inv'
<1>1. ssl \in Ssl /\ tcp \in Tcp /\ handed \in Seq(Nat)
  BY DEF Inv, Typed
<1>2. Tail(plain) \in Seq(Nat) /\ Head(plain) \in Nat
  OBVIOUS
<1>3. PICK q \in Seq(Nat) : q = Tail(plain)
  BY <1>2
<1>4. ssl' = [ssl EXCEPT !.plain = q] /\ tcp' = tcp /\ handed' = Append(handed, Head(plain))
  BY <1>3 DEF HandOver
<1>5. ssl' \in Ssl /\ ssl'.held = ssl.held /\ ssl'.there = ssl.there /\ ssl'.ahead = ssl.ahead
  BY <1>1, <1>4 DEF Ssl
<1>6. handed' \in Seq(Nat)
  BY <1>1, <1>2, <1>4
<1> QED BY <1>1, <1>4, <1>5, <1>6, StillBooked

LEMMA ReadChunkInv ==
  ASSUME Inv, NEW mayEnd \in BOOLEAN, ReadChunk(mayEnd)
  PROVE  Inv'
<1>1. /\ ssl \in Ssl /\ tcp \in Tcp /\ inbox \in Seq(Units) /\ handed \in Seq(Nat)
      /\ ssl.plain \in Seq(Nat)
  BY DEF Inv, Typed, Ssl
<1>2. UNCHANGED connVars
  BY DEF ReadChunk
<1>3. CASE ssl.plain # <<>> /\ HandOver(ssl.plain) /\ UNCHANGED inbox
  BY <1>1, <1>2, <1>3, HandOverInv
<1>4. CASE inbox # <<>> /\ HandOver([i \in 1..RecSize |-> Len(handed) + i]) /\ inbox' = Tail(inbox)
  <2>1. PICK m \in Nat, k \in Nat : m = Len(handed) /\ k = RecSize /\ k > 0
    <3>1. Len(handed) \in Nat
      BY <1>1, LenProperties
    <3> QED BY <3>1, SslBounds
  <2>2. PICK plain : plain = [i \in 1..k |-> m + i]
    OBVIOUS
  <2>3. plain \in Seq(Nat) /\ Len(plain) = k /\ plain # <<>>
    BY <2>1, <2>2
  <2>4. HandOver(plain)
    BY <1>4, <2>1, <2>2
  <2>5. inbox' \in Seq(Units)
    BY <1>1, <1>4
  <2> QED BY <1>2, <2>3, <2>4, <2>5, HandOverInv
<1>5. CASE UNCHANGED <<ssl, tcp, inbox, handed>>
  BY <1>1, <1>2, <1>5, StillBooked
<1>6. CASE Ends /\ UNCHANGED <<inbox, handed>>
  BY <1>2, <1>6, CloseInv DEF Ends
<1> QED BY <1>3, <1>4, <1>5, <1>6 DEF ReadChunk

\* The kernel and the peer move input, and room.
LEMMA PeerInv ==
  ASSUME Inv, Answer \/ Hello \/ Data \/ PeerLeaves \/ Drain
  PROVE  Inv'
<1>1. /\ ssl \in Ssl /\ tcp \in Tcp /\ inbox \in Seq(Units) /\ handed \in Seq(Nat)
  BY DEF Inv, Typed
<1>2. ASSUME NEW unit \in Units, Arrives(<<unit>>)
      PROVE  Inv'
  <2>1. inbox' = inbox \o <<unit>> /\ UNCHANGED <<tcp, ssl, connVars, handed>>
    BY <1>2 DEF Arrives, histVars
  <2>2. inbox' \in Seq(Units)
    BY <1>1, <2>1
  <2> QED BY <1>1, <2>1, <2>2, StillBooked
<1>3. CASE Answer \/ Hello \/ Data
  BY <1>2, <1>3 DEF Answer, Hello, Data, Units
<1>4. CASE PeerLeaves
  <2>1. inbox' \in {inbox, Append(inbox, "notify"), <<>>}
        /\ UNCHANGED <<tcp, ssl, connVars, handed>>
    BY <1>4 DEF PeerLeaves, histVars
  <2>2. Append(inbox, "notify") \in Seq(Units) /\ <<>> \in Seq(Units)
    BY <1>1 DEF Units
  <2>3. inbox' \in Seq(Units)
    BY <1>1, <2>1, <2>2
  <2> QED BY <1>1, <2>1, <2>3, StillBooked
<1>5. CASE Drain
  <2>1. tcp' = [tcp EXCEPT !.room = @ + 1] /\ UNCHANGED <<ssl, inbox, connVars, handed>>
    BY <1>5 DEF Drain, histVars
  <2>2. tcp' \in Tcp /\ tcp'.wire = tcp.wire /\ tcp'.live = tcp.live /\ tcp'.state = tcp.state
    BY <1>1, <2>1, SMTT(60) DEF Tcp
  <2> QED BY <1>1, <2>1, <2>2, StillBooked
<1> QED BY <1>3, <1>4, <1>5

-----------------------------------------------------------------------------
(* The theorems. *)

\* The inductive invariant holds of every reachable state, whatever the kernel and the
\* library take of a write (SslSocket.write, SslHandler.send).
THEOREM Invariance == Spec => []Inv
<1>1. Init => Inv
  BY InitInv
<1>2. Inv /\ [Next]_vars => Inv'
  <2> SUFFICES ASSUME Inv, [Next]_vars PROVE Inv'
    OBVIOUS
  <2>1. CASE App
    <3>1. CASE Close
      BY <3>1, CloseInv DEF Close
    <3> QED BY <2>1, <3>1, SendInv, ConnectInv DEF App
  <2>2. CASE Connecting
    BY <2>2, ConnectEventInv DEF Connecting
  <2>3. CASE WriteEvent \/ ReadEvent
    BY <2>3, WriteEventInv, ReadEventInv
  <2>4. CASE Reading
    <3>1. CASE ReadStops
      <4>1. UNCHANGED <<ssl, tcp, inbox, connVars, handed>>
        BY <3>1 DEF ReadStops, histVars
      <4> QED BY <4>1, StillBooked DEF Inv, Typed
    <3> QED BY <2>4, <3>1, ReadChunkInv DEF Reading
  <2>5. CASE Answer \/ Hello \/ Data \/ PeerLeaves \/ Drain
    BY <2>5, PeerInv
  <2>6. CASE UNCHANGED vars
    <3>1. UNCHANGED <<ssl, tcp, inbox, connVars, handed>>
      BY <2>6 DEF vars, histVars
    <3> QED BY <3>1, StillBooked DEF Inv, Typed
  <2> QED BY <2>1, <2>2, <2>3, <2>4, <2>5, <2>6 DEF Next
<1> QED BY <1>1, <1>2, PTL DEF Spec

\* What was reported as sent is on the wire or in the buffer, once and in order, and the
\* record held back is what the library is given next (send, sendBufferedData): for
\* every size of the records, every room and every split of a send in two.
THEOREM NothingLostOverTls == Spec => []WireIntact
<1>1. Inv => WireIntact
  <2> SUFFICES ASSUME Inv PROVE WireIntact
    OBVIOUS
  <2>1. /\ tcp.wire \in Seq(Nat) /\ buffer \in Seq(Nat) /\ ssl.held \in Seq(Nat)
        /\ accepted \in Nat /\ Booked(ssl, tcp, buffer, accepted)
    BY DEF Inv, Typed, Tcp, Ssl
  <2>2. PICK b \in Nat, n \in Nat, h \in Nat, a \in Nat :
          b = Len(tcp.wire) /\ n = Len(buffer) /\ h = Len(ssl.held) /\ a = ssl.ahead
    <3>1. /\ Len(tcp.wire) \in Nat /\ Len(buffer) \in Nat /\ Len(ssl.held) \in Nat
          /\ ssl.ahead \in Nat
      BY <2>1, LenProperties DEF Inv, Typed, Ssl
    <3> QED BY <3>1
  <2>3. ASSUME tcp.live
        PROVE  tcp.wire = Upto(Len(tcp.wire)) /\ Upto(Len(tcp.wire) - ssl.ahead) \o buffer = Upto(accepted)
    <3>1. PICK d \in Nat : d = b - a /\ Behind(0, tcp.wire) /\ Behind(d, buffer) /\ d + n = accepted
      <4>1. /\ Base(ssl, tcp) = b - a /\ a <= b /\ Behind(0, tcp.wire)
            /\ Behind(Base(ssl, tcp), buffer) /\ Base(ssl, tcp) + Len(buffer) = accepted
        BY <2>1, <2>2, <2>3 DEF Booked, Base
      <4>2. b - a \in Nat
        BY <4>1
      <4> QED BY <2>2, <4>1, <4>2
    <3>2. tcp.wire = Upto(b)
      <4>1. Upto(b) \in Seq(Nat) /\ Behind(0, Upto(b)) /\ Len(Upto(b)) = b
        BY NumbersBehind
      <4> QED BY <2>1, <2>2, <3>1, <4>1, SameBytes
    <3>3. PICK pre \in Seq(Nat) : pre = Upto(d) /\ Behind(0, pre) /\ Len(pre) = d
      BY NumbersBehind
    <3>4. 0 \in Nat /\ Behind(0 + Len(pre), buffer)
      BY <3>1, <3>3
    <3>5. /\ pre \o buffer \in Seq(Nat) /\ Behind(0, pre \o buffer)
          /\ Len(pre \o buffer) = Len(pre) + Len(buffer)
      BY <2>1, <3>3, <3>4, Joined
    <3>6. Upto(accepted) \in Seq(Nat) /\ Len(Upto(accepted)) = accepted
          /\ Behind(0, Upto(accepted))
      BY <2>1, NumbersBehind
    <3>7. PICK whole : whole = pre \o buffer
      OBVIOUS
    <3>8. whole \in Seq(Nat) /\ Behind(0, whole) /\ Len(whole) = Len(Upto(accepted))
      BY <2>2, <3>1, <3>3, <3>5, <3>6, <3>7
    <3>9. whole = Upto(accepted)
      BY <3>6, <3>8, SameBytes
    <3> QED BY <2>2, <3>1, <3>2, <3>3, <3>7, <3>9
  <2>4. ASSUME ssl.held # <<>>, buffer # <<>>
        PROVE  /\ ssl.ahead + Len(ssl.held) <= Len(buffer)
               /\ ssl.held = SubSeq(buffer, ssl.ahead + 1, ssl.ahead + Len(ssl.held))
    <3>1. PICK d \in Nat : d + a = b /\ Behind(b, ssl.held) /\ Behind(d, buffer) /\ a + h <= n
      <4>1. /\ a <= b /\ Behind(b, ssl.held) /\ Behind(Base(ssl, tcp), buffer)
            /\ a + h <= n /\ Base(ssl, tcp) = b - a
        BY <2>1, <2>2, <2>4 DEF Booked, Base
      <4>2. b - a \in Nat /\ (b - a) + a = b
        BY <4>1
      <4> QED BY <4>1, <4>2
    <3>2. a + h \in 0..Len(buffer)
      BY <2>2, <3>1
    <3>3. /\ SubSeq(buffer, a + 1, a + h) \in Seq(Nat)
          /\ Behind(d + a, SubSeq(buffer, a + 1, a + h))
          /\ Len(SubSeq(buffer, a + 1, a + h)) = IF a <= a + h THEN (a + h) - a ELSE 0
      BY <2>1, <3>1, <3>2, Piece
    <3>4. PICK p : p = SubSeq(buffer, a + 1, a + h)
      OBVIOUS
    <3>5. p \in Seq(Nat) /\ Behind(b, p) /\ Len(p) = Len(ssl.held)
      <4>1. a <= a + h /\ (a + h) - a = h
        OBVIOUS
      <4> QED BY <2>2, <3>1, <3>3, <3>4, <4>1
    <3>6. ssl.held = p
      BY <2>1, <3>1, <3>5, SameBytes
    <3> QED BY <2>2, <3>1, <3>4, <3>6
  <2> QED BY <2>3, <2>4 DEF WireIntact
<1> QED BY <1>1, Invariance, PTL
=============================================================================
