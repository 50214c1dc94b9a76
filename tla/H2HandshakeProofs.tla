------------------------- MODULE H2HandshakeProofs -------------------------
(***************************************************************************)
(* Proofs about H2Handshake for every capacity of the network and every    *)
(* set of requests.                                                        *)
(*                                                                         *)
(* The inductive invariant is Inv.  HandshakeGoesOn and OpenMeansExchanged *)
(* are not inductive by themselves: that the peer has sent the SETTINGS    *)
(* that an end receives is known only of everything under way (Sourced),   *)
(* and that the buffer of an open end holds no SETTINGS only because       *)
(* nothing but requests is in it (EndSound).  WireInOrder needs the place  *)
(* of every unit in what an end sent, which its state tells (Wired).       *)
(***************************************************************************)
EXTENDS H2Handshake, SequenceTheorems, FiniteSetTheorems, TLAPS

-----------------------------------------------------------------------------
(* The inductive invariant. *)

PipesFit == \A e \in Ends : Len(pipe[e]) <= Cap

\* Nothing is under way that was not sent.
Sourced == \A e \in Ends :
  /\ Range(buffer[e]) \subseteq Range(wire[e])
  /\ Range(pipe[Other(e)]) \subseteq Range(wire[e])

\* What the state of an end says of the two SETTINGS, of its buffer and its socket.
EndSound(e) ==
  /\ state[e] \in {"idle", "connecting", "upgrading"} => ~prefaceReceived[e]
  /\ prefaceReceived[e] =>
       "settings" \in Range(wire[Other(e)]) /\ (e = "server" => cmpPreface = <<>>)
  /\ state[e] \in {"handshake", "open"} => "settings" \in Range(wire[e])
  /\ state[e] = "open" => prefaceReceived[e] /\ Range(buffer[e]) \subseteq {"headers"}
  /\ e = "server" /\ state[e] # "idle" => sock[e] # "none"
  /\ Connected(e) /\ state[e] = "handshake" /\ prefaceReceived[e]
       => buffer[e] # <<>> /\ ~suspended[e]

Inv == TypeOK /\ PipesFit /\ Sourced /\ \A e \in Ends : EndSound(e)

-----------------------------------------------------------------------------
(* Sequences of units. *)

LEMMA EndsFacts ==
  /\ Ends = {"client", "server"}
  /\ \A e \in Ends : Other(e) \in Ends /\ Other(e) # e /\ Other(Other(e)) = e
BY DEF Ends, Other

LEMMA TailFacts ==
  ASSUME NEW s \in Seq(Units), s # <<>>
  PROVE  /\ Head(s) \in Range(s) /\ Head(s) \in Units
         /\ Tail(s) \in Seq(Units) /\ Len(Tail(s)) = Len(s) - 1
         /\ Range(Tail(s)) \subseteq Range(s)
<1>1. /\ Head(s) = s[1] /\ Head(s) \in Units /\ Tail(s) \in Seq(Units)
      /\ Len(Tail(s)) = Len(s) - 1 /\ Len(s) \in Nat /\ Len(s) > 0
      /\ \A i \in 1..Len(Tail(s)) : Tail(s)[i] = s[i + 1]
  BY HeadTailProperties, EmptySeq, LenProperties
<1>2. /\ Range(s) = {s[i] : i \in 1..Len(s)}
      /\ Range(Tail(s)) = {Tail(s)[i] : i \in 1..Len(Tail(s))}
  BY <1>1, RangeEquality
<1>3. Range(Tail(s)) \subseteq Range(s)
  <2>1. \A i \in 1..Len(Tail(s)) : i + 1 \in 1..Len(s) /\ Tail(s)[i] = s[i + 1]
    BY <1>1
  <2> QED BY <1>2, <2>1
<1>4. Head(s) \in Range(s)
  BY <1>1, <1>2
<1> QED BY <1>1, <1>3, <1>4

\* What is taken from the front of a sequence and what stays.
LEMMA CutFacts ==
  ASSUME NEW s \in Seq(Units), NEW n \in 0..Len(s)
  PROVE  /\ SubSeq(s, 1, n) \in Seq(Units) /\ Len(SubSeq(s, 1, n)) = n
         /\ SubSeq(s, n + 1, Len(s)) \in Seq(Units)
         /\ Len(SubSeq(s, n + 1, Len(s))) = Len(s) - n
         /\ \A i \in 1..(Len(s) - n) : SubSeq(s, n + 1, Len(s))[i] = s[n + i]
         /\ Range(SubSeq(s, 1, n)) \subseteq Range(s)
         /\ Range(SubSeq(s, n + 1, Len(s))) \subseteq Range(s)
<1>1. Len(s) \in Nat /\ n \in Nat /\ n <= Len(s) /\ \A i \in 1..Len(s) : s[i] \in Units
  BY LenProperties, ElementOfSeq
<1>2. /\ SubSeq(s, 1, n) \in Seq(Units) /\ Len(SubSeq(s, 1, n)) = n
      /\ \A i \in 1..n : SubSeq(s, 1, n)[i] = s[i]
  <2>1. \A i \in 1..n : s[i] \in Units
    BY <1>1
  <2>2. /\ SubSeq(s, 1, n) \in Seq(Units)
        /\ Len(SubSeq(s, 1, n)) = IF 1 <= n THEN n - 1 + 1 ELSE 0
        /\ \A i \in 1..(n - 1 + 1) : SubSeq(s, 1, n)[i] = s[1 + i - 1]
    BY <1>1, <2>1, SubSeqProperties
  <2> QED BY <1>1, <2>2
<1>3. /\ SubSeq(s, n + 1, Len(s)) \in Seq(Units)
      /\ Len(SubSeq(s, n + 1, Len(s))) = Len(s) - n
      /\ \A i \in 1..(Len(s) - n) : SubSeq(s, n + 1, Len(s))[i] = s[n + i]
  <2>1. \A i \in (n + 1)..Len(s) : s[i] \in Units
    BY <1>1
  <2>2. /\ SubSeq(s, n + 1, Len(s)) \in Seq(Units)
        /\ Len(SubSeq(s, n + 1, Len(s))) = IF n + 1 <= Len(s) THEN Len(s) - (n + 1) + 1 ELSE 0
        /\ \A i \in 1..(Len(s) - (n + 1) + 1) :
              SubSeq(s, n + 1, Len(s))[i] = s[(n + 1) + i - 1]
    BY <1>1, <2>1, SubSeqProperties
  <2> QED BY <1>1, <2>2
<1>4. Range(s) = {s[i] : i \in 1..Len(s)}
  BY RangeEquality
<1>5. Range(SubSeq(s, 1, n)) \subseteq Range(s)
  <2>1. Range(SubSeq(s, 1, n)) = {SubSeq(s, 1, n)[i] : i \in 1..n}
    BY <1>2, RangeEquality
  <2> QED BY <1>1, <1>2, <1>4, <2>1
<1>6. Range(SubSeq(s, n + 1, Len(s))) \subseteq Range(s)
  <2>1. Range(SubSeq(s, n + 1, Len(s)))
          = {SubSeq(s, n + 1, Len(s))[i] : i \in 1..(Len(s) - n)}
    BY <1>3, RangeEquality
  <2>2. \A i \in 1..(Len(s) - n) : n + i \in 1..Len(s)
    BY <1>1
  <2> QED BY <1>3, <1>4, <2>1, <2>2
<1> QED BY <1>2, <1>3, <1>5, <1>6

\* Behind a prefix that has left, only the rest is there.
LEMMA RestRange ==
  ASSUME NEW s \in Seq(Units), NEW t \in Seq(Units), NEW n \in Len(s)..(Len(s) + Len(t))
  PROVE  Range(SubSeq(s \o t, n + 1, Len(s \o t))) \subseteq Range(t)
<1> DEFINE all == s \o t
<1>1. /\ all \in Seq(Units) /\ Len(all) = Len(s) + Len(t)
      /\ Len(s) \in Nat /\ Len(t) \in Nat
      /\ \A i \in 1..(Len(s) + Len(t)) : all[i] = IF i <= Len(s) THEN s[i] ELSE t[i - Len(s)]
  BY ConcatProperties, LenProperties
<1> HIDE DEF all
<1>2. n \in 0..Len(all)
  BY <1>1
<1>3. /\ SubSeq(all, n + 1, Len(all)) \in Seq(Units)
      /\ Len(SubSeq(all, n + 1, Len(all))) = Len(all) - n
      /\ \A i \in 1..(Len(all) - n) : SubSeq(all, n + 1, Len(all))[i] = all[n + i]
  BY <1>1, <1>2, CutFacts
<1>4. \A i \in 1..(Len(all) - n) : n + i - Len(s) \in 1..Len(t) /\ all[n + i] = t[n + i - Len(s)]
  BY <1>1
<1>5. Range(SubSeq(all, n + 1, Len(all)))
        = {SubSeq(all, n + 1, Len(all))[i] : i \in 1..(Len(all) - n)}
  BY <1>3, RangeEquality
<1>6. Range(t) = {t[i] : i \in 1..Len(t)}
  BY RangeEquality
<1> QED BY <1>3, <1>4, <1>5, <1>6 DEF all

LEMMA JoinFacts ==
  ASSUME NEW s \in Seq(Units), NEW t \in Seq(Units)
  PROVE  /\ s \o t \in Seq(Units) /\ Len(s \o t) = Len(s) + Len(t)
         /\ Range(s \o t) = Range(s) \cup Range(t)
BY ConcatProperties, RangeConcatenation

LEMMA Regrouped ==
  ASSUME NEW s \in Seq(Units), NEW t \in Seq(Units), NEW u \in Seq(Units)
  PROVE  (s \o t) \o u = s \o (t \o u)
BY ConcatAssociative

LEMMA RangeOfNothing ==
  ASSUME <<>> \in Seq(Units)
  PROVE  Range(<<>>) = {}
<1>1. Len(<<>>) = 0
  OBVIOUS
<1>2. Range(<<>>) = {<<>>[i] : i \in 1..Len(<<>>)}
  BY RangeEquality
<1> QED BY <1>1, <1>2

LEMMA HeadersFacts ==
  ASSUME NEW rs \in SUBSET Requests
  PROVE  HeadersOf(rs) \in Seq(Units) /\ Range(HeadersOf(rs)) \subseteq {"headers"}
<1>1. Cardinality(rs) \in Nat
  BY RequestsFinite, FS_Subset, FS_CardinalityType
<1>2. HeadersOf(rs) \in Seq({"headers"})
  BY <1>1 DEF HeadersOf
<1>3. Range(HeadersOf(rs)) \subseteq {"headers"}
  BY <1>2, RangeOfSeq
<1>4. HeadersOf(rs) \in Seq(Units)
  BY <1>1 DEF HeadersOf, Units
<1> QED BY <1>3, <1>4

LEMMA PrefaceFacts ==
  ASSUME NEW e \in Ends
  PROVE  Preface(e) \in Seq(Units) /\ "settings" \in Range(Preface(e))
<1>1. CASE e = "client"
  <2>1. Preface(e) = ClientPreface \o <<"settings", "winupd">>
    BY <1>1 DEF Preface
  <2>2. ClientPreface \in Seq(Units) /\ <<"settings", "winupd">> \in Seq(Units)
    BY DEF Units, ClientPreface
  <2>3. /\ ClientPreface \o <<"settings", "winupd">> \in Seq(Units)
        /\ Range(ClientPreface \o <<"settings", "winupd">>)
             = Range(ClientPreface) \cup Range(<<"settings", "winupd">>)
    BY <2>2, ConcatProperties, RangeConcatenation, ZenonT(60)
  <2>4. "settings" \in Range(<<"settings", "winupd">>)
    <3>1. 1 \in DOMAIN <<"settings", "winupd">> /\ <<"settings", "winupd">>[1] = "settings"
      OBVIOUS
    <3> QED BY <3>1 DEF Range
  <2> QED BY <2>1, <2>3, <2>4
<1>2. CASE e = "server"
  <2>1. Preface(e) = <<"settings", "winupd">>
    BY <1>2 DEF Preface
  <2>2. Preface(e) \in Seq(Units) /\ 1 \in DOMAIN Preface(e) /\ Preface(e)[1] = "settings"
    BY <2>1 DEF Units
  <2> QED BY <2>2 DEF Range
<1> QED BY <1>1, <1>2, EndsFacts

-----------------------------------------------------------------------------
(* Sending and receiving. *)

LEMMA RoomFacts ==
  ASSUME TypeOK, PipesFit, NEW e \in Ends
  PROVE  Room(e) \in Nat /\ Room(e) <= Cap
                /\ (~Gone(e) => Room(e) = Cap - Len(pipe[Other(e)]))
                /\ (Gone(e) => Room(e) = 0)
<1>1. Other(e) \in Ends /\ Len(pipe[Other(e)]) \in Nat /\ Len(pipe[Other(e)]) <= Cap
  BY EndsFacts, LenProperties DEF TypeOK, PipesFit
<1>2. CASE Gone(e)
  <2>1. Room(e) = 0
    BY <1>2 DEF Room
  <2> QED BY <1>2, <2>1, CapIsRoom
<1>3. CASE ~Gone(e)
  <2>1. Room(e) = Cap - Len(pipe[Other(e)])
    BY <1>3 DEF Room
  <2> QED BY <1>1, <1>3, <2>1, CapIsRoom
<1> QED BY <1>2, <1>3

\* What pipes may be when an event sends: a unit may have been taken out for e.
TakenFrom(e, pipes) ==
  /\ pipes \in [Ends -> Seq(Units)] /\ pipes[Other(e)] = pipe[Other(e)]
  /\ Len(pipes[e]) <= Len(pipe[e]) /\ Range(pipes[e]) \subseteq Range(pipe[e])

LEMMA NothingTaken ==
  ASSUME TypeOK, NEW e \in Ends
  PROVE  TakenFrom(e, pipe)
BY EndsFacts, LenProperties DEF TypeOK, TakenFrom

LEMMA UnitTaken ==
  ASSUME TypeOK, NEW e \in Ends, pipe[e] # <<>>
  PROVE  /\ TakenFrom(e, Rest(e))
         /\ Head(pipe[e]) \in Range(pipe[e])
<1>1. pipe[e] \in Seq(Units) /\ Len(pipe[e]) \in Nat /\ Other(e) # e /\ Other(e) \in Ends
  BY EndsFacts, LenProperties DEF TypeOK
<1>2. /\ Tail(pipe[e]) \in Seq(Units) /\ Len(Tail(pipe[e])) <= Len(pipe[e])
      /\ Range(Tail(pipe[e])) \subseteq Range(pipe[e]) /\ Head(pipe[e]) \in Range(pipe[e])
  BY <1>1, TailFacts
<1>3. /\ Rest(e) = [pipe EXCEPT ![e] = Tail(pipe[e])] /\ pipe \in [Ends -> Seq(Units)]
  BY DEF Rest, TypeOK
<1> QED BY <1>1, <1>2, <1>3 DEF TakenFrom

\* What every step of e leaves of what is sent and on its way.
Sends(e) ==
  /\ buffer' \in [Ends -> Seq(Units)] /\ pipe' \in [Ends -> Seq(Units)]
  /\ wire' \in [Ends -> Seq(Units)] /\ suspended' \in [Ends -> BOOLEAN]
  /\ PipesFit' /\ Sourced'
  /\ \A x \in Ends : Range(wire[x]) \subseteq Range(wire'[x])
  /\ buffer'[Other(e)] = buffer[Other(e)] /\ suspended'[Other(e)] = suspended[Other(e)]

\* A send of `first` and then `later`, whatever the network takes.
LEMMA PutFacts ==
  ASSUME TypeOK, PipesFit, Sourced, NEW e \in Ends,
         NEW first \in Seq(Units), NEW later \in Seq(Units),
         NEW was \in BOOLEAN, NEW pipes, TakenFrom(e, pipes),
         Put(e, first \o later, was, pipes)
  PROVE  /\ Sends(e)
         /\ Range(first) \cup Range(later) \subseteq Range(wire'[e])
         /\ Range(buffer'[e]) \subseteq Range(buffer[e]) \cup Range(first) \cup Range(later)
         /\ Emptied(e, first) => Range(buffer'[e]) \subseteq Range(later)
         /\ ~Emptied(e, first \o later) => buffer'[e] # <<>> /\ ~suspended'[e]
<1> DEFINE units == first \o later
           all == buffer[e] \o units
           n == IF Emptied(e, units) THEN Len(all) ELSE Room(e)
           o == Other(e)
<1>1. /\ o \in Ends /\ o # e /\ Ends = {e, o} /\ Other(o) = e
  BY EndsFacts
<1>2. /\ buffer \in [Ends -> Seq(Units)] /\ pipe \in [Ends -> Seq(Units)]
      /\ wire \in [Ends -> Seq(Units)] /\ suspended \in [Ends -> BOOLEAN]
      /\ buffer[e] \in Seq(Units) /\ wire[e] \in Seq(Units) /\ pipe[o] \in Seq(Units)
      /\ pipes \in [Ends -> Seq(Units)] /\ pipes[o] = pipe[o]
  BY <1>1 DEF TypeOK, TakenFrom
<1>3. /\ units \in Seq(Units) /\ Len(units) = Len(first) + Len(later)
      /\ Range(units) = Range(first) \cup Range(later)
  BY JoinFacts
<1> HIDE DEF n, all, units, o
<1>4. /\ all \in Seq(Units) /\ Len(all) = Len(buffer[e]) + Len(units)
      /\ Range(all) = Range(buffer[e]) \cup Range(units)
  <2>1. buffer[e] \in Seq(Units) /\ units \in Seq(Units)
    BY <1>2, <1>3
  <2> QED BY <2>1, JoinFacts DEF all
<1>5. /\ Len(first) \in Nat /\ Len(later) \in Nat /\ Len(buffer[e]) \in Nat /\ Room(e) \in Nat
      /\ Len(units) \in Nat /\ Len(all) \in Nat /\ Len(pipe[o]) \in Nat
  BY <1>2, <1>3, <1>4, LenProperties, RoomFacts
<1>6. n \in 0..Len(all) /\ n <= Room(e)
  <2>1. CASE Emptied(e, units)
    <3>1. n = Len(all) /\ Len(buffer[e]) + Len(units) <= Room(e)
      BY <2>1 DEF n, Emptied
    <3> QED BY <1>4, <1>5, <3>1
  <2>2. CASE ~Emptied(e, units)
    <3>1. n = Room(e) /\ ~(Len(buffer[e]) + Len(units) <= Room(e))
      BY <2>2 DEF n, Emptied
    <3> QED BY <1>4, <1>5, <3>1
  <2> QED BY <2>1, <2>2
<1>7. /\ buffer' = [buffer EXCEPT ![e] = SubSeq(all, n + 1, Len(all))]
      /\ pipe' = [pipes EXCEPT ![o] = pipes[o] \o SubSeq(all, 1, n)]
      /\ suspended' = [suspended EXCEPT ![e] = StaysSuspended(was, Len(all) - n)]
      /\ wire' = [wire EXCEPT ![e] = wire[e] \o units]
  BY DEF Put, n, all, units, o
<1>8. /\ SubSeq(all, 1, n) \in Seq(Units) /\ Len(SubSeq(all, 1, n)) = n
      /\ SubSeq(all, n + 1, Len(all)) \in Seq(Units)
      /\ Len(SubSeq(all, n + 1, Len(all))) = Len(all) - n
      /\ Range(SubSeq(all, 1, n)) \subseteq Range(all)
      /\ Range(SubSeq(all, n + 1, Len(all))) \subseteq Range(all)
  BY <1>4, <1>6, CutFacts
<1>9. /\ pipe[o] \o SubSeq(all, 1, n) \in Seq(Units)
      /\ Len(pipe[o] \o SubSeq(all, 1, n)) = Len(pipe[o]) + n
      /\ Range(pipe[o] \o SubSeq(all, 1, n)) = Range(pipe[o]) \cup Range(SubSeq(all, 1, n))
  <2> DEFINE taken == SubSeq(all, 1, n)
  <2>1. taken \in Seq(Units) /\ Len(taken) = n
    BY <1>8
  <2> HIDE DEF taken
  <2>2. /\ pipe[o] \o taken \in Seq(Units) /\ Len(pipe[o] \o taken) = Len(pipe[o]) + n
        /\ Range(pipe[o] \o taken) = Range(pipe[o]) \cup Range(taken)
    <3>1. pipe[o] \in Seq(Units)
      BY <1>2
    <3> QED BY <2>1, <3>1, JoinFacts
  <2> QED BY <2>2 DEF taken
<1>10. /\ wire[e] \o units \in Seq(Units)
       /\ Range(wire[e] \o units) = Range(wire[e]) \cup Range(units)
  BY <1>2, <1>3, ConcatProperties, RangeConcatenation
<1>11. /\ buffer'[e] = SubSeq(all, n + 1, Len(all)) /\ buffer'[o] = buffer[o]
       /\ pipe'[o] = pipe[o] \o SubSeq(all, 1, n) /\ pipe'[e] = pipes[e]
       /\ wire'[e] = wire[e] \o units /\ wire'[o] = wire[o]
       /\ suspended'[e] = StaysSuspended(was, Len(all) - n) /\ suspended'[o] = suspended[o]
  BY <1>1, <1>2, <1>7
<1>12. /\ buffer' \in [Ends -> Seq(Units)] /\ pipe' \in [Ends -> Seq(Units)]
       /\ wire' \in [Ends -> Seq(Units)]
  BY <1>1, <1>2, <1>7, <1>8, <1>9, <1>10
<1>13. suspended' \in [Ends -> BOOLEAN]
  BY <1>2, <1>7 DEF StaysSuspended
<1>14. PipesFit'
  <2>1. Len(pipe'[e]) <= Cap
    <3>1. Len(pipes[e]) <= Len(pipe[e]) /\ Len(pipe[e]) <= Cap
      BY DEF TakenFrom, PipesFit
    <3>2. Len(pipes[e]) \in Nat /\ Len(pipe[e]) \in Nat /\ Cap \in Nat
      BY <1>2, LenProperties, CapIsRoom
    <3> QED BY <1>11, <3>1, <3>2
  <2>2. Len(pipe'[o]) <= Cap
    <3>1. /\ ~Gone(e) => Room(e) = Cap - Len(pipe[o])
          /\ Gone(e) => Room(e) = 0
      BY RoomFacts DEF o
    <3>2. Len(pipe[o]) <= Cap /\ Cap \in Nat
      BY <1>1, CapIsRoom DEF PipesFit
    <3>3. Len(pipe'[o]) = Len(pipe[o]) + n /\ n \in Nat
      <4>1. Len(pipe'[o]) = Len(pipe[o]) + n
        BY <1>9, <1>11
      <4>2. n \in Nat
        BY <1>5, <1>6
      <4> QED BY <4>1, <4>2
    <3>4. CASE Gone(e)
      BY <1>5, <1>6, <3>1, <3>2, <3>3, <3>4
    <3>5. CASE ~Gone(e)
      BY <1>5, <1>6, <3>1, <3>2, <3>3, <3>5
    <3> QED BY <3>4, <3>5
  <2> QED BY <1>1, <2>1, <2>2 DEF PipesFit
<1>15. Sourced'
  <2>1. /\ Range(buffer[e]) \subseteq Range(wire[e]) /\ Range(pipe[o]) \subseteq Range(wire[e])
        /\ Range(buffer[o]) \subseteq Range(wire[o]) /\ Range(pipe[e]) \subseteq Range(wire[o])
    BY <1>1 DEF Sourced, o
  <2>2. Range(pipes[e]) \subseteq Range(pipe[e])
    BY DEF TakenFrom
  <2>3. /\ Range(buffer'[e]) \subseteq Range(wire'[e]) /\ Range(pipe'[o]) \subseteq Range(wire'[e])
    BY <1>4, <1>8, <1>9, <1>10, <1>11, <2>1
  <2>4. /\ Range(buffer'[o]) \subseteq Range(wire'[o]) /\ Range(pipe'[e]) \subseteq Range(wire'[o])
    BY <1>11, <2>1, <2>2
  <2> QED BY <1>1, <2>3, <2>4 DEF Sourced, o
<1>16. \A x \in Ends : Range(wire[x]) \subseteq Range(wire'[x])
  BY <1>1, <1>10, <1>11
<1>17. Sends(e)
  BY <1>11, <1>12, <1>13, <1>14, <1>15, <1>16 DEF Sends, o
<1>18. Range(first) \cup Range(later) \subseteq Range(wire'[e])
  BY <1>3, <1>10, <1>11
<1>19. Range(buffer'[e]) \subseteq Range(buffer[e]) \cup Range(first) \cup Range(later)
  BY <1>3, <1>4, <1>8, <1>11
<1>20. ASSUME Emptied(e, first)
       PROVE  Range(buffer'[e]) \subseteq Range(later)
  <2> DEFINE sent == buffer[e] \o first
  <2>1. sent \in Seq(Units) /\ Len(sent) = Len(buffer[e]) + Len(first)
    BY <1>2, JoinFacts
  <2>2. all = sent \o later
    <3>1. buffer[e] \in Seq(Units)
      BY <1>2
    <3>2. (buffer[e] \o first) \o later = buffer[e] \o (first \o later)
      BY <3>1, Regrouped
    <3> QED BY <3>2 DEF all, units, sent
  <2>3. Len(buffer[e]) + Len(first) <= Room(e)
    BY <1>20 DEF Emptied
  <2>4. n \in (Len(buffer[e]) + Len(first))..((Len(buffer[e]) + Len(first)) + Len(later))
    <3>1. buffer[e] \in Seq(Units)
      BY <1>2
    <3>2. Len(all) = Len(buffer[e]) + (Len(first) + Len(later))
      BY <1>3, <1>4
    <3>3. n = Len(all) \/ (n = Room(e) /\ n <= Len(all))
      <4>1. n <= Len(all)
        BY <1>5, <1>6
      <4> QED BY <4>1 DEF n
    <3> QED BY <1>4, <1>5, <2>3, <3>1, <3>2, <3>3
  <2> HIDE DEF sent
  <2>6. n \in Len(sent)..(Len(sent) + Len(later))
    BY <2>1, <2>4
  <2>5. Range(SubSeq(all, n + 1, Len(all))) \subseteq Range(later)
    BY <2>1, <2>2, <2>6, RestRange
  <2> QED BY <1>11, <2>5
<1>21. ASSUME ~Emptied(e, first \o later)
       PROVE  buffer'[e] # <<>> /\ ~suspended'[e]
  <2>1. n = Room(e) /\ ~(Len(buffer[e]) + Len(units) <= Room(e))
    BY <1>21 DEF n, units, Emptied
  <2>2. Room(e) < Len(all)
    BY <1>4, <1>5, <2>1
  <2>4. Len(buffer'[e]) = Len(all) - n /\ Len(all) - n > 0
    BY <1>5, <1>8, <1>11, <2>1, <2>2
  <2>3. buffer'[e] # <<>>
    BY <2>4, EmptySeq
  <2>5. StaysSuspended(was, Len(all) - n) = (was /\ Len(all) - n = 0)
    BY DEF StaysSuspended
  <2>6. Len(all) - n # 0
    BY <1>5, <1>6, <2>4
  <2>7. ~suspended'[e]
    BY <1>11, <2>5, <2>6
  <2> QED BY <2>3, <2>7
<1> QED BY <1>17, <1>18, <1>19, <1>20, <1>21

LEMMA SilentFacts ==
  ASSUME TypeOK, PipesFit, Sourced, NEW e \in Ends, NEW pipes, TakenFrom(e, pipes),
         SendNothing(pipes)
  PROVE  /\ Sends(e)
         /\ buffer' = buffer /\ suspended' = suspended /\ wire' = wire
<1> DEFINE o == Other(e)
<1>1. o \in Ends /\ o # e /\ Ends = {e, o} /\ Other(o) = e
  BY EndsFacts
<1>2. /\ pipe' = pipes /\ buffer' = buffer /\ suspended' = suspended /\ wire' = wire
  BY DEF SendNothing, sending
<1>3. /\ pipes \in [Ends -> Seq(Units)] /\ pipes[o] = pipe[o]
      /\ Len(pipes[e]) <= Len(pipe[e]) /\ Range(pipes[e]) \subseteq Range(pipe[e])
  BY DEF TakenFrom
<1>4. PipesFit'
  <2>1. /\ Len(pipes[e]) \in Nat /\ Len(pipe[e]) \in Nat /\ Cap \in Nat
        /\ Len(pipe[e]) <= Cap /\ Len(pipe[o]) <= Cap
    BY <1>1, <1>3, LenProperties, CapIsRoom DEF TypeOK, PipesFit
  <2>2. Len(pipes[e]) <= Cap /\ Len(pipes[o]) <= Cap
    BY <1>3, <2>1
  <2> QED BY <1>1, <1>2, <2>2 DEF PipesFit
<1>5. Sourced'
  <2>1. /\ Range(buffer[e]) \subseteq Range(wire[e]) /\ Range(pipe[o]) \subseteq Range(wire[e])
        /\ Range(buffer[o]) \subseteq Range(wire[o]) /\ Range(pipe[e]) \subseteq Range(wire[o])
    BY <1>1 DEF Sourced
  <2> QED BY <1>1, <1>2, <1>3, <2>1 DEF Sourced
<1>6. /\ pipe' \in [Ends -> Seq(Units)] /\ buffer' \in [Ends -> Seq(Units)]
      /\ wire' \in [Ends -> Seq(Units)] /\ suspended' \in [Ends -> BOOLEAN]
  BY <1>2, <1>3 DEF TypeOK
<1> QED BY <1>2, <1>4, <1>5, <1>6 DEF Sends
\* A step that neither sends nor reads.
Unsent == buffer' = buffer /\ pipe' = pipe /\ wire' = wire /\ suspended' = suspended

LEMMA UnsentFacts ==
  ASSUME TypeOK, PipesFit, Sourced, NEW e \in Ends, Unsent
  PROVE  Sends(e)
<1>1. PipesFit' /\ Sourced'
  BY DEF Unsent, PipesFit, Sourced
<1> QED BY <1>1 DEF Unsent, Sends, TypeOK

\* A send of one sequence.
LEMMA PutOne ==
  ASSUME TypeOK, PipesFit, Sourced, NEW e \in Ends, NEW units \in Seq(Units),
         NEW was \in BOOLEAN, NEW pipes, TakenFrom(e, pipes), Put(e, units, was, pipes)
  PROVE  /\ Sends(e)
         /\ Range(units) \subseteq Range(wire'[e])
         /\ Range(buffer'[e]) \subseteq Range(buffer[e]) \cup Range(units)
         /\ Emptied(e, <<>>) => Range(buffer'[e]) \subseteq Range(units)
         /\ ~Emptied(e, units) => buffer'[e] # <<>> /\ ~suspended'[e]
<1>1. <<>> \in Seq(Units) /\ <<>> \o units = units
  BY EmptySeq, ConcatEmptySeq
<1>2. Put(e, <<>> \o units, was, pipes)
  BY <1>1
<1>3. Range(<<>>) = {}
  BY <1>1, RangeOfNothing
<1>4. /\ Sends(e)
      /\ Range(<<>>) \cup Range(units) \subseteq Range(wire'[e])
      /\ Range(buffer'[e]) \subseteq Range(buffer[e]) \cup Range(<<>>) \cup Range(units)
      /\ Emptied(e, <<>>) => Range(buffer'[e]) \subseteq Range(units)
      /\ ~Emptied(e, <<>> \o units) => buffer'[e] # <<>> /\ ~suspended'[e]
  <2>1. <<>> \in Seq(Units)
    BY <1>1
  <2> QED BY <2>1, <1>2, PutFacts
<1>5. ~Emptied(e, units) => buffer'[e] # <<>> /\ ~suspended'[e]
  BY <1>1, <1>4
<1> QED BY <1>3, <1>4, <1>5

-----------------------------------------------------------------------------
(* One step: what is left to show of it. *)

\* What a step of one end leaves alone at the other.
Elsewhere(e) ==
  /\ state'[Other(e)] = state[Other(e)] /\ sock'[Other(e)] = sock[Other(e)]
  /\ prefaceReceived'[Other(e)] = prefaceReceived[Other(e)]
  /\ e = "client" => cmpPreface' = cmpPreface

\* The types of what is neither sent nor on its way.
RestTyped ==
  /\ link \in BOOLEAN /\ missed \in BOOLEAN
  /\ state \in [Ends -> {"idle", "connecting", "upgrading", "handshake", "open", "closed"}]
  /\ sock \in [Ends -> {"none", "up", "down"}]
  /\ prefaceReceived \in [Ends -> BOOLEAN]
  /\ cmpPreface \in Seq(Units)
  /\ http \in [Ends -> {"line", "done", "garbled"}]
  /\ asked \subseteq Requests /\ waiting \subseteq Requests \ asked

LEMMA Stepped ==
  ASSUME Inv, NEW e \in Ends, RestTyped', Sends(e), Elsewhere(e), EndSound(e)'
  PROVE  Inv'
<1>1. Other(e) \in Ends /\ Other(Other(e)) = e /\ Ends = {e, Other(e)}
      /\ (Other(e) = "server" => e = "client")
  BY DEF Ends, Other
<1>2. TypeOK'
  BY DEF RestTyped, Sends, TypeOK
<1>3. EndSound(Other(e))'
  <2>1. EndSound(Other(e))
    BY <1>1 DEF Inv
  <2> QED BY <1>1, <2>1 DEF EndSound, Connected, Sends, Elsewhere
<1>4. PipesFit' /\ Sourced'
  BY DEF Sends
<1> QED BY <1>1, <1>2, <1>3, <1>4 DEF Inv

-----------------------------------------------------------------------------
(* The events of the socket. *)

LEMMA ConnectStep ==
  ASSUME Inv, Connect
  PROVE  Inv'
<1>1. "client" \in Ends /\ TypeOK /\ PipesFit /\ Sourced /\ EndSound("client")
  BY DEF Ends, Inv
<1>2. Unsent
  BY DEF Connect, sending, Unsent
<1>3. Sends("client")
  BY <1>1, <1>2, UnsentFacts
<1>4. RestTyped'
  BY <1>1 DEF Connect, Become, toldVars, RestTyped, TypeOK
<1>5. Elsewhere("client")
  BY <1>1 DEF Connect, Become, Elsewhere, TypeOK, Ends, Other
<1>6. EndSound("client")'
  <2>1. state'["client"] = "connecting" /\ ~prefaceReceived["client"]
    BY <1>1 DEF Connect, Become, EndSound, TypeOK
  <2> QED BY <2>1 DEF Connect, EndSound
<1> QED BY <1>1, <1>3, <1>4, <1>5, <1>6, Stepped

LEMMA ConnectEventStep ==
  ASSUME Inv, NEW ok \in BOOLEAN, ConnectEvent(ok)
  PROVE  Inv'
<1>1. "client" \in Ends /\ TypeOK /\ PipesFit /\ Sourced /\ EndSound("client")
  BY DEF Ends, Inv
<1>2. /\ state["client"] = "connecting" /\ ~prefaceReceived["client"]
      /\ prefaceReceived' = prefaceReceived /\ cmpPreface' = cmpPreface /\ missed' = missed
      /\ link' = link /\ http' = http /\ asked' = asked
  BY <1>1 DEF ConnectEvent, EndSound
<1>3. CASE ok /\ link /\ sock' = [sock EXCEPT !["client"] = "up"]
           /\ Become("client", "upgrading") /\ Put("client", <<"upgrade">>, FALSE, pipe)
           /\ UNCHANGED waiting
  <2>1. <<"upgrade">> \in Seq(Units) /\ TakenFrom("client", pipe)
    BY <1>1, NothingTaken DEF Units
  <2>2. Sends("client")
    BY <1>1, <1>3, <2>1, PutOne
  <2>3. RestTyped'
    BY <1>1, <1>2, <1>3 DEF Become, RestTyped, TypeOK
  <2>4. Elsewhere("client")
    BY <1>1, <1>2, <1>3 DEF Become, Elsewhere, TypeOK, Ends, Other
  <2>5. state'["client"] = "upgrading"
    BY <1>1, <1>3 DEF Become, TypeOK
  <2>6. EndSound("client")'
    BY <1>2, <2>5 DEF EndSound
  <2> QED BY <1>1, <2>2, <2>3, <2>4, <2>6, Stepped
<1>4. CASE ~ok /\ CleanUp("client") /\ waiting' = {} /\ UNCHANGED <<sending, pipe, wire>>
  <2>1. Unsent
    BY <1>4 DEF sending, Unsent
  <2>2. Sends("client")
    BY <1>1, <2>1, UnsentFacts
  <2>3. RestTyped'
    BY <1>1, <1>2, <1>4 DEF CleanUp, Become, RestTyped, TypeOK
  <2>4. Elsewhere("client")
    BY <1>1, <1>2, <1>4 DEF CleanUp, Become, Elsewhere, TypeOK, Ends, Other
  <2>5. state'["client"] = "closed"
    BY <1>1, <1>4 DEF CleanUp, Become, TypeOK
  <2>6. EndSound("client")'
    BY <1>2, <2>5 DEF EndSound
  <2> QED BY <1>1, <2>2, <2>3, <2>4, <2>6, Stepped
<1> QED BY <1>3, <1>4 DEF ConnectEvent

LEMMA AttachSocketStep ==
  ASSUME Inv, AttachSocket
  PROVE  Inv'
<1>1. "server" \in Ends /\ Other("server") = "client"
      /\ TypeOK /\ PipesFit /\ Sourced /\ EndSound("server")
  BY DEF Ends, Inv, Other
<1>2. state["server"] = "idle"
  BY <1>1 DEF AttachSocket, EndSound
<1>3. Sends("server")
  <2>1. /\ buffer' = buffer /\ pipe' = pipe /\ wire' = wire
        /\ suspended' = [suspended EXCEPT !["server"] = FALSE]
    BY DEF AttachSocket
  <2>2. PipesFit' /\ Sourced'
    BY <1>1, <2>1 DEF PipesFit, Sourced
  <2>3. suspended' \in [Ends -> BOOLEAN] /\ suspended'["client"] = suspended["client"]
    BY <1>1, <2>1 DEF TypeOK, Ends
  <2> QED BY <1>1, <2>1, <2>2, <2>3 DEF Sends, TypeOK
<1>4. RestTyped'
  BY <1>1 DEF AttachSocket, toldVars, RestTyped, TypeOK
<1>5. Elsewhere("server")
  BY <1>1 DEF AttachSocket, Elsewhere, TypeOK, Ends
<1>6. EndSound("server")'
  BY <1>1, <1>2 DEF AttachSocket, EndSound
<1> QED BY <1>1, <1>3, <1>4, <1>5, <1>6, Stepped

LEMMA AttachStateStep ==
  ASSUME Inv, AttachState
  PROVE  Inv'
<1>1. "server" \in Ends /\ Other("server") = "client"
      /\ TypeOK /\ PipesFit /\ Sourced /\ EndSound("server")
  BY DEF Ends, Inv, Other
<1>2. state["server"] = "idle" /\ ~prefaceReceived["server"] /\ sock["server"] # "none"
  BY <1>1 DEF AttachState, EndSound
<1>3. Sends("server")
  <2>1. Unsent
    BY DEF AttachState, SendNothing, sending, Unsent
  <2> QED BY <1>1, <2>1, UnsentFacts
<1>4. RestTyped'
  BY <1>1 DEF AttachState, Become, toldVars, RestTyped, TypeOK
<1>5. Elsewhere("server")
  BY <1>1 DEF AttachState, Become, Elsewhere, TypeOK, Ends
<1>6. EndSound("server")'
  <2>1. state'["server"] = "upgrading"
    BY <1>1 DEF AttachState, Become, TypeOK
  <2> QED BY <1>1, <1>2, <2>1 DEF AttachState, EndSound
<1> QED BY <1>1, <1>3, <1>4, <1>5, <1>6, Stepped

LEMMA LinkBreaksStep ==
  ASSUME Inv, LinkBreaks
  PROVE  Inv'
<1>1. "client" \in Ends /\ TypeOK /\ PipesFit /\ Sourced /\ EndSound("client")
  BY DEF Ends, Inv
<1>2. Sends("client")
  <2>1. Unsent
    BY DEF LinkBreaks, sending, Unsent
  <2> QED BY <1>1, <2>1, UnsentFacts
<1>3. RestTyped'
  BY <1>1 DEF LinkBreaks, toldVars, RestTyped, TypeOK
<1>4. Elsewhere("client")
  BY DEF LinkBreaks, Elsewhere
<1>5. EndSound("client")'
  BY <1>1 DEF LinkBreaks, sending, EndSound, Connected
<1> QED BY <1>1, <1>2, <1>3, <1>4, <1>5, Stepped

LEMMA EndEventStep ==
  ASSUME Inv, NEW e \in Ends, EndEvent(e)
  PROVE  Inv'
<1>1. TypeOK /\ PipesFit /\ Sourced /\ EndSound(e) /\ Other(e) \in Ends /\ Other(e) # e
  BY EndsFacts DEF Inv
<1>2. Sends(e)
  <2>1. Unsent
    BY DEF EndEvent, sending, Unsent
  <2> QED BY <1>1, <2>1, UnsentFacts
<1>3. RestTyped'
  BY <1>1 DEF EndEvent, CleanUp, Become, toldVars, RestTyped, TypeOK
<1>4. Elsewhere(e)
  BY <1>1 DEF EndEvent, CleanUp, Become, Elsewhere, TypeOK
<1>5. EndSound(e)'
  <2>1. state'[e] = "closed" /\ sock'[e] = "down"
    BY <1>1 DEF EndEvent, CleanUp, Become, TypeOK
  <2> QED BY <1>1, <2>1 DEF EndEvent, EndSound
<1> QED BY <1>2, <1>3, <1>4, <1>5, Stepped

\* sendPreface, behind whatever goes out with it.
LEMMA SendPrefaceStep ==
  ASSUME Inv, NEW e \in Ends, NEW first \in Seq(Units), NEW was \in BOOLEAN,
         NEW pipes, TakenFrom(e, pipes), state[e] = "upgrading",
         SendPreface(e, first, was, pipes), RestTyped',
         UNCHANGED <<sock, cmpPreface, prefaceReceived>>
  PROVE  Inv'
<1>1. TypeOK /\ PipesFit /\ Sourced /\ EndSound(e) /\ Other(e) \in Ends /\ Other(e) # e
  BY EndsFacts DEF Inv
<1>2. Preface(e) \in Seq(Units) /\ "settings" \in Range(Preface(e))
  BY PrefaceFacts
<1>3. Put(e, first \o Preface(e), was, pipes) /\ Become(e, "handshake")
  BY DEF SendPreface
<1>4. Sends(e) /\ Range(first) \cup Range(Preface(e)) \subseteq Range(wire'[e])
  BY <1>1, <1>2, <1>3, PutFacts
<1>5. Elsewhere(e)
  BY <1>1, <1>3 DEF Become, Elsewhere, TypeOK
<1>6. EndSound(e)'
  <2>1. state'[e] = "handshake" /\ "settings" \in Range(wire'[e]) /\ ~prefaceReceived'[e]
    BY <1>1, <1>2, <1>3, <1>4 DEF Become, TypeOK, EndSound
  <2>2. e = "server" => sock'[e] # "none"
    BY <1>1 DEF EndSound
  <2> QED BY <2>1, <2>2 DEF EndSound
<1> QED BY <1>4, <1>5, <1>6, Stepped

\* A send of an end that stays in its state: if it waits for handleOnSend to open it,
\* something of the send is left in the buffer.
LEMMA SendStep ==
  ASSUME Inv, NEW e \in Ends, NEW units \in Seq(Units), NEW was \in BOOLEAN,
         NEW pipes, TakenFrom(e, pipes), Put(e, units, was, pipes), RestTyped',
         UNCHANGED <<state, sock, cmpPreface, prefaceReceived>>,
         state[e] = "open" => Range(units) \subseteq {"headers"},
         Connected(e) /\ state[e] = "handshake" /\ prefaceReceived[e] => ~Emptied(e, units)
  PROVE  Inv'
<1>1. TypeOK /\ PipesFit /\ Sourced /\ EndSound(e)
  BY DEF Inv
<1>2. /\ Sends(e)
      /\ Range(buffer'[e]) \subseteq Range(buffer[e]) \cup Range(units)
      /\ ~Emptied(e, units) => buffer'[e] # <<>> /\ ~suspended'[e]
  BY <1>1, PutOne
<1>3. Elsewhere(e)
  BY DEF Elsewhere
<1>4. EndSound(e)'
  <2>1. /\ Range(wire[e]) \subseteq Range(wire'[e])
        /\ Range(wire[Other(e)]) \subseteq Range(wire'[Other(e)])
    BY <1>2, EndsFacts DEF Sends
  <2>2. state[e] = "open" => Range(buffer'[e]) \subseteq {"headers"}
    BY <1>1, <1>2 DEF EndSound
  <2>3. Connected(e) /\ state[e] = "handshake" /\ prefaceReceived[e]
          => buffer'[e] # <<>> /\ ~suspended'[e]
    BY <1>2
  <2> QED BY <1>1, <2>1, <2>2, <2>3 DEF EndSound, Connected
<1> QED BY <1>2, <1>3, <1>4, Stepped

\* onStateOpen, once everything that is not a request has left the buffer.
LEMMA OpenStep ==
  ASSUME Inv, NEW e \in Ends, NEW first \in Seq(Units), Emptied(e, first), NEW was \in BOOLEAN,
         NEW pipes, TakenFrom(e, pipes), state[e] = "handshake",
         OnStateOpen(e), Put(e, first \o HeadersOf(Told(e)), was, pipes), RestTyped',
         prefaceReceived'[e], prefaceReceived'[Other(e)] = prefaceReceived[Other(e)],
         "settings" \in Range(wire[Other(e)]), e = "server" => cmpPreface = <<>>,
         UNCHANGED <<sock, cmpPreface>>
  PROVE  Inv'
<1>1. TypeOK /\ PipesFit /\ Sourced /\ EndSound(e) /\ Other(e) \in Ends /\ Other(e) # e
  BY EndsFacts DEF Inv
<1>2. HeadersOf(Told(e)) \in Seq(Units) /\ Range(HeadersOf(Told(e))) \subseteq {"headers"}
  <2>1. Told(e) \in SUBSET Requests
    BY <1>1 DEF Told, TypeOK
  <2> QED BY <2>1, HeadersFacts
<1>3. Sends(e) /\ Range(buffer'[e]) \subseteq Range(HeadersOf(Told(e)))
  BY <1>1, <1>2, PutFacts
<1>4. Elsewhere(e)
  BY <1>1 DEF OnStateOpen, Become, Elsewhere, TypeOK
<1>5. EndSound(e)'
  <2>1. state'[e] = "open"
    BY <1>1 DEF OnStateOpen, Become, TypeOK
  <2>2. Range(buffer'[e]) \subseteq {"headers"}
    BY <1>2, <1>3
  <2>3. "settings" \in Range(wire'[e]) /\ "settings" \in Range(wire'[Other(e)])
    BY <1>1, <1>3 DEF EndSound, Sends
  <2>4. e = "server" => sock'[e] # "none"
    BY <1>1 DEF EndSound
  <2> QED BY <2>1, <2>2, <2>3, <2>4 DEF EndSound
<1> QED BY <1>3, <1>4, <1>5, Stepped

LEMMA ToldFacts ==
  ASSUME TypeOK, NEW e \in Ends, OnStateOpen(e)
  PROVE  /\ state' \in [Ends -> {"idle", "connecting", "upgrading", "handshake", "open", "closed"}]
         /\ asked' \subseteq Requests /\ waiting' \subseteq Requests \ asked'
BY DEF TypeOK, OnStateOpen, Become, Told, StillWaiting

LEMMA NoUnits == <<>> \in Seq(Units) /\ Range(<<>>) = {}
BY EmptySeq, RangeOfNothing

LEMMA WriteEventStep ==
  ASSUME Inv, NEW e \in Ends, WriteEvent(e)
  PROVE  Inv'
<1>1. TypeOK /\ EndSound(e) /\ TakenFrom(e, pipe)
  BY NothingTaken DEF Inv
<1>2. UNCHANGED <<sock, link, cmpPreface, prefaceReceived, http, missed>>
  BY DEF WriteEvent
<1>3. CASE ~Emptied(e, <<>>) /\ Put(e, <<>>, TRUE, pipe) /\ UNCHANGED <<state, toldVars>>
  <2>1. RestTyped'
    BY <1>1, <1>2, <1>3 DEF RestTyped, TypeOK, toldVars
  <2> QED BY <1>1, <1>2, <1>3, <2>1, NoUnits, SendStep
<1>4. CASE /\ Emptied(e, <<>>) /\ e = "server" /\ state[e] = "upgrading"
           /\ SendPreface(e, <<>>, TRUE, pipe) /\ UNCHANGED toldVars
  <2>1. RestTyped'
    BY <1>1, <1>2, <1>4 DEF SendPreface, Become, RestTyped, TypeOK, toldVars
  <2> QED BY <1>1, <1>2, <1>4, <2>1, NoUnits, SendPrefaceStep
<1>5. CASE /\ Emptied(e, <<>>) /\ OpensOnSend(e)
           /\ OnStateOpen(e) /\ Put(e, HeadersOf(Told(e)), TRUE, pipe)
  <2>1. state[e] = "handshake" /\ prefaceReceived[e]
    BY <1>5 DEF OpensOnSend
  <2>2. RestTyped'
    BY <1>1, <1>2, <1>5, ToldFacts DEF RestTyped, TypeOK
  <2>3. <<>> \o HeadersOf(Told(e)) = HeadersOf(Told(e))
    <3>1. Told(e) \in SUBSET Requests
      BY <1>1 DEF Told, TypeOK
    <3>2. HeadersOf(Told(e)) \in Seq(Units)
      BY <3>1, HeadersFacts
    <3> QED BY <3>2, ConcatEmptySeq
  <2>4. "settings" \in Range(wire[Other(e)]) /\ (e = "server" => cmpPreface = <<>>)
    BY <1>1, <2>1 DEF EndSound
  <2>5. Put(e, <<>> \o HeadersOf(Told(e)), TRUE, pipe)
    BY <1>5, <2>3
  <2> QED BY <1>1, <1>2, <1>5, <2>1, <2>2, <2>4, <2>5, NoUnits, OpenStep
<1>6. CASE /\ Emptied(e, <<>>) /\ ~OpensOnSend(e)
           /\ Put(e, <<>>, TRUE, pipe) /\ UNCHANGED <<state, toldVars>>
  <2>1. RestTyped'
    BY <1>1, <1>2, <1>6 DEF RestTyped, TypeOK, toldVars
  <2>2. ~(state[e] = "handshake" /\ prefaceReceived[e])
    BY <1>6 DEF OpensOnSend
  <2> QED BY <1>1, <1>2, <1>6, <2>1, <2>2, NoUnits, SendStep
<1> QED BY <1>3, <1>4, <1>5, <1>6 DEF WriteEvent

LEMMA JoinStep ==
  ASSUME Inv, NEW r \in Requests, Join(r)
  PROVE  Inv'
<1>1. "client" \in Ends /\ TypeOK /\ PipesFit /\ Sourced /\ EndSound("client")
      /\ TakenFrom("client", pipe)
  BY NothingTaken DEF Ends, Inv
<1>2. UNCHANGED <<state, sock, link, cmpPreface, prefaceReceived, http, missed>>
  BY DEF Join
<1>3. RestTyped'
  BY <1>1 DEF Join, RestTyped, TypeOK
<1>4. CASE state["client"] = "open"
  <2>1. Put("client", <<"headers">>, suspended["client"], pipe)
    BY <1>4 DEF Join, Send
  <2>2. <<"headers">> \in Seq(Units) /\ Range(<<"headers">>) \subseteq {"headers"}
    <3>1. <<"headers">> \in Seq({"headers"}) /\ <<"headers">> \in Seq(Units)
      BY DEF Units
    <3> QED BY <3>1, RangeOfSeq
  <2>3. suspended["client"] \in BOOLEAN
    BY <1>1 DEF TypeOK
  <2> QED BY <1>1, <1>2, <1>3, <1>4, <2>1, <2>2, <2>3, SendStep
<1>5. CASE state["client"] # "open"
  <2>1. Unsent
    BY <1>5 DEF Join, SendNothing, sending, Unsent
  <2>2. Sends("client")
    BY <1>1, <2>1, UnsentFacts
  <2>3. Elsewhere("client")
    BY <1>2 DEF Elsewhere
  <2>4. EndSound("client")'
    BY <1>1, <1>2, <2>1 DEF EndSound, Unsent, Connected
  <2> QED BY <1>1, <1>3, <2>2, <2>3, <2>4, Stepped
<1> QED BY <1>4, <1>5

-----------------------------------------------------------------------------
(* handleInputData. *)

\* A unit that is taken from the pipe and answered by nothing.
LEMMA SilentStep ==
  ASSUME Inv, NEW e \in Ends, pipe[e] # <<>>, SendNothing(Rest(e)),
         RestTyped', Elsewhere(e),
         prefaceReceived'[e] = prefaceReceived[e],
         prefaceReceived[e] /\ e = "server" => cmpPreface' = <<>>,
         \/ state'[e] = state[e] /\ sock'[e] = sock[e]
         \/ state'[e] = "closed" /\ sock'[e] # "none"
  PROVE  Inv'
<1>1. TypeOK /\ PipesFit /\ Sourced /\ EndSound(e) /\ TakenFrom(e, Rest(e))
  BY UnitTaken DEF Inv
<1>2. Sends(e) /\ buffer' = buffer /\ suspended' = suspended /\ wire' = wire
  BY <1>1, SilentFacts
<1>3. EndSound(e)'
  <2>1. CASE state'[e] = state[e] /\ sock'[e] = sock[e]
    BY <1>1, <1>2, <2>1 DEF EndSound, Connected
  <2>2. CASE state'[e] = "closed" /\ sock'[e] # "none"
    BY <1>1, <1>2, <2>2 DEF EndSound, Connected
  <2> QED BY <2>1, <2>2
<1> QED BY <1>2, <1>3, Stepped

LEMMA DroppedStep ==
  ASSUME Inv, NEW e \in Ends, pipe[e] # <<>>, UNCHANGED link, NEW unit, ReadDropped(e, unit)
  PROVE  Inv'
<1>1. TypeOK /\ EndSound(e)
  BY DEF Inv
<1>2. missed' \in BOOLEAN
  BY <1>1 DEF ReadDropped, TypeOK
<1>3. RestTyped'
  BY <1>1, <1>2 DEF ReadDropped, RestTyped, TypeOK, toldVars
<1>4. Elsewhere(e)
  BY DEF ReadDropped, Elsewhere
<1> QED BY <1>1, <1>3, <1>4, SilentStep DEF ReadDropped, EndSound

LEMMA UpgradeRequestStep ==
  ASSUME Inv, NEW e \in Ends, pipe[e] # <<>>, UNCHANGED link,
         NEW unit, ReadUpgradeRequest(e, unit)
  PROVE  Inv'
<1>1. TypeOK /\ EndSound(e) /\ TakenFrom(e, Rest(e)) /\ suspended[e] \in BOOLEAN
      /\ <<"switch">> \in Seq(Units)
  BY UnitTaken DEF Inv, TypeOK, Units
<1>2. /\ state[e] = "upgrading" /\ ~prefaceReceived[e]
      /\ UNCHANGED <<sock, cmpPreface, prefaceReceived, toldVars, missed>>
  BY <1>1 DEF ReadUpgradeRequest, EndSound
<1>3. http' \in [Ends -> {"line", "done", "garbled"}]
  BY <1>1 DEF ReadUpgradeRequest, TypeOK
<1>4. CASE Emptied(e, <<"switch">>)
  <2>1. SendPreface(e, <<"switch">>, suspended[e], Rest(e))
    BY <1>4 DEF ReadUpgradeRequest
  <2>2. RestTyped'
    BY <1>1, <1>2, <1>3, <2>1 DEF SendPreface, Become, RestTyped, TypeOK, toldVars
  <2> QED BY <1>1, <1>2, <2>1, <2>2, SendPrefaceStep
<1>5. CASE ~Emptied(e, <<"switch">>)
  <2>1. Put(e, <<"switch">>, suspended[e], Rest(e)) /\ state' = state
    BY <1>5 DEF ReadUpgradeRequest, Send
  <2>2. RestTyped'
    BY <1>1, <1>2, <1>3, <2>1 DEF RestTyped, TypeOK, toldVars
  <2> QED BY <1>1, <1>2, <2>1, <2>2, SendStep
<1> QED BY <1>4, <1>5

LEMMA UpgradeResponseStep ==
  ASSUME Inv, NEW e \in Ends, pipe[e] # <<>>, UNCHANGED link,
         NEW unit, ReadUpgradeResponse(e, unit)
  PROVE  Inv'
<1>1. TypeOK /\ TakenFrom(e, Rest(e)) /\ suspended[e] \in BOOLEAN
  BY UnitTaken DEF Inv, TypeOK
<1>2. http' \in [Ends -> {"line", "done", "garbled"}]
  BY <1>1 DEF ReadUpgradeResponse, TypeOK
<1>3. /\ state[e] = "upgrading" /\ SendPreface(e, <<>>, suspended[e], Rest(e))
      /\ UNCHANGED <<sock, cmpPreface, prefaceReceived, toldVars, missed>>
  BY DEF ReadUpgradeResponse
<1>4. RestTyped'
  BY <1>1, <1>2, <1>3 DEF SendPreface, Become, RestTyped, TypeOK, toldVars
<1> QED BY <1>1, <1>3, <1>4, NoUnits, SendPrefaceStep

LEMMA GarbageStep ==
  ASSUME Inv, NEW e \in Ends, pipe[e] # <<>>, UNCHANGED link,
         NEW unit, NEW bad \in BOOLEAN, ReadGarbage(e, unit, bad)
  PROVE  Inv'
<1>1. TypeOK /\ EndSound(e) /\ Other(e) \in Ends /\ Other(e) # e
  BY EndsFacts DEF Inv
<1>2. /\ state[e] = "upgrading" /\ ~prefaceReceived[e] /\ SendNothing(Rest(e))
      /\ UNCHANGED <<cmpPreface, prefaceReceived, asked, missed>>
  BY <1>1 DEF ReadGarbage, EndSound
<1>3. http' \in [Ends -> {"line", "done", "garbled"}]
  BY <1>1 DEF ReadGarbage, TypeOK
<1>4. CASE CleanUp(e) /\ waiting' = StillWaiting(e)
  <2>1. RestTyped'
    BY <1>1, <1>2, <1>3, <1>4 DEF CleanUp, Become, StillWaiting, RestTyped, TypeOK
  <2>2. Elsewhere(e)
    BY <1>1, <1>2, <1>4 DEF CleanUp, Become, Elsewhere, TypeOK
  <2>3. state'[e] = "closed" /\ sock'[e] = "down"
    BY <1>1, <1>4 DEF CleanUp, Become, TypeOK
  <2> QED BY <1>2, <2>1, <2>2, <2>3, SilentStep
<1>5. CASE UNCHANGED <<state, sock, waiting>>
  <2>1. RestTyped'
    BY <1>1, <1>2, <1>3, <1>5 DEF RestTyped, TypeOK
  <2>2. Elsewhere(e)
    BY <1>2, <1>5 DEF Elsewhere
  <2> QED BY <1>2, <1>5, <2>1, <2>2, SilentStep
<1> QED BY <1>4, <1>5 DEF ReadGarbage

LEMMA PrefaceStep ==
  ASSUME Inv, NEW e \in Ends, pipe[e] # <<>>, UNCHANGED link, NEW unit, ReadPreface(e, unit)
  PROVE  Inv'
<1>1. TypeOK /\ EndSound(e) /\ Other(e) \in Ends /\ Other(e) # e
  BY EndsFacts DEF Inv
<1>2. /\ e = "server" /\ cmpPreface # <<>> /\ ~prefaceReceived[e] /\ SendNothing(Rest(e))
      /\ UNCHANGED <<prefaceReceived, http, toldVars, missed>>
  BY <1>1 DEF ReadPreface, EndSound
<1>3. CASE cmpPreface' = Tail(cmpPreface) /\ UNCHANGED <<state, sock>>
  <2>1. cmpPreface' \in Seq(Units)
    BY <1>1, <1>2, <1>3, TailFacts DEF TypeOK
  <2>2. RestTyped'
    BY <1>1, <1>2, <1>3, <2>1 DEF RestTyped, TypeOK, toldVars
  <2>3. Elsewhere(e)
    BY <1>2, <1>3 DEF Elsewhere
  <2> QED BY <1>2, <1>3, <2>2, <2>3, SilentStep
<1>4. CASE CleanUp(e) /\ UNCHANGED cmpPreface
  <2>1. RestTyped'
    BY <1>1, <1>2, <1>4 DEF CleanUp, Become, RestTyped, TypeOK, toldVars
  <2>2. Elsewhere(e)
    BY <1>1, <1>2, <1>4 DEF CleanUp, Become, Elsewhere, TypeOK
  <2>3. state'[e] = "closed" /\ sock'[e] = "down"
    BY <1>1, <1>4 DEF CleanUp, Become, TypeOK
  <2> QED BY <1>2, <2>1, <2>2, <2>3, SilentStep
<1> QED BY <1>3, <1>4 DEF ReadPreface

LEMMA SettingsStep ==
  ASSUME Inv, NEW e \in Ends, pipe[e] # <<>>, UNCHANGED link, ReadSettings(e, Head(pipe[e]))
  PROVE  Inv'
<1>1. TypeOK /\ PipesFit /\ Sourced /\ EndSound(e) /\ TakenFrom(e, Rest(e))
      /\ Other(e) \in Ends /\ Other(e) # e /\ Other(Other(e)) = e /\ suspended[e] \in BOOLEAN
      /\ <<"ack">> \in Seq(Units)
  BY EndsFacts, UnitTaken DEF Inv, TypeOK, Units
<1>2. /\ state[e] = "handshake" /\ ExpectsFrame(e) /\ Head(pipe[e]) = "settings"
      /\ prefaceReceived' = [prefaceReceived EXCEPT ![e] = TRUE]
      /\ UNCHANGED <<sock, cmpPreface, http, missed>>
  BY DEF ReadSettings
<1>3. "settings" \in Range(wire[Other(e)])
  <2>1. Head(pipe[e]) \in Range(pipe[e])
    BY <1>1, UnitTaken
  <2>2. Range(pipe[Other(Other(e))]) \subseteq Range(wire[Other(e)])
    BY <1>1 DEF Sourced
  <2> QED BY <1>1, <1>2, <2>1, <2>2
<1>4. /\ prefaceReceived' \in [Ends -> BOOLEAN] /\ prefaceReceived'[e]
      /\ prefaceReceived'[Other(e)] = prefaceReceived[Other(e)]
  BY <1>1, <1>2 DEF TypeOK
<1>5. e = "server" => cmpPreface = <<>>
  BY <1>2 DEF ExpectsFrame
<1>6. CASE Emptied(e, <<"ack">>)
  <2>1. OnStateOpen(e) /\ Put(e, <<"ack">> \o HeadersOf(Told(e)), suspended[e], Rest(e))
    BY <1>6 DEF ReadSettings, OpensAtSettings, Send
  <2>2. RestTyped'
    BY <1>1, <1>2, <1>4, <2>1, ToldFacts DEF RestTyped, TypeOK
  <2> QED BY <1>1, <1>2, <1>3, <1>4, <1>5, <1>6, <2>1, <2>2, OpenStep
<1>7. CASE ~Emptied(e, <<"ack">>)
  <2>1. Put(e, <<"ack">>, suspended[e], Rest(e)) /\ UNCHANGED <<state, toldVars>>
    BY <1>7 DEF ReadSettings, OpensAtSettings, Send
  <2>2. RestTyped'
    BY <1>1, <1>2, <1>4, <2>1 DEF RestTyped, TypeOK, toldVars
  <2>3. /\ Sends(e) /\ buffer'[e] # <<>> /\ ~suspended'[e]
    BY <1>1, <1>7, <2>1, PutOne
  <2>4. Elsewhere(e)
    BY <1>2, <1>4, <2>1 DEF Elsewhere
  <2>5. EndSound(e)'
    <3>1. "settings" \in Range(wire'[e]) /\ "settings" \in Range(wire'[Other(e)])
      BY <1>1, <1>2, <1>3, <2>3 DEF EndSound, Sends
    <3>2. e = "server" => sock'[e] # "none"
      BY <1>1, <1>2 DEF EndSound
    <3>3. state'[e] = "handshake" /\ (e = "server" => cmpPreface' = <<>>)
      BY <1>2, <1>5, <2>1
    <3> QED BY <1>4, <2>3, <3>1, <3>2, <3>3 DEF EndSound
  <2> QED BY <2>2, <2>3, <2>4, <2>5, Stepped
<1> QED BY <1>6, <1>7

LEMMA OtherFrameStep ==
  ASSUME Inv, NEW e \in Ends, pipe[e] # <<>>, UNCHANGED link, Connected(e),
         NEW unit, ReadOtherFrame(e, unit)
  PROVE  Inv'
<1>1. TypeOK /\ EndSound(e) /\ Other(e) \in Ends /\ Other(e) # e
  BY EndsFacts DEF Inv
<1>2. RestTyped'
  BY <1>1 DEF ReadOtherFrame, Become, RestTyped, TypeOK, toldVars
<1>3. Elsewhere(e)
  BY <1>1 DEF ReadOtherFrame, Become, Elsewhere, TypeOK
<1>4. state'[e] = "closed" /\ sock'[e] # "none"
  BY <1>1 DEF ReadOtherFrame, Become, Connected, TypeOK
<1> QED BY <1>1, <1>2, <1>3, <1>4, SilentStep DEF ReadOtherFrame, EndSound

LEMMA FrameStep ==
  ASSUME Inv, NEW e \in Ends, pipe[e] # <<>>, UNCHANGED link, NEW unit, ReadFrame(e, unit)
  PROVE  Inv'
<1>1. TypeOK /\ EndSound(e)
  BY DEF Inv
<1>2. RestTyped'
  BY <1>1 DEF ReadFrame, RestTyped, TypeOK, toldVars
<1>3. Elsewhere(e)
  BY DEF ReadFrame, Elsewhere
<1> QED BY <1>1, <1>2, <1>3, SilentStep DEF ReadFrame, EndSound

LEMMA ReadEventStep ==
  ASSUME Inv, NEW e \in Ends, ReadEvent(e)
  PROVE  Inv'
<1> DEFINE unit == Head(pipe[e])
<1>1. Connected(e) /\ pipe[e] # <<>> /\ UNCHANGED link
  BY DEF ReadEvent
<1>2. CASE ReadDropped(e, unit)
  BY <1>1, <1>2, DroppedStep
<1>3. CASE ReadUpgradeRequest(e, unit)
  BY <1>1, <1>3, UpgradeRequestStep
<1>4. CASE ReadUpgradeResponse(e, unit)
  BY <1>1, <1>4, UpgradeResponseStep
<1>5. ASSUME NEW bad \in BOOLEAN, ReadGarbage(e, unit, bad)
      PROVE  Inv'
  BY <1>1, <1>5, GarbageStep
<1>6. CASE ReadPreface(e, unit)
  BY <1>1, <1>6, PrefaceStep
<1>7. CASE ReadSettings(e, unit)
  BY <1>1, <1>7, SettingsStep
<1>8. CASE ReadOtherFrame(e, unit)
  BY <1>1, <1>8, OtherFrameStep
<1>9. CASE ReadFrame(e, unit)
  BY <1>1, <1>9, FrameStep
<1> QED BY <1>2, <1>3, <1>4, <1>5, <1>6, <1>7, <1>8, <1>9 DEF ReadEvent

-----------------------------------------------------------------------------
(* The order of what an end sends.  It follows a script: an HTTP unit at    *)
(* most, on the client the two halves of the preface, then SETTINGS,        *)
(* WINDOW_UPDATE, the acknowledgement and requests.  `b` is the place       *)
(* before SETTINGS.  That nothing is acknowledged twice is known only       *)
(* because SETTINGS that were read are not on their way any more.           *)

Sent(e) == pipe[Other(e)] \o buffer[e]

\* w goes on with the script after the first `off` units.
ScriptedFrom(w, off, b) == \A i \in 1..Len(w) :
  /\ w[i] = "settings" <=> off + i = b + 1
  /\ w[i] = "winupd" <=> off + i = b + 2
  /\ w[i] = "ack" <=> off + i = b + 3
  /\ w[i] = "headers" <=> off + i > b + 3
Scripted(w, b) == ScriptedFrom(w, 0, b)

\* How far an end is in its script.
SaidBy(e, b) ==
  /\ state[e] = "handshake" => Len(wire[e]) = b + (IF prefaceReceived[e] THEN 3 ELSE 2)
  /\ state[e] = "open" => Len(wire[e]) >= b + 3
Starts == {<<>>, <<"upgrade">>, <<"switch">>}
WireSound(e) ==
  /\ state[e] \in {"idle", "connecting"} => wire[e] = <<>>
  /\ state[e] = "upgrading" => wire[e] \in Starts
  /\ e = "server" /\ state[e] = "upgrading" /\ http[e] = "line" => wire[e] = <<>>
  /\ \E b \in Nat : Scripted(wire[e], b) /\ SaidBy(e, b)

\* What is not on its way any more was read.
Delivered(e) == \E past \in Seq(Units) :
  /\ wire[e] = past \o Sent(e)
  /\ prefaceReceived[Other(e)] => "settings" \in Range(past)

Wired == \A e \in Ends : WireSound(e) /\ Delivered(e)

-----------------------------------------------------------------------------
(* What is on its way. *)

\* An end sends units, and reads one if `read`.
Taken(e, read) == IF read THEN Rest(e) ELSE pipe
Move(e, units, read) ==
  /\ wire'[e] = wire[e] \o units /\ wire'[Other(e)] = wire[Other(e)]
  /\ Sent(e)' = Sent(e) \o units
  /\ Sent(Other(e))' = IF read THEN Tail(pipe[e]) \o buffer[Other(e)] ELSE Sent(Other(e))

LEMMA CutJoins ==
  ASSUME NEW s \in Seq(Units), NEW n \in 0..Len(s)
  PROVE  SubSeq(s, 1, n) \o SubSeq(s, n + 1, Len(s)) = s
<1>1. Len(s) \in Nat
  BY LenProperties
<1>2. 1 \in 1..(Len(s) + 1) /\ n \in (1 - 1)..Len(s) /\ Len(s) \in n..Len(s)
  BY <1>1
<1>3. SubSeq(s, 1, n) \o SubSeq(s, n + 1, Len(s)) = SubSeq(s, 1, Len(s))
  BY <1>2, ConcatAdjacentSubSeq
<1> QED BY <1>3, SubSeqFull

LEMMA TakenFacts ==
  ASSUME TypeOK, NEW e \in Ends, NEW read \in BOOLEAN, read => pipe[e] # <<>>
  PROVE  /\ TakenFrom(e, Taken(e, read))
         /\ Taken(e, read)[e] = IF read THEN Tail(pipe[e]) ELSE pipe[e]
<1>1. Rest(e) = [pipe EXCEPT ![e] = Tail(pipe[e])] /\ pipe \in [Ends -> Seq(Units)]
  BY DEF Rest, TypeOK
<1> QED BY <1>1, NothingTaken, UnitTaken DEF Taken

LEMMA PutMoves ==
  ASSUME TypeOK, PipesFit, NEW e \in Ends, NEW units \in Seq(Units), NEW was,
         NEW read \in BOOLEAN, read => pipe[e] # <<>>, Put(e, units, was, Taken(e, read))
  PROVE  Move(e, units, read)
<1>1. PICK o, pipes, all, n :
        /\ o = Other(e) /\ pipes = Taken(e, read) /\ all = buffer[e] \o units
        /\ n = IF Emptied(e, units) THEN Len(all) ELSE Room(e)
  OBVIOUS
<1>2. o \in Ends /\ o # e /\ Other(o) = e
  BY <1>1, EndsFacts
<1>3. /\ buffer \in [Ends -> Seq(Units)] /\ wire \in [Ends -> Seq(Units)]
      /\ pipes \in [Ends -> Seq(Units)] /\ pipes[o] = pipe[o]
      /\ pipes[e] = IF read THEN Tail(pipe[e]) ELSE pipe[e]
      /\ buffer[e] \in Seq(Units) /\ pipe[o] \in Seq(Units)
  BY <1>1, <1>2, TakenFacts DEF TypeOK, TakenFrom
<1>4. all \in Seq(Units) /\ Len(all) = Len(buffer[e]) + Len(units)
  BY <1>1, <1>3, JoinFacts
<1>5. n \in 0..Len(all)
  <2>1. Len(all) \in Nat /\ Room(e) \in Nat
    BY <1>4, LenProperties, RoomFacts
  <2>2. ~Emptied(e, units) => Room(e) < Len(buffer[e]) + Len(units)
    BY <1>3, <2>1, LenProperties DEF Emptied
  <2> QED BY <1>1, <1>4, <2>1, <2>2
<1>6. /\ buffer' = [buffer EXCEPT ![e] = SubSeq(all, n + 1, Len(all))]
      /\ pipe' = [pipes EXCEPT ![o] = pipes[o] \o SubSeq(all, 1, n)]
      /\ wire' = [wire EXCEPT ![e] = wire[e] \o units]
  BY <1>1 DEF Put
<1>7. /\ buffer'[e] = SubSeq(all, n + 1, Len(all)) /\ buffer'[o] = buffer[o]
      /\ pipe'[o] = pipe[o] \o SubSeq(all, 1, n) /\ pipe'[e] = pipes[e]
      /\ wire'[e] = wire[e] \o units /\ wire'[o] = wire[o]
  BY <1>2, <1>3, <1>6
<1>8. pipe'[o] \o buffer'[e] = (pipe[o] \o buffer[e]) \o units
  <2>1. PICK front, back : front = SubSeq(all, 1, n) /\ back = SubSeq(all, n + 1, Len(all))
    OBVIOUS
  <2>2. front \in Seq(Units) /\ back \in Seq(Units) /\ front \o back = all
    BY <1>4, <1>5, <2>1, CutFacts, CutJoins
  <2>3. (pipe[o] \o front) \o back = pipe[o] \o (front \o back)
    BY <1>3, <2>2, Regrouped, ZenonT(60)
  <2>4. (pipe[o] \o buffer[e]) \o units = pipe[o] \o (buffer[e] \o units)
    BY <1>3, Regrouped
  <2> QED BY <1>1, <1>7, <2>1, <2>2, <2>3, <2>4
<1> QED BY <1>1, <1>2, <1>3, <1>7, <1>8 DEF Move, Sent

LEMMA SilentMoves ==
  ASSUME TypeOK, NEW e \in Ends, NEW read \in BOOLEAN, read => pipe[e] # <<>>,
         pipe' = Taken(e, read), buffer' = buffer, wire' = wire
  PROVE  Move(e, <<>>, read)
<1>1. PICK o : o = Other(e)
  OBVIOUS
<1>2. o \in Ends /\ o # e /\ Other(o) = e
  BY <1>1, EndsFacts
<1>3. /\ pipe'[o] = pipe[o] /\ pipe'[e] = (IF read THEN Tail(pipe[e]) ELSE pipe[e])
      /\ wire[e] \in Seq(Units) /\ buffer[e] \in Seq(Units) /\ pipe[o] \in Seq(Units)
  BY <1>1, <1>2, TakenFacts DEF TypeOK, TakenFrom
<1>4. pipe[o] \o buffer[e] \in Seq(Units)
  BY <1>3, JoinFacts
<1>5. wire[e] \o <<>> = wire[e] /\ (pipe[o] \o buffer[e]) \o <<>> = pipe[o] \o buffer[e]
  BY <1>3, <1>4, ConcatEmptySeq
<1> QED BY <1>1, <1>2, <1>3, <1>5 DEF Move, Sent

LEMMA ItemsOfJoin ==
  ASSUME NEW p \in Seq(Units), NEW q \in Seq(Units)
  PROVE  \E m, n \in Nat :
           /\ Len(p) = m /\ Len(q) = n /\ Len(p \o q) = m + n /\ p \o q \in Seq(Units)
           /\ \A i \in 1..m : (p \o q)[i] = p[i]
           /\ \A i \in 1..n : (p \o q)[m + i] = q[i]
<1>0. PICK m \in Nat, n \in Nat : m = Len(p) /\ n = Len(q)
  BY LenProperties
<1>1. PICK both : m = Len(p) /\ n = Len(q) /\ both = p \o q
  BY <1>0
<1>2. /\ both \in Seq(Units) /\ Len(both) = m + n
      /\ \A i \in 1..(m + n) : both[i] = IF i <= m THEN p[i] ELSE q[i - m]
  BY <1>1, ConcatProperties
<1>3. \A i \in 1..m : both[i] = p[i]
  BY <1>2
<1>4. \A i \in 1..n : both[m + i] = q[i]
  BY <1>2
<1> QED BY <1>1, <1>2, <1>3, <1>4

LEMMA HeadJoins ==
  ASSUME NEW s \in Seq(Units), s # <<>>
  PROVE  <<Head(s)>> \in Seq(Units) /\ <<Head(s)>> \o Tail(s) = s
<1>1. PICK x, h, rest : x = Head(s) /\ h = <<x>> /\ rest = Tail(s)
  OBVIOUS
<1>2. PICK l \in Nat : l = Len(s) /\ l > 0
  BY LenProperties, EmptySeq
<1>3. x = s[1] /\ x \in Units /\ rest \in Seq(Units) /\ Len(rest) = l - 1
      /\ \A i \in 1..(l - 1) : rest[i] = s[i + 1]
  BY <1>1, <1>2, HeadTailProperties
<1>4. h \in Seq(Units) /\ Len(h) = 1 /\ h[1] = x
  BY <1>1, <1>3
<1>5. PICK m \in Nat, n \in Nat :
        /\ Len(h) = m /\ Len(rest) = n /\ Len(h \o rest) = m + n /\ h \o rest \in Seq(Units)
        /\ \A i \in 1..m : (h \o rest)[i] = h[i]
        /\ \A i \in 1..n : (h \o rest)[m + i] = rest[i]
  <2>1. h \in Seq(Units) /\ rest \in Seq(Units)
    BY <1>3, <1>4
  <2> QED BY <2>1, ItemsOfJoin
<1> DEFINE both == h \o rest
<1> HIDE DEF both
<1>6. /\ Len(both) = m + n /\ both \in Seq(Units)
      /\ \A i \in 1..m : both[i] = h[i]
      /\ \A i \in 1..n : both[m + i] = rest[i]
  BY <1>5 DEF both
<1>7. m = 1 /\ n = l - 1
  BY <1>3, <1>4, <1>5
<1>8. \A i \in 1..l : both[i] = s[i]
  <2>1. ASSUME NEW i \in 1..l, i # 1
        PROVE  both[i] = s[i]
    <3>1. i - 1 \in 1..n /\ m + (i - 1) = i
      BY <1>7, <2>1
    <3>2. both[m + (i - 1)] = rest[i - 1] /\ rest[i - 1] = s[(i - 1) + 1]
      BY <1>3, <1>6, <1>7, <3>1
    <3> QED BY <3>1, <3>2
  <2>2. both[1] = s[1]
    BY <1>3, <1>4, <1>5, <1>7, <1>6
  <2> QED BY <2>1, <2>2
<1>9. both = s
  <2>1. Len(both) = Len(s)
    BY <1>2, <1>7, <1>6
  <2>2. \A i \in 1..Len(both) : both[i] = s[i]
    BY <1>2, <1>8, <2>1
  <2> QED BY <1>6, <2>1, <2>2, SeqEqual
<1> QED BY <1>1, <1>4, <1>9 DEF both

\* The first unit that is under way joins those that were read.
LEMMA HeadMoves ==
  ASSUME NEW p \in Seq(Units), NEW s \in Seq(Units), NEW q \in Seq(Units), s # <<>>
  PROVE  \E more \in Seq(Units) : /\ p \o (s \o q) = more \o (Tail(s) \o q)
                                  /\ Range(more) = Range(p) \cup {Head(s)}
<1>1. PICK h, rest : h = <<Head(s)>> /\ rest = Tail(s)
  OBVIOUS
<1>2. Head(s) \in Units /\ rest \in Seq(Units) /\ h \in Seq(Units) /\ h \o rest = s
  BY <1>1, TailFacts, HeadJoins
<1>3. Range(h) = {Head(s)}
  <2>1. h \in Seq(Units) /\ Len(h) = 1 /\ h[1] = Head(s)
    BY <1>1, <1>2
  <2>2. Range(h) = {h[i] : i \in 1..Len(h)}
    BY <2>1, RangeEquality
  <2> QED BY <2>1, <2>2
<1>4. PICK left, more : left = rest \o q /\ more = p \o h
  OBVIOUS
<1>5. left \in Seq(Units) /\ more \in Seq(Units) /\ Range(more) = Range(p) \cup Range(h)
  BY <1>2, <1>4, JoinFacts
<1>6. s \o q = h \o left
  <2>1. (h \o rest) \o q = h \o (rest \o q)
    BY <1>2, Regrouped, ZenonT(60)
  <2> QED BY <1>2, <1>4, <2>1
<1>7. more \o left = p \o (h \o left)
  <2>1. h \in Seq(Units) /\ left \in Seq(Units)
    BY <1>2, <1>5
  <2>2. (p \o h) \o left = p \o (h \o left)
    BY <2>1, Regrouped, SMTT(60)
  <2> QED BY <1>4, <2>2
<1>8. p \o (s \o q) = more \o left
  BY <1>6, <1>7
<1> QED BY <1>1, <1>3, <1>4, <1>5, <1>8

\* SETTINGS that an end has taken are not on their way any more.
LEMMA DeliveredStep ==
  ASSUME TypeOK, NEW e \in Ends, NEW units \in Seq(Units), NEW read \in BOOLEAN,
         read => pipe[e] # <<>>, Move(e, units, read), Delivered(e), Delivered(Other(e)),
         prefaceReceived'[Other(e)] = prefaceReceived[Other(e)],
         prefaceReceived'[e] => prefaceReceived[e] \/ (read /\ Head(pipe[e]) = "settings")
  PROVE  Delivered(e)' /\ Delivered(Other(e))'
<1>1. PICK o : o = Other(e)
  OBVIOUS
<1>2. o \in Ends /\ o # e /\ Other(o) = e
  BY <1>1, EndsFacts
<1>3. /\ pipe[e] \in Seq(Units) /\ pipe[o] \in Seq(Units)
      /\ buffer[e] \in Seq(Units) /\ buffer[o] \in Seq(Units)
  BY <1>2 DEF TypeOK
<1>4. Sent(e) \in Seq(Units) /\ Sent(o) \in Seq(Units)
  BY <1>1, <1>2, <1>3, JoinFacts DEF Sent
<1>5. Delivered(e)'
  <2>1. PICK past \in Seq(Units) :
          wire[e] = past \o Sent(e) /\ (prefaceReceived[o] => "settings" \in Range(past))
    BY <1>1 DEF Delivered
  <2>2. (past \o Sent(e)) \o units = past \o (Sent(e) \o units)
    BY <1>4, Regrouped
  <2>3. wire'[e] = past \o Sent(e)'
    BY <2>1, <2>2 DEF Move
  <2> QED BY <1>1, <2>1, <2>3 DEF Delivered
<1>6. PICK past \in Seq(Units) :
        wire[o] = past \o Sent(o) /\ (prefaceReceived[e] => "settings" \in Range(past))
  BY <1>1, <1>2 DEF Delivered
<1>7. CASE ~read
  <2>1. wire'[o] = past \o Sent(o)' /\ (prefaceReceived'[e] => prefaceReceived[e])
    BY <1>1, <1>6, <1>7 DEF Move
  <2> QED BY <1>1, <1>2, <1>5, <1>6, <2>1 DEF Delivered
<1>8. CASE read
  <2>1. PICK more \in Seq(Units) :
          /\ past \o (pipe[e] \o buffer[o]) = more \o (Tail(pipe[e]) \o buffer[o])
          /\ Range(more) = Range(past) \cup {Head(pipe[e])}
    BY <1>3, <1>8, HeadMoves
  <2>2. wire'[o] = more \o Sent(o)'
    <3>1. Sent(o) = pipe[e] \o buffer[o] /\ wire'[o] = wire[o]
      BY <1>1, <1>2 DEF Sent, Move
    <3>2. Sent(o)' = Tail(pipe[e]) \o buffer[o]
      BY <1>1, <1>8 DEF Move
    <3> QED BY <1>6, <2>1, <3>1, <3>2
  <2>3. prefaceReceived'[e] => "settings" \in Range(more)
    BY <1>6, <2>1
  <2> QED BY <1>1, <1>2, <1>5, <2>1, <2>2, <2>3 DEF Delivered
<1> QED BY <1>1, <1>5, <1>7, <1>8

\* An end that has taken SETTINGS is not sent any more.
LEMMA SettingsComeOnce ==
  ASSUME TypeOK, Wired, NEW e \in Ends, prefaceReceived[e], pipe[e] # <<>>
  PROVE  Head(pipe[e]) # "settings"
<1>1. PICK o : o = Other(e)
  OBVIOUS
<1>2. o \in Ends /\ Other(o) = e
  BY <1>1, EndsFacts
<1>3. PICK b \in Nat : Scripted(wire[o], b)
  BY <1>2 DEF Wired, WireSound
<1>4. PICK past \in Seq(Units) : wire[o] = past \o Sent(o) /\ "settings" \in Range(past)
  BY <1>2 DEF Wired, Delivered
<1>5. /\ pipe[e] \in Seq(Units) /\ buffer[o] \in Seq(Units)
      /\ Sent(o) = pipe[e] \o buffer[o] /\ Sent(o) \in Seq(Units)
  BY <1>2, JoinFacts DEF TypeOK, Sent
<1>6. Head(pipe[e]) = pipe[e][1] /\ Len(pipe[e]) # 0
  BY <1>5, HeadTailProperties, EmptySeq
<1>7. Sent(o)[1] = Head(pipe[e]) /\ Len(Sent(o)) # 0
  <2>1. PICK p, q : p = pipe[e] /\ q = buffer[o]
    OBVIOUS
  <2>2. PICK m \in Nat, n \in Nat :
          /\ Len(p) = m /\ Len(q) = n /\ Len(p \o q) = m + n /\ p \o q \in Seq(Units)
          /\ \A i \in 1..m : (p \o q)[i] = p[i]
          /\ \A i \in 1..n : (p \o q)[m + i] = q[i]
    <3>1. p \in Seq(Units) /\ q \in Seq(Units)
      BY <1>5, <2>1
    <3> QED BY <3>1, ItemsOfJoin
  <2>3. m # 0 /\ p[1] = Head(pipe[e]) /\ Sent(o) = p \o q
    BY <1>5, <1>6, <2>1, <2>2
  <2> QED BY <2>2, <2>3
<1>8. PICK sent, all : sent = Sent(o) /\ all = past \o sent
  OBVIOUS
<1>9. PICK m \in Nat, n \in Nat :
        /\ Len(past) = m /\ Len(sent) = n
        /\ Len(past \o sent) = m + n /\ past \o sent \in Seq(Units)
        /\ \A i \in 1..m : (past \o sent)[i] = past[i]
        /\ \A i \in 1..n : (past \o sent)[m + i] = sent[i]
  <2>1. sent \in Seq(Units) /\ past \in Seq(Units)
    BY <1>5, <1>8
  <2>2. \E m, n \in Nat :
          /\ Len(past) = m /\ Len(sent) = n
          /\ Len(past \o sent) = m + n /\ past \o sent \in Seq(Units)
          /\ \A i \in 1..m : (past \o sent)[i] = past[i]
          /\ \A i \in 1..n : (past \o sent)[m + i] = sent[i]
    BY <2>1, ItemsOfJoin, ZenonT(60)
  <2> QED BY <2>2, Zenon
<1>10. /\ Len(all) = m + n /\ all = wire[o]
       /\ \A i \in 1..m : all[i] = past[i]
       /\ \A i \in 1..n : all[m + i] = sent[i]
  BY <1>4, <1>8, <1>9
<1>11. PICK i \in 1..m : past[i] = "settings"
  <2>1. Range(past) = {past[j] : j \in 1..Len(past)}
    BY RangeEquality
  <2> QED BY <1>4, <1>9, <2>1
<1>12. \A j \in 1..(m + n) : all[j] = "settings" <=> 0 + j = b + 1
  BY <1>3, <1>10 DEF Scripted, ScriptedFrom
<1>13. i = b + 1
  BY <1>10, <1>11, <1>12
<1>14. m + 1 \in 1..(m + n) /\ all[m + 1] = Head(pipe[e])
  BY <1>7, <1>8, <1>9, <1>10
<1> QED BY <1>12, <1>13, <1>14

-----------------------------------------------------------------------------
(* The script. *)

LEMMA ScriptGrows ==
  ASSUME NEW w \in Seq(Units), NEW units \in Seq(Units), NEW b \in Nat, NEW l \in Nat,
         l = Len(w), Scripted(w, b), ScriptedFrom(units, l, b)
  PROVE  Scripted(w \o units, b)
<1>1. PICK m \in Nat, n \in Nat :
        /\ Len(w) = m /\ Len(units) = n /\ Len(w \o units) = m + n /\ w \o units \in Seq(Units)
        /\ \A i \in 1..m : (w \o units)[i] = w[i]
        /\ \A i \in 1..n : (w \o units)[m + i] = units[i]
  BY ItemsOfJoin
<1> DEFINE both == w \o units
           Fits(x, i) == /\ x = "settings" <=> i = b + 1
                         /\ x = "winupd" <=> i = b + 2
                         /\ x = "ack" <=> i = b + 3
                         /\ x = "headers" <=> i > b + 3
<1>2. \A i \in 1..m : Fits(w[i], i)
  BY <1>1 DEF Scripted, ScriptedFrom
<1>3. \A i \in 1..n : Fits(units[i], m + i)
  BY <1>1 DEF ScriptedFrom
<1> HIDE DEF Fits
<1>4. \A i \in 1..(m + n) : Fits(both[i], i)
  <2>1. ASSUME NEW i \in 1..(m + n), i > m
        PROVE  Fits(both[i], i)
    <3>1. i - m \in 1..n /\ m + (i - m) = i
      BY <2>1
    <3>2. both[m + (i - m)] = units[i - m] /\ Fits(units[i - m], m + (i - m))
      BY <1>1, <1>3, <3>1
    <3> QED BY <3>1, <3>2
  <2>2. ASSUME NEW i \in 1..(m + n), i <= m
        PROVE  Fits(both[i], i)
    <3>1. i \in 1..m
      BY <2>2
    <3> QED BY <1>1, <1>2, <3>1
  <2>3. \A i \in 1..(m + n) : i > m \/ i <= m
    OBVIOUS
  <2> QED BY <2>1, <2>2, <2>3
<1>5. \A i \in 1..Len(both) : Fits(both[i], 0 + i)
  BY <1>1, <1>4
<1> QED BY <1>5 DEF Scripted, ScriptedFrom, Fits

\* No frame of the script is in w.
Bare(w) == Range(w) \cap {"settings", "winupd", "ack", "headers"} = {}

LEMMA OneUnit ==
  ASSUME NEW u \in Units
  PROVE  /\ <<u>> \in Seq(Units) /\ Len(<<u>>) = 1 /\ <<u>>[1] = u
         /\ Range(<<u>>) = {u}
<1>1. PICK s : s = <<u>>
  OBVIOUS
<1>2. s \in Seq(Units) /\ Len(s) = 1 /\ s[1] = u
  BY <1>1
<1>3. Range(s) = {s[i] : i \in 1..Len(s)}
  BY <1>2, RangeEquality
<1> QED BY <1>1, <1>2, <1>3

LEMMA BareScripted ==
  ASSUME NEW w \in Seq(Units), Bare(w), NEW b \in Nat, Len(w) <= b
  PROVE  Scripted(w, b)
<1>1. PICK l \in Nat : l = Len(w)
  BY LenProperties
<1>2. Range(w) = {w[i] : i \in 1..Len(w)}
  BY RangeEquality
<1>3. \A i \in 1..l : w[i] \notin {"settings", "winupd", "ack", "headers"}
  BY <1>1, <1>2 DEF Bare
<1> QED BY <1>1, <1>3 DEF Scripted, ScriptedFrom

LEMMA StartFacts ==
  ASSUME NEW w \in Starts
  PROVE  w \in Seq(Units) /\ Bare(w)
<1>1. CASE w = <<>>
  BY <1>1, NoUnits DEF Bare
<1>2. ASSUME NEW u \in {"upgrade", "switch"}, w = <<u>>
      PROVE  w \in Seq(Units) /\ Bare(w)
  <2>1. u \in Units
    BY DEF Units
  <2> QED BY <1>2, <2>1, OneUnit DEF Bare
<1> QED BY <1>1, <1>2 DEF Starts

LEMMA PrefaceItems ==
  ASSUME NEW e \in Ends
  PROVE  \E off \in Nat :
           /\ Len(Preface(e)) = off + 2
           /\ Preface(e)[off + 1] = "settings" /\ Preface(e)[off + 2] = "winupd"
           /\ \A i \in 1..off : Preface(e)[i] \in {"pri1", "pri2"}
<1>1. PICK p, q, both : p = ClientPreface /\ q = <<"settings", "winupd">> /\ both = p \o q
  OBVIOUS
<1>2. /\ q \in Seq(Units) /\ Len(q) = 2 /\ q[1] = "settings" /\ q[2] = "winupd"
      /\ p \in Seq(Units) /\ Len(p) = 2 /\ p[1] = "pri1" /\ p[2] = "pri2"
  BY <1>1 DEF ClientPreface, Units
<1>3. CASE e = "server"
  <2>1. Preface(e) = q
    <3>1. Preface(e) = <<>> \o q
      BY <1>1, <1>3 DEF Preface
    <3> QED BY <1>2, <3>1, ConcatEmptySeq
  <2>2. /\ Len(q) = 0 + 2 /\ q[0 + 1] = "settings" /\ q[0 + 2] = "winupd"
        /\ \A i \in 1..0 : q[i] \in {"pri1", "pri2"}
    BY <1>2
  <2> QED BY <2>1, <2>2
<1>4. CASE e = "client"
  <2>1. Preface(e) = both
    BY <1>1, <1>4 DEF Preface
  <2>2. PICK m \in Nat, n \in Nat :
          /\ Len(p) = m /\ Len(q) = n /\ Len(p \o q) = m + n /\ p \o q \in Seq(Units)
          /\ \A i \in 1..m : (p \o q)[i] = p[i]
          /\ \A i \in 1..n : (p \o q)[m + i] = q[i]
    <3>1. p \in Seq(Units) /\ q \in Seq(Units)
      BY <1>2
    <3> QED BY <3>1, ItemsOfJoin
  <2>3. m = 2 /\ n = 2
    BY <1>2, <2>2
  <2>4. /\ Len(both) = 2 + 2 /\ both[2 + 1] = "settings" /\ both[2 + 2] = "winupd"
        /\ \A i \in 1..2 : both[i] \in {"pri1", "pri2"}
    BY <1>1, <1>2, <2>2, <2>3
  <2> QED BY <2>1, <2>4
<1> QED BY <1>3, <1>4, EndsFacts

LEMMA PrefaceScripted ==
  ASSUME NEW e \in Ends, NEW w \in Seq(Units), Bare(w)
  PROVE  \E b \in Nat : Scripted(w \o Preface(e), b) /\ Len(w \o Preface(e)) = b + 2
<1>0. PICK l \in Nat : l = Len(w)
  BY LenProperties
<1>1. PICK q : l = Len(w) /\ q = Preface(e)
  BY <1>0
<1>2. PICK off \in Nat :
        /\ Len(q) = off + 2 /\ q[off + 1] = "settings" /\ q[off + 2] = "winupd"
        /\ \A i \in 1..off : q[i] \in {"pri1", "pri2"}
  BY <1>1, PrefaceItems
<1>3. PICK b \in Nat : b = l + off
  BY <1>1, <1>2
<1>4. Scripted(w, b)
  BY <1>1, <1>3, BareScripted
<1>5. ScriptedFrom(q, l, b)
  BY <1>2, <1>3 DEF ScriptedFrom
<1>6. q \in Seq(Units) /\ Len(w \o q) = l + (off + 2)
  BY <1>1, <1>2, PrefaceFacts, JoinFacts
<1>7. Scripted(w \o q, b)
  BY <1>1, <1>4, <1>5, <1>6, ScriptGrows
<1> QED BY <1>1, <1>3, <1>6, <1>7

LEMMA AckScripted ==
  ASSUME NEW w \in Seq(Units), NEW b \in Nat, Scripted(w, b), Len(w) = b + 2
  PROVE  Scripted(w \o <<"ack">>, b) /\ Len(w \o <<"ack">>) = b + 3
<1>0. PICK l \in Nat : l = Len(w)
  BY LenProperties
<1>1. PICK q : l = Len(w) /\ q = <<"ack">>
  BY <1>0
<1>2. q \in Seq(Units) /\ Len(q) = 1 /\ q[1] = "ack"
  BY <1>1 DEF Units
<1>3. ScriptedFrom(q, l, b)
  BY <1>1, <1>2 DEF ScriptedFrom
<1>4. Scripted(w \o q, b)
  BY <1>1, <1>2, <1>3, ScriptGrows
<1>5. Len(w \o q) = b + 3
  <2>1. Len(w \o q) = Len(w) + Len(q)
    BY <1>2, JoinFacts
  <2> QED BY <1>2, <2>1
<1> QED BY <1>1, <1>4, <1>5

LEMMA HeadersScripted ==
  ASSUME NEW w \in Seq(Units), NEW b \in Nat, Scripted(w, b), Len(w) >= b + 3,
         NEW q \in Seq(Units), Range(q) \subseteq {"headers"}
  PROVE  Scripted(w \o q, b) /\ Len(w \o q) >= b + 3
<1>1. PICK l \in Nat, n \in Nat : l = Len(w) /\ n = Len(q)
  BY LenProperties
<1>2. \A i \in 1..n : q[i] = "headers"
  BY <1>1, RangeEquality
<1>3. ScriptedFrom(q, l, b)
  BY <1>1, <1>2 DEF ScriptedFrom
<1>4. Scripted(w \o q, b)
  BY <1>1, <1>3, ScriptGrows
<1>5. Len(w \o q) >= b + 3
  BY <1>1, JoinFacts
<1> QED BY <1>4, <1>5

-----------------------------------------------------------------------------
(* One step of the script. *)

LEMMA WiredStepped ==
  ASSUME Inv, Wired, NEW e \in Ends, NEW units \in Seq(Units), NEW read \in BOOLEAN,
         read => pipe[e] # <<>>, Move(e, units, read), Elsewhere(e),
         http'[Other(e)] = http[Other(e)],
         prefaceReceived'[e] => prefaceReceived[e] \/ (read /\ Head(pipe[e]) = "settings"),
         WireSound(e)'
  PROVE  Wired'
<1>1. PICK o : o = Other(e)
  OBVIOUS
<1>2. o \in Ends /\ o # e /\ \A x \in Ends : x \in {e, o}
  BY <1>1 DEF Ends, Other
<1>3. WireSound(o) /\ Delivered(e) /\ Delivered(o) /\ TypeOK
  BY <1>2 DEF Inv, Wired
<1>4. Delivered(e)' /\ Delivered(o)'
  BY <1>1, <1>3, DeliveredStep DEF Elsewhere
<1>5. WireSound(o)'
  BY <1>1, <1>3 DEF Elsewhere, Move, WireSound, SaidBy
<1> QED BY <1>2, <1>4, <1>5 DEF Wired

\* Nothing is sent.
LEMMA SilentSound ==
  ASSUME TypeOK, NEW e \in Ends, WireSound(e), NEW read, Move(e, <<>>, read),
         \/ /\ state'[e] = state[e] /\ prefaceReceived'[e] = prefaceReceived[e]
            /\ http'[e] = "line" => http[e] = "line"
         \/ state'[e] = "closed"
         \/ state[e] = "idle" /\ state'[e] \in {"connecting", "upgrading"}
  PROVE  WireSound(e)'
<1>1. wire[e] \in Seq(Units)
  BY DEF TypeOK
<1>2. wire[e] \o <<>> = wire[e]
  BY <1>1, ConcatEmptySeq
<1>3. wire'[e] = wire[e]
  BY <1>2 DEF Move
<1>4. PICK b \in Nat : Scripted(wire[e], b) /\ SaidBy(e, b)
  BY DEF WireSound
<1>5. CASE /\ state'[e] = state[e] /\ prefaceReceived'[e] = prefaceReceived[e]
           /\ http'[e] = "line" => http[e] = "line"
  BY <1>3, <1>5 DEF WireSound, SaidBy
<1>6. CASE state'[e] = "closed"
  <2>1. SaidBy(e, b)'
    BY <1>6 DEF SaidBy
  <2> QED BY <1>3, <1>4, <1>6, <2>1 DEF WireSound
<1>7. CASE state[e] = "idle" /\ state'[e] \in {"connecting", "upgrading"}
  <2>1. SaidBy(e, b)'
    BY <1>7 DEF SaidBy
  <2>2. wire[e] = <<>> /\ <<>> \in Starts
    BY <1>7 DEF WireSound, Starts
  <2> QED BY <1>3, <1>4, <1>7, <2>1, <2>2 DEF WireSound
<1> QED BY <1>5, <1>6, <1>7

\* The HTTP unit: upgrade or response.
LEMMA StartSound ==
  ASSUME NEW e \in Ends, wire[e] = <<>>, NEW u \in {"upgrade", "switch"},
         NEW read, Move(e, <<u>>, read), state'[e] = "upgrading",
         e = "server" => http'[e] # "line"
  PROVE  WireSound(e)'
<1>1. u \in Units
  BY DEF Units
<1>2. <<u>> \in Seq(Units) /\ Len(<<u>>) = 1 /\ <<>> \o <<u>> = <<u>>
  BY <1>1, OneUnit, ConcatEmptySeq
<1>3. wire'[e] = <<u>> /\ <<u>> \in Starts
  BY <1>2 DEF Move, Starts
<1>4. Scripted(<<u>>, 1)
  BY <1>2, <1>3, StartFacts, BareScripted
<1>5. SaidBy(e, 1)'
  BY DEF SaidBy
<1> QED BY <1>3, <1>4, <1>5 DEF WireSound

LEMMA PrefaceSound ==
  ASSUME TypeOK, NEW e \in Ends, WireSound(e), state[e] = "upgrading",
         NEW first \in {<<>>, <<"switch">>}, NEW read, Move(e, first \o Preface(e), read),
         state'[e] = "handshake", ~prefaceReceived'[e]
  PROVE  WireSound(e)'
<1>1. PICK w, q : w = wire[e] /\ q = Preface(e)
  OBVIOUS
<1>2. w \in Starts /\ first \in Starts /\ q \in Seq(Units)
  BY <1>1, PrefaceFacts DEF WireSound, Starts
<1>3. w \in Seq(Units) /\ Bare(w) /\ first \in Seq(Units) /\ Bare(first)
  BY <1>2, StartFacts
<1>4. w \o first \in Seq(Units) /\ Bare(w \o first)
  <2>1. w \o first \in Seq(Units) /\ Range(w \o first) = Range(w) \cup Range(first)
    BY <1>3, JoinFacts
  <2> QED BY <1>3, <2>1 DEF Bare
<1>5. (w \o first) \o q = w \o (first \o q)
  <2>1. w \in Seq(Units) /\ first \in Seq(Units) /\ q \in Seq(Units)
    BY <1>2, <1>3
  <2> QED BY <2>1, Regrouped
<1>6. PICK b \in Nat : Scripted((w \o first) \o q, b) /\ Len((w \o first) \o q) = b + 2
  BY <1>1, <1>4, PrefaceScripted
<1>7. wire'[e] = (w \o first) \o q
  BY <1>1, <1>5 DEF Move
<1>8. SaidBy(e, b)'
  BY <1>6, <1>7 DEF SaidBy
<1> QED BY <1>6, <1>7, <1>8 DEF WireSound

LEMMA AckSound ==
  ASSUME TypeOK, NEW e \in Ends, WireSound(e), state[e] = "handshake", ~prefaceReceived[e],
         NEW read, Move(e, <<"ack">>, read), state'[e] = "handshake", prefaceReceived'[e]
  PROVE  WireSound(e)'
<1>1. PICK b \in Nat : Scripted(wire[e], b) /\ Len(wire[e]) = b + 2
  BY DEF WireSound, SaidBy
<1>2. wire[e] \in Seq(Units)
  BY DEF TypeOK
<1>3. Scripted(wire'[e], b) /\ Len(wire'[e]) = b + 3
  BY <1>1, <1>2, AckScripted DEF Move
<1>4. SaidBy(e, b)'
  BY <1>3 DEF SaidBy
<1> QED BY <1>3, <1>4 DEF WireSound

LEMMA OpenedSound ==
  ASSUME TypeOK, NEW e \in Ends, WireSound(e), state[e] = "handshake", ~prefaceReceived[e],
         NEW q \in Seq(Units), Range(q) \subseteq {"headers"},
         NEW read, Move(e, <<"ack">> \o q, read), state'[e] = "open"
  PROVE  WireSound(e)'
<1>1. PICK b \in Nat : Scripted(wire[e], b) /\ Len(wire[e]) = b + 2
  BY DEF WireSound, SaidBy
<1>2. PICK w, ack, both : w = wire[e] /\ ack = <<"ack">> /\ both = w \o ack
  OBVIOUS
<1>3. w \in Seq(Units) /\ ack \in Seq(Units)
  BY <1>2 DEF TypeOK, Units
<1>4. both \in Seq(Units) /\ Scripted(both, b) /\ Len(both) = b + 3
  BY <1>1, <1>2, <1>3, AckScripted, JoinFacts
<1>5. Len(both) >= b + 3
  BY <1>4
<1>6. Scripted(both \o q, b) /\ Len(both \o q) >= b + 3
  BY <1>4, <1>5, HeadersScripted
<1>7. wire'[e] = both \o q
  <2>1. (w \o ack) \o q = w \o (ack \o q)
    BY <1>3, Regrouped
  <2> QED BY <1>2, <2>1 DEF Move
<1>8. SaidBy(e, b)'
  BY <1>6, <1>7 DEF SaidBy
<1> QED BY <1>6, <1>7, <1>8 DEF WireSound

LEMMA HeadersSound ==
  ASSUME TypeOK, NEW e \in Ends, WireSound(e),
         \/ state[e] = "handshake" /\ prefaceReceived[e]
         \/ state[e] = "open",
         NEW q \in Seq(Units), Range(q) \subseteq {"headers"},
         NEW read, Move(e, q, read), state'[e] = "open"
  PROVE  WireSound(e)'
<1>1. PICK b \in Nat : Scripted(wire[e], b) /\ SaidBy(e, b)
  BY DEF WireSound
<1>2. wire[e] \in Seq(Units) /\ Len(wire[e]) \in Nat
  BY LenProperties DEF TypeOK
<1>3. Len(wire[e]) >= b + 3
  BY <1>1, <1>2 DEF SaidBy
<1>4. Scripted(wire'[e], b) /\ Len(wire'[e]) >= b + 3
  BY <1>1, <1>2, <1>3, HeadersScripted DEF Move
<1>5. SaidBy(e, b)'
  BY <1>4 DEF SaidBy
<1> QED BY <1>4, <1>5 DEF WireSound

-----------------------------------------------------------------------------
(* The steps. *)

\* A step that neither sends nor reads.
LEMMA WiredUnsent ==
  ASSUME Inv, Wired, NEW e \in Ends, Unsent, Elsewhere(e),
         http' = http, prefaceReceived' = prefaceReceived,
         \/ state'[e] = state[e]
         \/ state'[e] = "closed"
         \/ state[e] = "idle" /\ state'[e] \in {"connecting", "upgrading"}
  PROVE  Wired'
<1>1. TypeOK /\ WireSound(e) /\ <<>> \in Seq(Units)
  BY NoUnits DEF Inv, Wired
<1>2. Move(e, <<>>, FALSE)
  <2>1. pipe' = Taken(e, FALSE) /\ buffer' = buffer /\ wire' = wire
    BY DEF Unsent, Taken
  <2> QED BY <1>1, <2>1, SilentMoves
<1>3. WireSound(e)'
  BY <1>1, <1>2, SilentSound
<1> QED BY <1>1, <1>2, <1>3, WiredStepped

\* A unit that is taken from the pipe and answered by nothing.
LEMMA WiredSilent ==
  ASSUME Inv, Wired, NEW e \in Ends, pipe[e] # <<>>, SendNothing(Rest(e)), Elsewhere(e),
         http'[Other(e)] = http[Other(e)], prefaceReceived' = prefaceReceived,
         http'[e] = "line" => http[e] = "line",
         state'[e] = state[e] \/ state'[e] = "closed"
  PROVE  Wired'
<1>1. TypeOK /\ WireSound(e) /\ <<>> \in Seq(Units)
  BY NoUnits DEF Inv, Wired
<1>2. Move(e, <<>>, TRUE)
  <2>1. pipe' = Taken(e, TRUE) /\ buffer' = buffer /\ wire' = wire
    BY DEF SendNothing, sending, Taken
  <2> QED BY <1>1, <2>1, SilentMoves
<1>3. WireSound(e)'
  BY <1>1, <1>2, SilentSound
<1> QED BY <1>1, <1>2, <1>3, WiredStepped

\* sendPreface.
LEMMA WiredPreface ==
  ASSUME Inv, Wired, NEW e \in Ends, NEW first \in {<<>>, <<"switch">>}, NEW was,
         NEW read \in BOOLEAN, read => pipe[e] # <<>>, state[e] = "upgrading",
         SendPreface(e, first, was, Taken(e, read)),
         UNCHANGED <<sock, cmpPreface, prefaceReceived>>, http'[Other(e)] = http[Other(e)]
  PROVE  Wired'
<1>1. TypeOK /\ PipesFit /\ WireSound(e) /\ EndSound(e) /\ Other(e) \in Ends /\ Other(e) # e
  BY EndsFacts DEF Inv, Wired
<1>2. PICK units : units = first \o Preface(e)
  OBVIOUS
<1>3. units \in Seq(Units)
  <2>1. first \in Starts
    BY DEF Starts
  <2>2. first \in Seq(Units) /\ Preface(e) \in Seq(Units)
    BY <2>1, StartFacts, PrefaceFacts
  <2> QED BY <1>2, <2>2, JoinFacts
<1>4. Become(e, "handshake") /\ Put(e, units, was, Taken(e, read))
  BY <1>2 DEF SendPreface
<1>5. Move(e, units, read)
  BY <1>1, <1>3, <1>4, PutMoves
<1>6. state'[e] = "handshake" /\ Elsewhere(e) /\ ~prefaceReceived'[e]
  BY <1>1, <1>4 DEF Become, Elsewhere, TypeOK, EndSound
<1>7. WireSound(e)'
  BY <1>1, <1>2, <1>5, <1>6, PrefaceSound
<1> QED BY <1>1, <1>3, <1>5, <1>6, <1>7, WiredStepped

LEMMA ToldHeaders ==
  ASSUME TypeOK, NEW e \in Ends
  PROVE  HeadersOf(Told(e)) \in Seq(Units) /\ Range(HeadersOf(Told(e))) \subseteq {"headers"}
<1>1. Told(e) \in SUBSET Requests
  BY DEF Told, TypeOK
<1> QED BY <1>1, HeadersFacts

LEMMA WiredConnectEvent ==
  ASSUME Inv, Wired, NEW ok \in BOOLEAN, ConnectEvent(ok)
  PROVE  Wired'
<1>1. "client" \in Ends /\ TypeOK /\ PipesFit /\ WireSound("client")
  BY DEF Ends, Inv, Wired
<1>2. /\ state["client"] = "connecting"
      /\ prefaceReceived' = prefaceReceived /\ cmpPreface' = cmpPreface /\ http' = http
  BY DEF ConnectEvent
<1>3. CASE ok /\ link /\ sock' = [sock EXCEPT !["client"] = "up"]
           /\ Become("client", "upgrading") /\ Put("client", <<"upgrade">>, FALSE, pipe)
           /\ UNCHANGED waiting
  <2>1. "upgrade" \in Units /\ wire["client"] = <<>>
    BY <1>1, <1>2 DEF Units, WireSound
  <2>2. <<"upgrade">> \in Seq(Units)
    BY <2>1, OneUnit
  <2>3. Put("client", <<"upgrade">>, FALSE, Taken("client", FALSE))
    BY <1>3 DEF Taken
  <2>4. Move("client", <<"upgrade">>, FALSE)
    BY <1>1, <2>2, <2>3, PutMoves
  <2>5. Elsewhere("client") /\ state'["client"] = "upgrading"
    BY <1>1, <1>2, <1>3 DEF Become, Elsewhere, TypeOK, Ends, Other
  <2>6. WireSound("client")'
    BY <1>1, <2>1, <2>4, <2>5, StartSound
  <2> QED BY <1>1, <1>2, <2>2, <2>4, <2>5, <2>6, WiredStepped
<1>4. CASE ~ok /\ CleanUp("client") /\ waiting' = {} /\ UNCHANGED <<sending, pipe, wire>>
  <2>1. Unsent
    BY <1>4 DEF sending, Unsent
  <2>2. Elsewhere("client") /\ state'["client"] = "closed"
    BY <1>1, <1>2, <1>4 DEF CleanUp, Become, Elsewhere, TypeOK, Ends, Other
  <2> QED BY <1>1, <1>2, <2>1, <2>2, WiredUnsent
<1> QED BY <1>3, <1>4 DEF ConnectEvent

LEMMA WiredWriteEvent ==
  ASSUME Inv, Wired, NEW e \in Ends, WriteEvent(e)
  PROVE  Wired'
<1>1. TypeOK /\ PipesFit /\ WireSound(e) /\ <<>> \in Seq(Units) /\ pipe = Taken(e, FALSE)
      /\ Other(e) \in Ends /\ Other(e) # e
  BY NoUnits, EndsFacts DEF Inv, Wired, Taken
<1>2. UNCHANGED <<sock, link, cmpPreface, prefaceReceived, http, missed>>
  BY DEF WriteEvent
<1>3. CASE Put(e, <<>>, TRUE, pipe) /\ UNCHANGED <<state, toldVars>>
  <2>1. Put(e, <<>>, TRUE, Taken(e, FALSE))
    BY <1>1, <1>3
  <2>2. Move(e, <<>>, FALSE)
    BY <1>1, <2>1, PutMoves
  <2>3. WireSound(e)'
    BY <1>1, <1>2, <1>3, <2>2, SilentSound
  <2>4. Elsewhere(e)
    BY <1>2, <1>3 DEF Elsewhere
  <2> QED BY <1>1, <1>2, <2>2, <2>3, <2>4, WiredStepped
<1>4. CASE /\ Emptied(e, <<>>) /\ e = "server" /\ state[e] = "upgrading"
           /\ SendPreface(e, <<>>, TRUE, pipe) /\ UNCHANGED toldVars
  <2>1. SendPreface(e, <<>>, TRUE, Taken(e, FALSE))
    BY <1>1, <1>4
  <2> QED BY <1>2, <1>4, <2>1, WiredPreface
<1>5. CASE /\ Emptied(e, <<>>) /\ OpensOnSend(e)
           /\ OnStateOpen(e) /\ Put(e, HeadersOf(Told(e)), TRUE, pipe)
  <2>1. PICK q : q = HeadersOf(Told(e))
    OBVIOUS
  <2>2. q \in Seq(Units) /\ Range(q) \subseteq {"headers"}
    BY <1>1, <2>1, ToldHeaders
  <2>3. Put(e, q, TRUE, Taken(e, FALSE))
    BY <1>1, <1>5, <2>1
  <2>4. Move(e, q, FALSE)
    BY <1>1, <2>2, <2>3, PutMoves
  <2>5. /\ state[e] = "handshake" /\ prefaceReceived[e]
        /\ state'[e] = "open" /\ Elsewhere(e)
    BY <1>1, <1>2, <1>5 DEF OpensOnSend, OnStateOpen, Become, Elsewhere, TypeOK
  <2>6. WireSound(e)'
    BY <1>1, <2>2, <2>4, <2>5, HeadersSound
  <2> QED BY <1>1, <1>2, <2>2, <2>4, <2>5, <2>6, WiredStepped
<1> QED BY <1>3, <1>4, <1>5 DEF WriteEvent

LEMMA WiredJoin ==
  ASSUME Inv, Wired, NEW r \in Requests, Join(r)
  PROVE  Wired'
<1>1. "client" \in Ends /\ TypeOK /\ PipesFit /\ WireSound("client")
  BY DEF Ends, Inv, Wired
<1>2. /\ UNCHANGED <<state, sock, link, cmpPreface, prefaceReceived, http, missed>>
      /\ Elsewhere("client")
  BY DEF Join, Elsewhere
<1>3. CASE state["client"] = "open"
  <2>1. "headers" \in Units
    BY DEF Units
  <2>2. <<"headers">> \in Seq(Units) /\ Range(<<"headers">>) \subseteq {"headers"}
    BY <2>1, OneUnit
  <2>3. Put("client", <<"headers">>, suspended["client"], Taken("client", FALSE))
    BY <1>3 DEF Join, Send, Taken
  <2>4. Move("client", <<"headers">>, FALSE)
    BY <1>1, <2>2, <2>3, PutMoves
  <2>5. WireSound("client")'
    BY <1>1, <1>2, <1>3, <2>2, <2>4, HeadersSound
  <2> QED BY <1>1, <1>2, <2>2, <2>4, <2>5, WiredStepped
<1>4. CASE state["client"] # "open"
  <2>1. Unsent
    BY <1>4 DEF Join, SendNothing, sending, Unsent
  <2> QED BY <1>1, <1>2, <2>1, WiredUnsent
<1> QED BY <1>3, <1>4

LEMMA WiredUpgradeRequest ==
  ASSUME Inv, Wired, NEW e \in Ends, pipe[e] # <<>>, NEW unit, ReadUpgradeRequest(e, unit)
  PROVE  Wired'
<1>1. TypeOK /\ PipesFit /\ WireSound(e) /\ Rest(e) = Taken(e, TRUE)
      /\ Other(e) \in Ends /\ Other(e) # e
  BY EndsFacts DEF Inv, Wired, Taken
<1>2. /\ e = "server" /\ state[e] = "upgrading" /\ http[e] = "line"
      /\ http' = [http EXCEPT ![e] = "done"]
      /\ UNCHANGED <<sock, cmpPreface, prefaceReceived, toldVars, missed>>
  BY DEF ReadUpgradeRequest
<1>3. http'[e] = "done" /\ http'[Other(e)] = http[Other(e)]
  BY <1>1, <1>2 DEF TypeOK
<1>4. CASE Emptied(e, <<"switch">>)
  <2>1. SendPreface(e, <<"switch">>, suspended[e], Taken(e, TRUE))
    BY <1>1, <1>4 DEF ReadUpgradeRequest
  <2> QED BY <1>2, <1>3, <2>1, WiredPreface
<1>5. CASE ~Emptied(e, <<"switch">>)
  <2>1. Put(e, <<"switch">>, suspended[e], Taken(e, TRUE)) /\ state' = state
    BY <1>1, <1>5 DEF ReadUpgradeRequest, Send
  <2>2. "switch" \in Units /\ wire[e] = <<>>
    BY <1>1, <1>2 DEF Units, WireSound
  <2>3. <<"switch">> \in Seq(Units)
    BY <2>2, OneUnit
  <2>4. Move(e, <<"switch">>, TRUE)
    BY <1>1, <2>1, <2>3, PutMoves
  <2>5. WireSound(e)'
    BY <1>2, <1>3, <2>1, <2>2, <2>4, StartSound
  <2>6. Elsewhere(e)
    BY <1>2, <2>1 DEF Elsewhere
  <2> QED BY <1>2, <1>3, <2>3, <2>4, <2>5, <2>6, WiredStepped
<1> QED BY <1>4, <1>5

LEMMA WiredSettings ==
  ASSUME Inv, Wired, NEW e \in Ends, pipe[e] # <<>>, ReadSettings(e, Head(pipe[e]))
  PROVE  Wired'
<1>1. TypeOK /\ PipesFit /\ WireSound(e) /\ Rest(e) = Taken(e, TRUE)
      /\ Other(e) \in Ends /\ Other(e) # e
  BY EndsFacts DEF Inv, Wired, Taken
<1>2. /\ state[e] = "handshake" /\ Head(pipe[e]) = "settings"
      /\ prefaceReceived' = [prefaceReceived EXCEPT ![e] = TRUE]
      /\ UNCHANGED <<sock, cmpPreface, http, missed>>
  BY DEF ReadSettings
<1>3. ~prefaceReceived[e]
  BY <1>1, <1>2, SettingsComeOnce
<1>4. prefaceReceived'[e] /\ prefaceReceived'[Other(e)] = prefaceReceived[Other(e)]
  BY <1>1, <1>2 DEF TypeOK
<1>5. "ack" \in Units
  BY DEF Units
<1>6. <<"ack">> \in Seq(Units)
  BY <1>5, OneUnit
<1>7. CASE OpensAtSettings(e)
  <2>1. PICK q, units : q = HeadersOf(Told(e)) /\ units = <<"ack">> \o q
    OBVIOUS
  <2>2. q \in Seq(Units) /\ Range(q) \subseteq {"headers"}
    BY <1>1, <2>1, ToldHeaders
  <2>3. units \in Seq(Units)
    BY <1>6, <2>1, <2>2, JoinFacts
  <2>4. OnStateOpen(e) /\ Put(e, units, suspended[e], Taken(e, TRUE))
    BY <1>1, <1>7, <2>1 DEF ReadSettings, Send
  <2>5. Move(e, units, TRUE)
    BY <1>1, <2>3, <2>4, PutMoves
  <2>6. state'[e] = "open" /\ Elsewhere(e)
    BY <1>1, <1>2, <1>4, <2>4 DEF OnStateOpen, Become, Elsewhere, TypeOK
  <2>7. WireSound(e)'
    BY <1>1, <1>2, <1>3, <2>1, <2>2, <2>5, <2>6, OpenedSound
  <2> QED BY <1>2, <2>3, <2>5, <2>6, <2>7, WiredStepped
<1>8. CASE ~OpensAtSettings(e)
  <2>1. Put(e, <<"ack">>, suspended[e], Taken(e, TRUE)) /\ UNCHANGED <<state, toldVars>>
    BY <1>1, <1>8 DEF ReadSettings, Send
  <2>2. Move(e, <<"ack">>, TRUE)
    BY <1>1, <1>6, <2>1, PutMoves
  <2>3. Elsewhere(e) /\ state'[e] = "handshake"
    BY <1>2, <1>4, <2>1 DEF Elsewhere
  <2>4. WireSound(e)'
    BY <1>1, <1>2, <1>3, <1>4, <2>2, <2>3, AckSound
  <2> QED BY <1>2, <1>6, <2>2, <2>3, <2>4, WiredStepped
<1> QED BY <1>7, <1>8

LEMMA WiredReadEvent ==
  ASSUME Inv, Wired, NEW e \in Ends, ReadEvent(e)
  PROVE  Wired'
<1> DEFINE unit == Head(pipe[e])
<1>1. Connected(e) /\ pipe[e] # <<>> /\ TypeOK /\ Other(e) \in Ends /\ Other(e) # e
  BY EndsFacts DEF ReadEvent, Inv
<1>2. CASE ReadDropped(e, unit)
  <2>1. Elsewhere(e) /\ state' = state
    BY <1>2 DEF ReadDropped, Elsewhere
  <2> QED BY <1>1, <1>2, <2>1, WiredSilent DEF ReadDropped
<1>3. CASE ReadUpgradeRequest(e, unit)
  BY <1>1, <1>3, WiredUpgradeRequest
<1>4. CASE ReadUpgradeResponse(e, unit)
  <2>1. SendPreface(e, <<>>, suspended[e], Taken(e, TRUE)) /\ state[e] = "upgrading"
    BY <1>4 DEF ReadUpgradeResponse, Taken
  <2>2. http'[Other(e)] = http[Other(e)] /\ UNCHANGED <<sock, cmpPreface, prefaceReceived>>
    BY <1>1, <1>4 DEF ReadUpgradeResponse, TypeOK
  <2> QED BY <1>1, <2>1, <2>2, WiredPreface
<1>5. ASSUME NEW bad \in BOOLEAN, ReadGarbage(e, unit, bad)
      PROVE  Wired'
  <2>1. /\ http'[Other(e)] = http[Other(e)] /\ http'[e] = "garbled"
        /\ SendNothing(Rest(e)) /\ UNCHANGED <<cmpPreface, prefaceReceived>>
    BY <1>1, <1>5 DEF ReadGarbage, TypeOK
  <2>2. Elsewhere(e) /\ (state'[e] = state[e] \/ state'[e] = "closed")
    <3>1. CASE CleanUp(e)
      BY <1>1, <2>1, <3>1 DEF CleanUp, Become, Elsewhere, TypeOK
    <3>2. CASE UNCHANGED <<state, sock>>
      BY <2>1, <3>2 DEF Elsewhere
    <3> QED BY <1>5, <3>1, <3>2 DEF ReadGarbage
  <2> QED BY <1>1, <2>1, <2>2, WiredSilent
<1>6. CASE ReadPreface(e, unit)
  <2>1. e = "server" /\ SendNothing(Rest(e)) /\ UNCHANGED <<prefaceReceived, http>>
    BY <1>6 DEF ReadPreface
  <2>2. Elsewhere(e) /\ (state'[e] = state[e] \/ state'[e] = "closed")
    <3>1. CASE CleanUp(e)
      BY <1>1, <2>1, <3>1 DEF CleanUp, Become, Elsewhere, TypeOK
    <3>2. CASE UNCHANGED <<state, sock>>
      BY <2>1, <3>2 DEF Elsewhere
    <3> QED BY <1>6, <3>1, <3>2 DEF ReadPreface
  <2> QED BY <1>1, <2>1, <2>2, WiredSilent
<1>7. CASE ReadSettings(e, unit)
  BY <1>1, <1>7, WiredSettings
<1>8. CASE ReadOtherFrame(e, unit)
  <2>1. Elsewhere(e) /\ state'[e] = "closed"
    BY <1>1, <1>8 DEF ReadOtherFrame, Become, Elsewhere, TypeOK
  <2> QED BY <1>1, <1>8, <2>1, WiredSilent DEF ReadOtherFrame
<1>9. CASE ReadFrame(e, unit)
  <2>1. Elsewhere(e) /\ state' = state
    BY <1>9 DEF ReadFrame, Elsewhere
  <2> QED BY <1>1, <1>9, <2>1, WiredSilent DEF ReadFrame
<1> QED BY <1>2, <1>3, <1>4, <1>5, <1>6, <1>7, <1>8, <1>9 DEF ReadEvent

-----------------------------------------------------------------------------
(* The theorems. *)

LEMMA InitInv == Init => Inv
<1> SUFFICES ASSUME Init
             PROVE  Inv
  OBVIOUS
<1>1. <<>> \in Seq(Units) /\ ClientPreface \in Seq(Units) /\ Len(<<>>) = 0
  BY EmptySeq DEF ClientPreface, Units
<1>2. \A e \in Ends : /\ state[e] = "idle" /\ sock[e] = "none" /\ buffer[e] = <<>>
                      /\ pipe[e] = <<>> /\ wire[e] = <<>> /\ prefaceReceived[e] = FALSE
  BY DEF Init
<1>3. TypeOK
  BY <1>1 DEF Init, TypeOK
<1>4. PipesFit
  BY <1>1, <1>2, CapIsRoom DEF PipesFit
<1>5. Sourced
  BY <1>2, EndsFacts DEF Sourced
<1>6. \A e \in Ends : EndSound(e)
  BY <1>2 DEF EndSound
<1> QED BY <1>3, <1>4, <1>5, <1>6 DEF Inv

LEMMA NextInv == Inv /\ [Next]_vars => Inv'
<1> SUFFICES ASSUME Inv, [Next]_vars
             PROVE  Inv'
  OBVIOUS
<1>1. CASE Connect
  BY <1>1, ConnectStep
<1>2. CASE Connecting
  BY <1>2, ConnectEventStep DEF Connecting
<1>3. CASE AttachSocket
  BY <1>3, AttachSocketStep
<1>4. CASE AttachState
  BY <1>4, AttachStateStep
<1>5. CASE LinkBreaks
  BY <1>5, LinkBreaksStep
<1>6. ASSUME NEW e \in Ends, WriteEvent(e) \/ ReadEvent(e) \/ EndEvent(e)
      PROVE  Inv'
  BY <1>6, WriteEventStep, ReadEventStep, EndEventStep
<1>7. ASSUME NEW r \in Requests, Join(r)
      PROVE  Inv'
  BY <1>7, JoinStep
<1>8. CASE UNCHANGED vars
  <2>1. "client" \in Ends /\ TypeOK /\ PipesFit /\ Sourced /\ EndSound("client")
    BY DEF Ends, Inv
  <2>2. Unsent
    BY <1>8 DEF vars, sending, Unsent
  <2>3. Sends("client")
    BY <2>1, <2>2, UnsentFacts
  <2>4. RestTyped'
    BY <1>8, <2>1 DEF vars, toldVars, RestTyped, TypeOK
  <2>5. Elsewhere("client")
    BY <1>8 DEF vars, Elsewhere
  <2>6. EndSound("client")'
    BY <1>8, <2>1 DEF vars, sending, EndSound, Connected
  <2> QED BY <2>1, <2>3, <2>4, <2>5, <2>6, Stepped
<1> QED BY <1>1, <1>2, <1>3, <1>4, <1>5, <1>6, <1>7, <1>8 DEF Next

\* The inductive invariant holds in every state of the handshake, for every capacity
\* of the network and every set of requests.
THEOREM Invariance == Spec => []Inv
<1> QED BY InitInv, NextInv, PTL DEF Spec

\* Every variable keeps its type, and no request that was told stays in
\* connectListeners.
THEOREM TypeCorrectness == Spec => []TypeOK
<1>1. Inv => TypeOK
  BY DEF Inv
<1> QED BY <1>1, Invariance, PTL

\* An end that has the peer's SETTINGS and is not open has something to send and a
\* running write source: handleOnSend will open it, however little the network takes
\* at a time.
THEOREM HandshakeKeepsGoing == Spec => []HandshakeGoesOn
<1>1. Inv => HandshakeGoesOn
  BY DEF Inv, EndSound, HandshakeGoesOn
<1> QED BY <1>1, Invariance, PTL

\* An end that is open has sent its own SETTINGS and taken the peer's, and nothing of
\* the preface is left in its buffer, whether handleSettingsFrame or handleOnSend
\* opened it.
THEOREM OpenAfterExchange == Spec => []OpenMeansExchanged
<1>1. Inv => OpenMeansExchanged
  BY DEF Inv, EndSound, OpenMeansExchanged
<1> QED BY <1>1, Invariance, PTL

\* What the script says of the order.
LEMMA ScriptOrder ==
  ASSUME NEW w \in Seq(Units), NEW b \in Nat, Scripted(w, b)
  PROVE  /\ Count(w, "settings") <= 1 /\ Count(w, "ack") <= 1
         /\ \A u \in {"winupd", "ack", "headers"} :
              Before(w, "settings", u) /\ (u \in Range(w) => "settings" \in Range(w))
         /\ "headers" \in Range(w) => "ack" \in Range(w) /\ Before(w, "ack", "headers")
         /\ Before(w, "pri2", "settings")
<1>1. PICK l \in Nat : l = Len(w) /\ DOMAIN w = 1..l
  BY LenProperties
<1>2. \A i \in 1..l : /\ w[i] = "settings" <=> i = b + 1
                      /\ w[i] = "winupd" <=> i = b + 2
                      /\ w[i] = "ack" <=> i = b + 3
                      /\ w[i] = "headers" <=> i > b + 3
  BY <1>1 DEF Scripted, ScriptedFrom
<1>3. \A u : u \in Range(w) <=> \E i \in 1..l : w[i] = u
  <2>1. Range(w) = {w[i] : i \in 1..l}
    BY <1>1, RangeEquality
  <2> QED BY <2>1
<1>4. ASSUME NEW u, NEW k \in Int, \A i \in 1..l : w[i] = u => i = k
      PROVE  Count(w, u) <= 1
  <2>1. {i \in DOMAIN w : w[i] = u} \subseteq {k}
    BY <1>1, <1>4
  <2>2. IsFiniteSet({k}) /\ Cardinality({k}) = 1
    BY FS_Singleton
  <2>3. /\ Cardinality({i \in DOMAIN w : w[i] = u}) <= Cardinality({k})
        /\ IsFiniteSet({i \in DOMAIN w : w[i] = u})
    BY <2>1, <2>2, FS_Subset
  <2> QED BY <2>2, <2>3 DEF Count
<1>5. Count(w, "settings") <= 1 /\ Count(w, "ack") <= 1
  <2>1. \A i \in 1..l : w[i] = "settings" => i = b + 1
    BY <1>2
  <2>2. \A i \in 1..l : w[i] = "ack" => i = b + 3
    BY <1>2
  <2>3. b + 1 \in Int /\ b + 3 \in Int
    OBVIOUS
  <2> QED BY <1>4, <2>1, <2>2, <2>3
<1>6. ASSUME NEW u \in {"winupd", "ack", "headers"}, NEW i \in 1..l, w[i] = u
      PROVE  i > b + 1
  BY <1>2, <1>6
<1>7. ASSUME NEW u \in {"winupd", "ack", "headers"}
      PROVE  Before(w, "settings", u) /\ (u \in Range(w) => "settings" \in Range(w))
  <2>1. Before(w, "settings", u)
    BY <1>1, <1>2, <1>6 DEF Before
  <2>2. ASSUME u \in Range(w)
        PROVE  "settings" \in Range(w)
    <3>1. PICK i \in 1..l : w[i] = u
      BY <1>3, <2>2
    <3>2. b + 1 \in 1..l
      BY <1>6, <3>1
    <3>3. w[b + 1] = "settings"
      BY <1>2, <3>2
    <3> QED BY <1>3, <3>2, <3>3
  <2> QED BY <2>1, <2>2
<1>8. "headers" \in Range(w) => "ack" \in Range(w)
  <2>1. ASSUME "headers" \in Range(w)
        PROVE  "ack" \in Range(w)
    <3>1. PICK i \in 1..l : w[i] = "headers"
      BY <1>3, <2>1
    <3>2. b + 3 \in 1..l
      BY <1>2, <3>1
    <3>3. w[b + 3] = "ack"
      BY <1>2, <3>2
    <3> QED BY <1>3, <3>2, <3>3
  <2> QED BY <2>1
<1>9. Before(w, "ack", "headers")
  BY <1>1, <1>2 DEF Before
<1>10. Before(w, "pri2", "settings")
  <2>1. ASSUME NEW i \in 1..l, NEW j \in 1..l, w[i] = "pri2", w[j] = "settings"
        PROVE  i < j
    <3>1. j = b + 1
      BY <1>2, <2>1
    <3>2. i # b + 1 /\ i # b + 2 /\ i # b + 3 /\ ~(i > b + 3)
      BY <1>2, <2>1
    <3> QED BY <3>1, <3>2
  <2> QED BY <1>1, <2>1 DEF Before
<1> QED BY <1>5, <1>7, <1>8, <1>9, <1>10

LEMMA InitWired == Init => Wired
<1> SUFFICES ASSUME Init, NEW e \in Ends
             PROVE  WireSound(e) /\ Delivered(e)
  BY DEF Wired
<1>1. /\ state[e] = "idle" /\ wire[e] = <<>> /\ buffer[e] = <<>> /\ pipe[Other(e)] = <<>>
      /\ prefaceReceived[Other(e)] = FALSE
  BY EndsFacts DEF Init
<1>2. <<>> \in Seq(Units) /\ <<>> \o <<>> = <<>> /\ <<>> \in Starts
  BY NoUnits, ConcatEmptySeq DEF Starts
<1>3. Scripted(<<>>, 0)
  BY <1>2, EmptySeq, StartFacts, BareScripted
<1>4. WireSound(e)
  <2>1. SaidBy(e, 0)
    BY <1>1 DEF SaidBy
  <2> QED BY <1>1, <1>2, <1>3, <2>1 DEF WireSound
<1>5. Delivered(e)
  <2>1. wire[e] = <<>> \o Sent(e)
    BY <1>1, <1>2 DEF Sent
  <2> QED BY <1>1, <1>2, <2>1 DEF Delivered
<1> QED BY <1>4, <1>5

LEMMA NextWired == Inv /\ Wired /\ [Next]_vars => Wired'
<1> SUFFICES ASSUME Inv, Wired, [Next]_vars
             PROVE  Wired'
  OBVIOUS
<1>1. "client" \in Ends /\ "server" \in Ends /\ TypeOK
  BY DEF Ends, Inv
<1>2. CASE Connect
  <2>1. Unsent /\ http' = http /\ prefaceReceived' = prefaceReceived
    BY <1>2 DEF Connect, sending, Unsent
  <2>2. Elsewhere("client") /\ state["client"] = "idle" /\ state'["client"] = "connecting"
    BY <1>1, <1>2 DEF Connect, Become, Elsewhere, TypeOK, Other
  <2> QED BY <1>1, <2>1, <2>2, WiredUnsent
<1>3. CASE Connecting
  BY <1>3, WiredConnectEvent DEF Connecting
<1>4. CASE AttachSocket
  BY <1>4 DEF AttachSocket, Wired, WireSound, SaidBy, Delivered, Sent
<1>5. CASE AttachState
  <2>1. Unsent /\ http' = http /\ prefaceReceived' = prefaceReceived
    BY <1>5 DEF AttachState, SendNothing, sending, Unsent
  <2>2. Elsewhere("server") /\ state["server"] = "idle" /\ state'["server"] = "upgrading"
    BY <1>1, <1>5 DEF AttachState, Become, Elsewhere, TypeOK, Other
  <2> QED BY <1>1, <2>1, <2>2, WiredUnsent
<1>6. CASE LinkBreaks
  BY <1>6 DEF LinkBreaks, sending, Wired, WireSound, SaidBy, Delivered, Sent
<1>7. ASSUME NEW e \in Ends, WriteEvent(e)
      PROVE  Wired'
  BY <1>7, WiredWriteEvent
<1>8. ASSUME NEW e \in Ends, ReadEvent(e)
      PROVE  Wired'
  BY <1>8, WiredReadEvent
<1>9. ASSUME NEW e \in Ends, EndEvent(e)
      PROVE  Wired'
  <2>1. Unsent /\ http' = http /\ prefaceReceived' = prefaceReceived
    BY <1>9 DEF EndEvent, sending, Unsent
  <2>2. Elsewhere(e) /\ state'[e] = "closed"
    BY <1>1, <1>9, EndsFacts DEF EndEvent, CleanUp, Become, Elsewhere, TypeOK
  <2> QED BY <2>1, <2>2, WiredUnsent
<1>10. ASSUME NEW r \in Requests, Join(r)
       PROVE  Wired'
  BY <1>10, WiredJoin
<1>11. CASE UNCHANGED vars
  BY <1>11 DEF vars, sending, Wired, WireSound, SaidBy, Delivered, Sent
<1> QED BY <1>2, <1>3, <1>4, <1>5, <1>6, <1>7, <1>8, <1>9, <1>10, <1>11 DEF Next

LEMMA WiredOrder == Inv /\ Wired => WireInOrder
<1> SUFFICES ASSUME Inv, Wired, NEW e \in Ends
             PROVE  /\ Count(wire[e], "settings") <= 1 /\ Count(wire[e], "ack") <= 1
                    /\ \A u \in {"winupd", "ack", "headers"} :
                         /\ Before(wire[e], "settings", u)
                         /\ u \in Range(wire[e]) => "settings" \in Range(wire[e])
                    /\ "headers" \in Range(wire[e])
                         => "ack" \in Range(wire[e]) /\ Before(wire[e], "ack", "headers")
                    /\ Before(wire[e], "pri2", "settings")
  BY DEF WireInOrder
<1>1. PICK b \in Nat : Scripted(wire[e], b)
  BY DEF Wired, WireSound
<1>2. wire[e] \in Seq(Units)
  BY DEF Inv, TypeOK
<1> QED BY <1>1, <1>2, ScriptOrder

\* Whichever of its callers sendPreface had, and however little the network takes at
\* a time: an end sends SETTINGS once and before every other frame, the client behind
\* its connection preface; it acknowledges the peer's SETTINGS once, and no request
\* goes out before that.
THEOREM WireIsInOrder == Spec => []WireInOrder
<1>1. Spec => [](Inv /\ Wired)
  <2>1. Init => Inv /\ Wired
    BY InitInv, InitWired
  <2>2. (Inv /\ Wired) /\ [Next]_vars => (Inv /\ Wired)'
    BY NextInv, NextWired
  <2> QED BY <2>1, <2>2, PTL DEF Spec
<1> QED BY <1>1, WiredOrder, PTL
=============================================================================
