------------------------- MODULE H2ConnectionProofs -------------------------
(***************************************************************************)
(* Proofs about H2Connection for every finite set of stream ids, either    *)
(* role and every limit.                                                   *)
(*                                                                         *)
(* The inductive invariant is Inv.  OpenedCountExact is not inductive by   *)
(* itself: SendRequest adds one to the counter without looking, which is   *)
(* right only because the id it takes is fresh (NextIdFresh).              *)
(***************************************************************************)
EXTENDS H2Connection, FiniteSetTheorems, TLAPS

-----------------------------------------------------------------------------
(* The stream operations, on one record. *)

LEMMA NewStreams == Absent \in Stream /\ NewStream \in Stream
BY DEF Absent, NewStream, Stream, StreamState

\* Every operation of H2Stream on a stream object yields a stream object.
LEMMA StreamOps ==
  ASSUME NEW r \in Stream, NEW b \in BOOLEAN, NEW c \in BOOLEAN
  PROVE  /\ StreamErrored(r) \in Stream
         /\ ResetReceived(r) \in Stream
         /\ EndReceived(r) \in Stream
         /\ EndSent(r) \in Stream
         /\ HeadersSent(r, b) \in Stream
         /\ HeadersReceived(r, b, c) \in Stream
<1>1. \A q \in Stream : EndReceived(q) \in Stream /\ EndSent(q) \in Stream
  BY DEF EndReceived, EndSent, Stream, StreamState, Flags
<1>2. HeadersSent(r, b) \in Stream
  <2>1. (IF r.state = "idle" THEN [r EXCEPT !.state = "open"] ELSE r) \in Stream
    BY DEF Stream, StreamState
  <2> QED BY <1>1, <2>1 DEF HeadersSent
<1>3. HeadersReceived(r, b, c) \in Stream
  <2> DEFINE flags == IF IsTailer(r)
                      THEN r.flags \cup {"tailersReceived"}
                      ELSE Assign(r.flags \cup {"headersReceived"}, "headersEnd", c)
             state == IF r.state = "reservedR" THEN "halfClosedL"
                      ELSE IF r.state = "idle" THEN "open" ELSE r.state
             got == [state |-> state, flags |-> flags]
  <2>1. flags \in SUBSET Flags
    BY DEF Assign, Stream, Flags
  <2>2. state \in StreamState
    BY DEF Stream, StreamState
  <2>3. got \in Stream
    BY <2>1, <2>2 DEF Stream
  <2>4. EndReceived(got) \in Stream
    BY <1>1, <2>3
  <2> QED BY <2>3, <2>4 DEF HeadersReceived
<1>4. StreamErrored(r) \in Stream /\ ResetReceived(r) \in Stream
  BY DEF StreamErrored, ResetReceived, Stream, StreamState, Flags
<1> QED BY <1>1, <1>2, <1>3, <1>4

\* The same operations keep a stream explained, given that it was.
LEMMA StreamOpsExplained ==
  ASSUME NEW s \in StreamIds, NEW r \in Stream, Explained(s, r),
         NEW b \in BOOLEAN, NEW c \in BOOLEAN
  PROVE  /\ Explained(s, StreamErrored(r))
         /\ Explained(s, ResetReceived(r))
         /\ Explained(s, EndReceived(r))
         /\ Explained(s, HeadersSent(r, b))
         /\ Explained(s, EndSent(r))
         /\ r.state # "absent" => Explained(s, HeadersReceived(r, b, c))
         /\ Explained(s, Absent) /\ Explained(s, NewStream)
<1>1. Explained(s, StreamErrored(r)) /\ Explained(s, ResetReceived(r))
  BY DEF Explained, StreamErrored, ResetReceived
<1>2. \A q \in Stream : Explained(s, q) => Explained(s, EndReceived(q)) /\ Explained(s, EndSent(q))
  BY DEF Explained, EndReceived, EndSent, Stream, StreamState
<1>3. Explained(s, HeadersSent(r, b))
  <2> DEFINE sent == IF r.state = "idle" THEN [r EXCEPT !.state = "open"] ELSE r
  <2>1. sent \in Stream
    BY DEF Stream, StreamState
  <2>2. Explained(s, sent)
    BY DEF Explained, Stream
  <2>3. Explained(s, EndSent(sent))
    BY <1>2, <2>1, <2>2
  <2> QED BY <2>2, <2>3 DEF HeadersSent
<1>4. ASSUME r.state # "absent"
      PROVE  Explained(s, HeadersReceived(r, b, c))
  <2> DEFINE flags == IF IsTailer(r)
                      THEN r.flags \cup {"tailersReceived"}
                      ELSE Assign(r.flags \cup {"headersReceived"}, "headersEnd", c)
             state == IF r.state = "reservedR" THEN "halfClosedL"
                      ELSE IF r.state = "idle" THEN "open" ELSE r.state
             got == [state |-> state, flags |-> flags]
  <2>1. got \in Stream
    <3>1. flags \in SUBSET Flags
      BY DEF Assign, Stream, Flags
    <3>2. state \in StreamState
      BY DEF Stream, StreamState
    <3> QED BY <3>1, <3>2 DEF Stream
  <2>2. Explained(s, got)
    <3>1. \A f \in {"endStreamSent", "endStreamReceived", "rstStreamSent",
                    "rstStreamReceived"} : f \in flags <=> f \in r.flags
      BY DEF Assign
    <3> HIDE DEF flags
    <3> QED BY <3>1, <1>4 DEF Explained, Stream, StreamState
  <2>3. Explained(s, EndReceived(got))
    BY <1>2, <2>1, <2>2
  <2> QED BY <2>2, <2>3 DEF HeadersReceived
<1>5. Explained(s, Absent) /\ Explained(s, NewStream)
  BY DEF Explained, Absent, NewStream
<1> QED BY <1>1, <1>2, <1>3, <1>4, <1>5

-----------------------------------------------------------------------------
(* The number of open streams. *)

Bit(r) == IF InOpen(r.state) THEN 1 ELSE 0

\* Replacing one stream object changes the number of open streams by what the
\* old and the new object count for.
LEMMA OpenCount ==
  ASSUME NEW ss \in [StreamIds -> Stream], NEW s \in StreamIds, NEW q \in Stream
  PROVE  /\ Cardinality(OpenIn(ss)) \in Nat
         /\ Cardinality(OpenIn([ss EXCEPT ![s] = q]))
              = Cardinality(OpenIn(ss)) + Bit(q) - Bit(ss[s])
<1> DEFINE old == OpenIn(ss)
           new == OpenIn([ss EXCEPT ![s] = q])
<1>1. IsFiniteSet(old) /\ IsFiniteSet(new)
  BY StreamIdsAssumption, FS_Subset DEF OpenIn
<1>2. Cardinality(old) \in Nat
  BY <1>1, FS_CardinalityType
<1>3. s \in old <=> InOpen(ss[s].state)
  BY DEF OpenIn
<1>4. s \in new <=> InOpen(q.state)
  BY DEF OpenIn
<1>5. \A t \in StreamIds \ {s} : t \in new <=> t \in old
  BY DEF OpenIn
<1>6. old \subseteq StreamIds /\ new \subseteq StreamIds
  BY DEF OpenIn
<1> HIDE DEF old, new
<1>7. CASE InOpen(q.state) /\ ~InOpen(ss[s].state)
  <2>1. new = old \cup {s} /\ s \notin old
    BY <1>3, <1>4, <1>5, <1>6, <1>7
  <2>2. Cardinality(new) = Cardinality(old) + 1
    BY <1>1, <2>1, FS_AddElement
  <2>3. Bit(q) = 1 /\ Bit(ss[s]) = 0
    BY <1>7 DEF Bit
  <2> QED BY <1>2, <2>2, <2>3 DEF old, new
<1>8. CASE ~InOpen(q.state) /\ InOpen(ss[s].state)
  <2>1. new = old \ {s} /\ s \in old
    BY <1>3, <1>4, <1>5, <1>6, <1>8
  <2>2. Cardinality(new) = Cardinality(old) - 1
    BY <1>1, <2>1, FS_RemoveElement
  <2>3. Bit(q) = 0 /\ Bit(ss[s]) = 1
    BY <1>8 DEF Bit
  <2> QED BY <1>2, <2>2, <2>3 DEF old, new
<1>9. CASE InOpen(q.state) <=> InOpen(ss[s].state)
  <2>1. new = old
    BY <1>3, <1>4, <1>5, <1>6, <1>9
  <2> QED BY <1>2, <1>9, <2>1 DEF old, new, Bit
<1> QED BY <1>7, <1>8, <1>9

-----------------------------------------------------------------------------
(* Types. *)

LEMMA SetStreamType ==
  ASSUME TypeOK, NEW s \in StreamIds, NEW q \in Stream, SetStream(s, q)
  PROVE  streams' \in [StreamIds -> Stream] /\ openedStreamCount' \in Int
<1>1. streams' \in [StreamIds -> Stream]
  BY DEF TypeOK, SetStream
<1>2. openedStreamCount' \in Int
  BY DEF TypeOK, SetStream, OpenDelta
<1> QED BY <1>1, <1>2

LEMMA TellType ==
  ASSUME TypeOK, NEW s \in StreamIds,
         NEW kinds \in SUBSET {"headers", "data", "end", "reset"}, Tell(s, kinds)
  PROVE  told' \in [StreamIds -> SUBSET Told]
BY DEF TypeOK, Tell, Heard, Told, Content

LEMMA StreamErrorType ==
  ASSUME TypeOK, NEW s \in StreamIds, reading' \in BOOLEAN,
         FailConnection \/ FailStream(s) \/ NoEffect
  PROVE  TypeOK'
<1>1. CASE FailConnection
  BY <1>1 DEF TypeOK, FailConnection, idVars
<1>2. CASE FailStream(s)
  <2>1. streams[s] \in Stream
    BY DEF TypeOK
  <2>2. StreamErrored(streams[s]) \in Stream
    BY <2>1, StreamOps
  <2> QED BY <1>2, <2>2, SetStreamType DEF TypeOK, FailStream, idVars
<1>3. CASE NoEffect
  BY <1>3 DEF TypeOK, NoEffect, idVars
<1> QED BY <1>1, <1>2, <1>3

\* What StreamHeaders leaves, for a stream object r that is in or not yet in
\* the map.
LEMMA StreamHeadersType ==
  ASSUME TypeOK, NEW s \in StreamIds, NEW r \in Stream, NEW b \in BOOLEAN,
         NEW c \in BOOLEAN, StreamHeaders(s, r, b, c)
  PROVE  /\ streams' \in [StreamIds -> Stream] /\ openedStreamCount' \in Int
         /\ told' \in [StreamIds -> SUBSET Told]
<1>1. CASE SetStream(s, StreamErrored(r)) /\ UNCHANGED told
  BY <1>1, StreamOps, SetStreamType DEF TypeOK
<1>2. CASE /\ SetStream(s, HeadersReceived(r, b, c))
           /\ IF ~IsTailer(r) /\ c THEN Tell(s, WithEnd({"headers"}, b)) ELSE UNCHANGED told
  <2>1. WithEnd({"headers"}, b) \in SUBSET {"headers", "data", "end", "reset"}
    BY DEF WithEnd
  <2>2. told' \in [StreamIds -> SUBSET Told]
    BY <1>2, <2>1, TellType DEF TypeOK
  <2>3. HeadersReceived(r, b, c) \in Stream
    BY StreamOps
  <2> QED BY <1>2, <2>2, <2>3, SetStreamType
<1> QED BY <1>1, <1>2 DEF StreamHeaders

\* Every variable keeps its type, whatever frame or call comes.
LEMMA TypeStep == TypeOK /\ [Next]_vars => TypeOK'
<1> SUFFICES ASSUME TypeOK, [Next]_vars
             PROVE  TypeOK'
  OBVIOUS
<1> USE DEF idVars
<1>0. \A s \in StreamIds : streams[s] \in Stream
  BY DEF TypeOK
<1>1. ASSUME Handled, ReadOn
      PROVE  TypeOK'
  <2>0. reading' \in BOOLEAN
    BY <1>1 DEF ReadOn
  <2>1. ASSUME NEW s \in StreamIds, NEW b \in BOOLEAN, RecvData(s, b)
        PROVE  TypeOK'
    <3>1. CASE NoEffect \/ FailConnection \/ FailStream(s)
      BY <2>0, <3>1, StreamErrorType
    <3>2. CASE /\ SetStream(s, IF b THEN EndReceived(streams[s]) ELSE streams[s])
               /\ Tell(s, WithEnd({"data"}, b))
               /\ UNCHANGED <<connState, idVars, expectedContinuation, app, leaked>>
      <4>1. (IF b THEN EndReceived(streams[s]) ELSE streams[s]) \in Stream
        BY <1>0, StreamOps
      <4>2. WithEnd({"data"}, b) \in SUBSET {"headers", "data", "end", "reset"}
        BY DEF WithEnd
      <4>3. told' \in [StreamIds -> SUBSET Told]
        BY <3>2, <4>2, TellType
      <4> QED BY <2>0, <3>2, <4>1, <4>3, SetStreamType DEF TypeOK
    <3> QED BY <2>1, <3>1, <3>2 DEF RecvData
  <2>2. ASSUME NEW s \in StreamIds, NEW b \in BOOLEAN, NEW k \in Blocks, RecvHeaders(s, b, k)
        PROVE  TypeOK'
    <3>0. KeepBlock(s, k) => expectedContinuation' \in StreamIds \cup {0}
      BY DEF KeepBlock, TypeOK
    <3>1. CASE NoEffect \/ FailConnection
      BY <2>0, <3>1, StreamErrorType
    <3>2. CASE /\ KeepBlock(s, k)
               /\ StreamHeaders(s, streams[s], b, k = "last")
               /\ UNCHANGED <<connState, idVars, app, leaked>>
      BY <1>0, <2>0, <3>0, <3>2, StreamHeadersType DEF TypeOK
    <3>3. CASE /\ KeepBlock(s, k) /\ UNCHANGED <<connState, nextStreamId, leaked>>
               /\ lastStreamId' = s /\ app' = [app EXCEPT ![s] = "held"]
               /\ StreamHeaders(s, NewStream, b, k = "last")
      <4>1. NewStream \in Stream
        BY NewStreams
      <4> QED BY <2>0, <3>0, <3>3, <4>1, StreamHeadersType DEF TypeOK
    <3>4. CASE /\ KeepBlock(s, k) /\ UNCHANGED <<connState, nextStreamId, leaked>>
               /\ UNCHANGED <<lastStreamId, app, streams, openedStreamCount, told>>
      BY <2>0, <3>0, <3>4 DEF TypeOK
    <3> QED BY <2>2, <3>1, <3>2, <3>3, <3>4 DEF RecvHeaders
  <2>3. ASSUME NEW s \in StreamIds, NEW b \in BOOLEAN, RecvPriority(s, b)
        PROVE  TypeOK'
    BY <2>0, <2>3, StreamErrorType DEF RecvPriority
  <2>4. ASSUME NEW s \in StreamIds, RecvRSTStream(s)
        PROVE  TypeOK'
    <3>1. CASE NoEffect \/ FailConnection \/ FailStream(s)
      BY <2>0, <3>1, StreamErrorType
    <3>2. CASE /\ SetStream(s, ResetReceived(streams[s])) /\ Tell(s, {"reset"})
               /\ UNCHANGED <<connState, idVars, expectedContinuation, app, leaked>>
      <4>1. told' \in [StreamIds -> SUBSET Told]
        BY <3>2, TellType
      <4>2. ResetReceived(streams[s]) \in Stream
        BY <1>0, StreamOps
      <4> QED BY <2>0, <3>2, <4>1, <4>2, SetStreamType DEF TypeOK
    <3> QED BY <2>4, <3>1, <3>2 DEF RecvRSTStream
  <2>5. ASSUME NEW s \in StreamIds, NEW p \in StreamIds, NEW k \in Blocks,
               RecvPushPromise(s, p, k)
        PROVE  TypeOK'
    <3>1. CASE FailConnection
      BY <2>0, <3>1, <2>5, StreamErrorType
    <3>2. CASE ~FailConnection
      <4> DEFINE q == [state |-> "reservedR",
                       flags |-> Assign({"headersReceived"}, "headersEnd", k = "last")]
      <4>1. q \in Stream
        BY DEF Stream, StreamState, Flags, Assign
      <4> HIDE DEF q
      <4>2. /\ KeepBlock(p, k) /\ streams' = [streams EXCEPT ![p] = q]
            /\ leaked' = leaked + (IF InOpen(streams[p].state) THEN 1 ELSE 0)
            /\ told' = [told EXCEPT ![p] = IF k = "last" THEN {"headers"} ELSE {}]
            /\ UNCHANGED <<connState, idVars, openedStreamCount, app>>
        BY <2>5, <3>2 DEF RecvPushPromise, q
      <4>3. expectedContinuation' \in StreamIds \cup {0}
        BY <4>2 DEF KeepBlock, TypeOK
      <4>4. leaked' \in Nat
        BY <4>2 DEF TypeOK
      <4>5. told' \in [StreamIds -> SUBSET Told]
        BY <4>2 DEF TypeOK, Told
      <4> QED BY <2>0, <4>1, <4>2, <4>3, <4>4, <4>5 DEF TypeOK
    <3> QED BY <3>1, <3>2
  <2>6. ASSUME RecvGoaway
        PROVE  TypeOK'
    <3>1. IsFiniteSet(OpenStreams)
      BY StreamIdsAssumption, FS_Subset DEF OpenStreams, OpenIn
    <3>2. leaked' \in Nat
      BY <2>6, <3>1, FS_CardinalityType DEF RecvGoaway, TypeOK
    <3>3. Absent \in Stream
      BY NewStreams
    <3> QED BY <2>0, <2>6, <3>2, <3>3 DEF RecvGoaway, TypeOK
  <2>7. ASSUME NEW s \in StreamIds, NEW i \in Increments, RecvWindowUpdate(s, i)
        PROVE  TypeOK'
    <3>1. CASE NoEffect \/ FailConnection \/ FailStream(s)
      BY <2>0, <3>1, StreamErrorType
    <3>2. CASE /\ UNCHANGED <<nextStreamId, openedStreamCount, expectedContinuation, told, leaked>>
               /\ \/ /\ streams' = [streams EXCEPT ![s] = NewStream]
                     /\ app' = [app EXCEPT ![s] = "held"]
                     /\ lastStreamId' = s
                     /\ connState' = "closed"
                  \/ UNCHANGED <<connState, streams, app, lastStreamId>>
      <4>1. NewStream \in Stream
        BY NewStreams
      <4> QED BY <2>0, <3>2, <4>1 DEF TypeOK
    <3> QED BY <2>7, <3>1, <3>2 DEF RecvWindowUpdate, StreamError
  <2>8. ASSUME NEW s \in StreamIds, NEW k \in Blocks \cup {"empty"}, RecvContinuation(s, k)
        PROVE  TypeOK'
    <3>1. CASE NoEffect \/ FailConnection
      BY <2>0, <3>1, <2>8, StreamErrorType
    <3>2. CASE ~(NoEffect \/ FailConnection)
      <4>1. /\ expectedContinuation' \in StreamIds \cup {0}
            /\ connState' \in {connState, "closed"}
            /\ UNCHANGED <<idVars, app, told, leaked>>
            /\ \/ SetStream(s, StreamErrored(streams[s]))
               \/ UNCHANGED <<streams, openedStreamCount>>
        BY <2>8, <3>2 DEF RecvContinuation, TypeOK
      <4>2. StreamErrored(streams[s]) \in Stream
        BY <1>0, StreamOps
      <4> QED BY <2>0, <4>1, <4>2, SetStreamType DEF TypeOK
    <3> QED BY <3>1, <3>2
  <2>9. CASE NoEffect \/ FailConnection
    BY <2>0, <2>9 DEF TypeOK, NoEffect, FailConnection
  <2> QED BY <1>1, <2>1, <2>2, <2>3, <2>4, <2>5, <2>6, <2>7, <2>8, <2>9
          DEF Handled, RecvSettings, RecvPing, RecvConnWindowUpdate
<1>2. ASSUME InterruptedHeaderBlock \/ FrameRefused
      PROVE  TypeOK'
  BY <1>2 DEF TypeOK, InterruptedHeaderBlock, FrameRefused, FailConnection
<1>3. ASSUME NEW s \in StreamIds, FrameRefusedOnStream(s)
      PROVE  TypeOK'
  <2>1. StreamErrored(streams[s]) \in Stream
    BY <1>0, StreamOps
  <2> QED BY <1>3, <2>1, SetStreamType DEF FrameRefusedOnStream, TypeOK
<1>4. ASSUME NEW b \in BOOLEAN, SendRequest(b)
      PROVE  TypeOK'
  <2>1. HeadersSent(NewStream, b) \in Stream
    <3>1. NewStream \in Stream
      BY NewStreams
    <3> QED BY <3>1, StreamOps
  <2>2. IdAfter(nextStreamId) \in Nat
    BY DEF IdAfter, TypeOK
  <2> QED BY <1>4, <2>1, <2>2 DEF SendRequest, AppUnchanged, connVars, TypeOK
<1>5. ASSUME NEW s \in StreamIds, NEW b \in BOOLEAN, SendResponse(s, b)
      PROVE  TypeOK'
  <2>1. HeadersSent(streams[s], b) \in Stream
    BY <1>0, StreamOps
  <2> QED BY <1>5, <2>1, SetStreamType DEF SendResponse, AppUnchanged, connVars, TypeOK
<1>6. ASSUME NEW s \in StreamIds, NEW b \in BOOLEAN, FinishBody(s, b)
      PROVE  TypeOK'
  <2>1. EndSent(streams[s]) \in Stream
    BY <1>0, StreamOps
  <2> QED BY <1>6, <2>1, SetStreamType DEF FinishBody, AppUnchanged, connVars, TypeOK
<1>7. ASSUME NEW s \in StreamIds, CloseStream(s)
      PROVE  TypeOK'
  <2>1. Absent \in Stream
    BY NewStreams
  <2>2. OpenDelta(streams[s].state, "closed") \in Int
    BY DEF OpenDelta
  <2> QED BY <1>7, <2>1, <2>2 DEF CloseStream, connVars, TypeOK
<1>8. ASSUME CloseConnection \/ SocketFailed
      PROVE  TypeOK'
  BY <1>8 DEF CloseConnection, SocketFailed, TypeOK
<1>9. CASE UNCHANGED vars
  BY <1>9 DEF TypeOK, vars, connVars
<1> QED BY <1>1, <1>2, <1>3, <1>4, <1>5, <1>6, <1>7, <1>8, <1>9
        DEF Next, PeerStep, AppStep

\* The types hold in every state, for every set of ids, either role and every
\* limit.
THEOREM TypeCorrect == Spec => []TypeOK
<1>1. Init => TypeOK
  BY FirstIdAssumption DEF Init, TypeOK, Absent, Stream, StreamState
<1> QED BY <1>1, TypeStep, PTL DEF Spec

-----------------------------------------------------------------------------
(* The inductive invariant. *)

\* One stream: its flags r.flags explain its state, and what its callbacks
\* were told, k, agrees with them.  The parts that no run checks are what the
\* others need: a stream the peer reset is closed, the application answers only
\* a stream whose headers it has, and only a server's stream can be back in
\* halfClosedL after the peer ended it.
Sound(s, r, k) ==
  LET has(flag) == flag \in r.flags IN
  /\ Explained(s, r)
  /\ "reset" \in k <=> has("rstStreamReceived")
  /\ has("rstStreamReceived") => r.state = "closed"
  /\ "headers" \in k => has("headersReceived")
  /\ r.state = "halfClosedL" /\ has("endStreamReceived") => has("headersReceived") /\ IsServer
  /\ "end" \in k => has("endStreamReceived")
  /\ has("endStreamReceived") /\ has("headersEnd") /\ ~has("tailersReceived") => "end" \in k
  /\ "afterReset" \notin k
  /\ ~IsServer => "afterEnd" \notin k

HeldByServer == \A s \in StreamIds : app[s] = "held" => IsServer
AllSound     == \A s \in StreamIds : Sound(s, streams[s], told[s])

Core == OpenedCountExact /\ NextIdFresh /\ HeldByServer /\ AllSound
Inv  == TypeOK /\ Core

-----------------------------------------------------------------------------
(* One stream, one operation. *)

LEMMA NewSound == \A s \in StreamIds : Sound(s, Absent, {}) /\ Sound(s, NewStream, {})
BY DEF Sound, Explained, Absent, NewStream

\* A stream that is not in the map has told its callbacks nothing about an end
\* or a reset, so a new stream may take its id.
LEMMA AbsentSound ==
  ASSUME NEW s \in StreamIds, NEW r \in Stream, NEW k \in SUBSET Told,
         Sound(s, r, k), r.state = "absent"
  PROVE  Sound(s, NewStream, k)
BY DEF Sound, Explained, NewStream

LEMMA ErroredSound ==
  ASSUME NEW s \in StreamIds, NEW r \in Stream, NEW k \in SUBSET Told, Sound(s, r, k)
  PROVE  Sound(s, StreamErrored(r), k)
<1>1. Explained(s, StreamErrored(r))
  BY StreamOpsExplained DEF Sound
<1>2. /\ StreamErrored(r).state = "closed"
      /\ \A f \in Flags \ {"rstStreamSent"} : f \in StreamErrored(r).flags <=> f \in r.flags
  BY DEF StreamErrored
<1> QED BY <1>1, <1>2 DEF Sound, Flags

LEMMA ResetSound ==
  ASSUME NEW s \in StreamIds, NEW r \in Stream, NEW k \in SUBSET Told, Sound(s, r, k)
  PROVE  Sound(s, ResetReceived(r), Heard(k, {"reset"}))
<1>1. Explained(s, ResetReceived(r))
  BY StreamOpsExplained DEF Sound
<1>2. Heard(k, {"reset"}) = k \cup {"reset"}
  BY DEF Heard, Content
<1> QED BY <1>1, <1>2 DEF Sound, ResetReceived

\* Data on a stream that may still receive it.
LEMMA DataSound ==
  ASSUME NEW s \in StreamIds, NEW r \in Stream, NEW k \in SUBSET Told, NEW b \in BOOLEAN,
         Sound(s, r, k), r.state \in {"open", "halfClosedL"}
  PROVE  Sound(s, IF b THEN EndReceived(r) ELSE r, Heard(k, WithEnd({"data"}, b)))
<1> DEFINE k2 == Heard(k, WithEnd({"data"}, b))
<1>1. /\ "reset" \notin k
      /\ ~IsServer => "end" \notin k
  BY DEF Sound, Explained
<1>2. /\ "reset" \notin k2 /\ "afterReset" \notin k2
      /\ "headers" \in k2 <=> "headers" \in k
      /\ "end" \in k2 <=> "end" \in k \/ b
      /\ ~IsServer => "afterEnd" \notin k2
  BY <1>1 DEF Heard, WithEnd, Sound
<1>3. CASE b
  <2>1. Explained(s, EndReceived(r))
    BY StreamOpsExplained DEF Sound
  <2>2. /\ EndReceived(r).state \in {"closed", "halfClosedR"}
        /\ EndReceived(r).flags = r.flags \cup {"endStreamReceived"}
    BY DEF EndReceived
  <2>3. "rstStreamReceived" \notin EndReceived(r).flags
    BY <2>2 DEF Sound
  <2> HIDE DEF k2
  <2>4. Sound(s, EndReceived(r), k2)
    BY <1>2, <1>3, <2>1, <2>2, <2>3 DEF Sound
  <2> QED BY <1>3, <2>4 DEF k2
<1>4. CASE ~b
  <2> HIDE DEF k2
  <2>1. Sound(s, r, k2)
    BY <1>1, <1>2, <1>4 DEF Sound
  <2> QED BY <1>4, <2>1 DEF k2
<1> QED BY <1>3, <1>4

\* The application's END_STREAM, on a stream it may still send on.
LEMMA EndSentSound ==
  ASSUME NEW s \in StreamIds, NEW r \in Stream, NEW k \in SUBSET Told, Sound(s, r, k),
         r.state \notin {"halfClosedL", "closed"}
  PROVE  Sound(s, EndSent(r), k)
<1>1. Explained(s, EndSent(r))
  BY StreamOpsExplained DEF Sound
<1>2. /\ \A f \in Flags \ {"endStreamSent"} : f \in EndSent(r).flags <=> f \in r.flags
      /\ EndSent(r).state = IF r.state = "halfClosedR" THEN "closed" ELSE "halfClosedL"
  BY DEF EndSent
<1>3. r.state # "halfClosedR" => "endStreamReceived" \notin r.flags
  BY DEF Sound, Explained, Stream, StreamState
<1>4. "rstStreamReceived" \notin r.flags
  BY DEF Sound
<1> QED BY <1>1, <1>2, <1>3, <1>4 DEF Sound, Flags

\* The server's response: sendHeaders does not look at the state, so it may
\* take a stream from closed back to halfClosedL.
LEMMA ResponseSound ==
  ASSUME NEW s \in StreamIds, NEW r \in Stream, NEW k \in SUBSET Told, NEW b \in BOOLEAN,
         Sound(s, r, k), IsServer, "headers" \in k, "reset" \notin k
  PROVE  Sound(s, HeadersSent(r, b), k)
<1>1. Explained(s, HeadersSent(r, b))
  BY StreamOpsExplained DEF Sound
<1>2. /\ \A f \in Flags \ {"endStreamSent"} : f \in HeadersSent(r, b).flags <=> f \in r.flags
      /\ r.flags \subseteq HeadersSent(r, b).flags
  BY DEF HeadersSent, EndSent, Stream
<1> QED BY <1>1, <1>2 DEF Sound, Flags

\* The client's request, on a stream of its own.
LEMMA RequestSound ==
  ASSUME NEW s \in StreamIds, NEW r \in Stream, NEW k \in SUBSET Told, NEW b \in BOOLEAN,
         Sound(s, r, k), r.state = "absent"
  PROVE  Sound(s, HeadersSent(NewStream, b), k)
<1> DEFINE open == [state |-> "open", flags |-> {}]
<1>1. Sound(s, open, k)
  BY DEF Sound, Explained
<1>2. open \in Stream
  BY DEF Stream, StreamState
<1>3. Sound(s, EndSent(open), k)
  BY <1>1, <1>2, EndSentSound
<1>4. HeadersSent(NewStream, b) = IF b THEN EndSent(open) ELSE open
  BY DEF HeadersSent, NewStream
<1> QED BY <1>1, <1>3, <1>4

\* The peer's headers, on a stream that accepts them.
LEMMA HeadersSound ==
  ASSUME NEW s \in StreamIds, NEW r \in Stream, NEW k \in SUBSET Told, NEW b \in BOOLEAN,
         NEW c \in BOOLEAN, Sound(s, r, k), r.state # "absent", Accepts(r, "headers")
  PROVE  Sound(s, HeadersReceived(r, b, c),
               IF ~IsTailer(r) /\ c THEN Heard(k, WithEnd({"headers"}, b)) ELSE k)
<1> DEFINE q  == HeadersReceived(r, b, c)
           k2 == IF ~IsTailer(r) /\ c THEN Heard(k, WithEnd({"headers"}, b)) ELSE k
<1>1. /\ r.state \in {"idle", "reservedR", "open", "halfClosedL", "closed"}
      /\ "rstStreamReceived" \notin r.flags
      /\ "endStreamReceived" \in r.flags =>
           r.state = "halfClosedL" /\ "headersReceived" \in r.flags /\ IsServer
  <2>1. r.state # "halfClosedR"
    BY DEF Accepts, StreamErrs, AfterHalfClosedR
  <2>2. r.state = "closed" => /\ "rstStreamReceived" \notin r.flags
                              /\ "endStreamReceived" \notin r.flags
    BY DEF Accepts, StreamErrs, EndedByPeer
  <2> QED BY <2>1, <2>2 DEF Sound, Explained, Stream, StreamState
<1>2. /\ q.state \in {"open", "closed", "halfClosedL", "halfClosedR"}
      /\ b => q.state \in {"closed", "halfClosedR"}
      /\ ~b /\ q.state = "halfClosedL" => r.state \in {"halfClosedL", "reservedR"}
      /\ "endStreamReceived" \in q.flags <=> "endStreamReceived" \in r.flags \/ b
      /\ "rstStreamReceived" \notin q.flags
      /\ "headersReceived" \in q.flags
      /\ IsTailer(r) => "tailersReceived" \in q.flags
      /\ ~IsTailer(r) => ("headersEnd" \in q.flags <=> c)
  BY <1>1 DEF HeadersReceived, EndReceived, Assign, IsTailer
<1>3. /\ "reset" \notin k2 /\ "afterReset" \notin k2
      /\ ~IsServer => "afterEnd" \notin k2
      /\ "end" \in k2 => "end" \in k \/ b
      /\ "end" \in k => "end" \in k2
      /\ ~IsTailer(r) /\ c /\ b => "end" \in k2
  BY <1>1 DEF Sound, Heard, WithEnd
<1>4. Explained(s, q)
  BY StreamOpsExplained DEF Sound
<1>5. "end" \in k => "endStreamReceived" \in r.flags
  BY DEF Sound
<1> HIDE DEF q, k2
<1>6. "endStreamReceived" \in q.flags /\ "headersEnd" \in q.flags /\ "tailersReceived" \notin q.flags
        => "end" \in k2
  BY <1>1, <1>2, <1>3 DEF IsTailer
<1>7. q.state = "halfClosedL" /\ "endStreamReceived" \in q.flags => IsServer
  BY <1>1, <1>2
<1>8. Sound(s, q, k2)
  BY <1>2, <1>3, <1>4, <1>5, <1>6, <1>7 DEF Sound
<1> QED BY <1>8 DEF q, k2

\* A promised stream, whatever was there before.
LEMMA PromiseSound ==
  ASSUME NEW s \in StreamIds, NEW b \in BOOLEAN, Promised(s)
  PROVE  Sound(s, [state |-> "reservedR", flags |-> Assign({"headersReceived"}, "headersEnd", b)],
               IF b THEN {"headers"} ELSE {})
BY DEF Sound, Explained, Assign

-----------------------------------------------------------------------------
(* One step, seen from the whole map. *)

\* A step that replaces one stream object and counts it right.
LEMMA LocalStep ==
  ASSUME Inv, NEW s \in StreamIds, NEW q \in Stream, NEW k \in SUBSET Told,
         streams' = [streams EXCEPT ![s] = q], told' = [told EXCEPT ![s] = k],
         Sound(s, q, k), openedStreamCount' \in Int, leaked' \in Int,
         openedStreamCount' - leaked' = openedStreamCount - leaked + Bit(q) - Bit(streams[s])
  PROVE  OpenedCountExact' /\ AllSound'
<1>1. OpenedCountExact'
  <2>1. /\ openedStreamCount = Cardinality(OpenIn(streams)) + leaked
        /\ streams \in [StreamIds -> Stream] /\ leaked \in Nat
    BY DEF Inv, Core, OpenedCountExact, OpenStreams, TypeOK
  <2>2. /\ Cardinality(OpenIn(streams)) \in Nat
        /\ Cardinality(OpenIn(streams')) = Cardinality(OpenIn(streams)) + Bit(q) - Bit(streams[s])
    BY <2>1, OpenCount
  <2>3. Bit(q) \in Int /\ Bit(streams[s]) \in Int
    BY DEF Bit
  <2>4. openedStreamCount' = Cardinality(OpenIn(streams')) + leaked'
    BY <2>1, <2>2, <2>3
  <2> QED BY <2>4 DEF OpenedCountExact, OpenStreams, OpenIn
<1>2. AllSound'
  <2>1. \A t \in StreamIds : streams'[t] = (IF t = s THEN q ELSE streams[t])
                           /\ told'[t] = (IF t = s THEN k ELSE told[t])
    BY DEF Inv, TypeOK
  <2> QED BY <2>1 DEF Inv, Core, AllSound, Sound, Explained
<1> QED BY <1>1, <1>2

\* The same for SetStream, which counts right when no stream leaves the open
\* states except by closing.
LEMMA SetStreamStep ==
  ASSUME Inv, NEW s \in StreamIds, NEW q \in Stream, NEW k \in SUBSET Told,
         SetStream(s, q), told' = [told EXCEPT ![s] = k], leaked' = leaked,
         Sound(s, q, k),
         InOpen(streams[s].state) => InOpen(q.state) \/ q.state = "closed"
  PROVE  OpenedCountExact' /\ AllSound'
<1>1. OpenDelta(streams[s].state, q.state) = Bit(q) - Bit(streams[s])
  BY DEF OpenDelta, Bit, InOpen
<1>2. openedStreamCount' \in Int
  BY SetStreamType DEF Inv
<1>3. /\ openedStreamCount' - leaked' = openedStreamCount - leaked + Bit(q) - Bit(streams[s])
      /\ leaked' \in Int
  BY <1>1 DEF SetStream, Inv, TypeOK, Bit
<1> QED BY <1>2, <1>3, LocalStep DEF SetStream

\* A step that leaves the streams alone.
LEMMA QuietStep ==
  ASSUME Inv, UNCHANGED <<streams, openedStreamCount, told, leaked>>
  PROVE  OpenedCountExact' /\ AllSound'
<1>1. OpenedCountExact'
  BY DEF Inv, Core, OpenedCountExact, OpenStreams, OpenIn
<1>2. AllSound'
  BY DEF Inv, Core, AllSound, Sound, Explained
<1> QED BY <1>1, <1>2

\* No request is sent, and no local stream of a client appears.
LEMMA FreshStep ==
  ASSUME Inv, UNCHANGED nextStreamId,
         \A t \in StreamIds : ~IsServer /\ streams'[t].state # "absent" => Has(t) \/ Promised(t)
  PROVE  NextIdFresh'
BY DEF Inv, Core, NextIdFresh, Has, Promised

\* The error paths that every handler shares.
LEMMA StreamErrorStep ==
  ASSUME Inv, NEW s \in StreamIds,
         FailConnection \/ NoEffect \/ (Has(s) /\ FailStream(s))
  PROVE  Core'
<1>1. CASE FailConnection \/ NoEffect
  <2>1. UNCHANGED <<streams, openedStreamCount, told, leaked, nextStreamId, app>>
    BY <1>1 DEF FailConnection, NoEffect, idVars
  <2>2. OpenedCountExact' /\ AllSound'
    BY <2>1, QuietStep
  <2>3. NextIdFresh'
    BY <2>1, FreshStep DEF Has
  <2> QED BY <2>1, <2>2, <2>3 DEF Core, Inv, HeldByServer
<1>2. CASE Has(s) /\ FailStream(s)
  <2> DEFINE q == StreamErrored(streams[s])
  <2>0. streams[s] \in Stream /\ told[s] \in SUBSET Told /\ Sound(s, streams[s], told[s])
    BY DEF Inv, Core, AllSound, TypeOK
  <2>1. q \in Stream /\ Sound(s, q, told[s]) /\ q.state = "closed"
    BY <2>0, StreamOps, ErroredSound DEF StreamErrored
  <2>2. /\ SetStream(s, q) /\ told' = [told EXCEPT ![s] = told[s]] /\ leaked' = leaked
        /\ nextStreamId' = nextStreamId /\ app' = app
    BY <1>2 DEF FailStream, idVars, Inv, TypeOK
  <2> HIDE DEF q
  <2>3. OpenedCountExact' /\ AllSound'
    BY <2>0, <2>1, <2>2, SetStreamStep
  <2>4. NextIdFresh'
    BY <1>2, <2>2, FreshStep DEF SetStream, Has, Inv, TypeOK
  <2> QED BY <2>2, <2>3, <2>4 DEF Core, Inv, HeldByServer
<1> QED BY <1>1, <1>2

\* The peer's frames.
LEMMA HandledStep ==
  ASSUME Inv, TypeOK', Handled
  PROVE  Core'
<1>0. \A s \in StreamIds : /\ streams[s] \in Stream /\ told[s] \in SUBSET Told
                          /\ Sound(s, streams[s], told[s])
  BY DEF Inv, Core, AllSound, TypeOK
<1>f. /\ told \in [StreamIds -> SUBSET Told] /\ streams \in [StreamIds -> Stream]
      /\ openedStreamCount \in Int /\ leaked \in Nat
  BY DEF Inv, TypeOK
<1>1. ASSUME NEW s \in StreamIds, NEW b \in BOOLEAN, RecvData(s, b)
      PROVE  Core'
  <2>1. CASE NoEffect \/ FailConnection \/ (Has(s) /\ FailStream(s))
    BY <2>1, StreamErrorStep
  <2>2. CASE /\ Has(s) /\ streams[s].state \in {"open", "halfClosedL"}
             /\ SetStream(s, IF b THEN EndReceived(streams[s]) ELSE streams[s])
             /\ Tell(s, WithEnd({"data"}, b))
             /\ UNCHANGED <<connState, idVars, expectedContinuation, app, leaked>>
    <3> DEFINE q == IF b THEN EndReceived(streams[s]) ELSE streams[s]
               k == Heard(told[s], WithEnd({"data"}, b))
    <3>1. q \in Stream
      BY <1>0, StreamOps
    <3>2. Sound(s, q, k)
      BY <1>0, <2>2, DataSound
    <3>3. told' = [told EXCEPT ![s] = k]
      BY <2>2 DEF Tell
    <3>4. k \in SUBSET Told
      BY <1>f, <3>3 DEF TypeOK
    <3>5. InOpen(q.state) \/ q.state = "closed"
      BY <2>2 DEF EndReceived, InOpen
    <3>6. SetStream(s, q) /\ leaked' = leaked /\ nextStreamId' = nextStreamId /\ app' = app
      BY <2>2 DEF idVars
    <3> HIDE DEF q, k
    <3>7. OpenedCountExact' /\ AllSound'
      BY <3>1, <3>2, <3>3, <3>4, <3>5, <3>6, SetStreamStep
    <3>8. NextIdFresh'
      BY <2>2, <1>f, <3>6, FreshStep DEF SetStream, Has
    <3> QED BY <3>6, <3>7, <3>8 DEF Core, Inv, HeldByServer
  <2> QED BY <1>1, <2>1, <2>2 DEF RecvData
<1>2. ASSUME NEW s \in StreamIds, NEW b \in BOOLEAN, NEW c \in Blocks, RecvHeaders(s, b, c)
      PROVE  Core'
  <2>1. CASE NoEffect \/ FailConnection
    BY <2>1, StreamErrorStep
  <2>2. ASSUME NEW r \in Stream, Sound(s, r, told[s]), r.state # "absent",
               InOpen(streams[s].state) => r = streams[s],
               OpenDelta(r.state, "closed") = OpenDelta(streams[s].state, "closed"),
               StreamHeaders(s, r, b, c = "last"),
               leaked' = leaked
        PROVE  OpenedCountExact' /\ AllSound'
    <3>1. CASE SetStream(s, StreamErrored(r)) /\ UNCHANGED told
      <4>1. StreamErrored(r) \in Stream /\ Sound(s, StreamErrored(r), told[s])
        BY <1>0, <2>2, StreamOps, ErroredSound
      <4>2. StreamErrored(r).state = "closed"
        BY DEF StreamErrored
      <4>3. told' = [told EXCEPT ![s] = told[s]]
        BY <1>f, <3>1
      <4> QED BY <1>0, <2>2, <3>1, <4>1, <4>2, <4>3, SetStreamStep
    <3>2. CASE /\ Accepts(r, "headers")
               /\ SetStream(s, HeadersReceived(r, b, c = "last"))
               /\ IF ~IsTailer(r) /\ c = "last"
                  THEN Tell(s, WithEnd({"headers"}, b)) ELSE UNCHANGED told
      <4> DEFINE q == HeadersReceived(r, b, c = "last")
                 k == IF ~IsTailer(r) /\ c = "last"
                      THEN Heard(told[s], WithEnd({"headers"}, b)) ELSE told[s]
      <4>1. q \in Stream /\ Sound(s, q, k)
        BY <1>0, <2>2, <3>2, StreamOps, HeadersSound
      <4>2. told' = [told EXCEPT ![s] = k]
        BY <1>f, <3>2 DEF Tell
      <4>3. k \in SUBSET Told
        BY <1>f, <4>2 DEF TypeOK
      <4>4. InOpen(streams[s].state) => InOpen(q.state) \/ q.state = "closed"
        BY <2>2 DEF HeadersReceived, EndReceived, InOpen
      <4> HIDE DEF q, k
      <4> QED BY <2>2, <3>2, <4>1, <4>2, <4>3, <4>4, SetStreamStep DEF q
    <3> QED BY <2>2, <3>1, <3>2 DEF StreamHeaders
  <2>3. CASE /\ Has(s) /\ StreamHeaders(s, streams[s], b, c = "last")
             /\ UNCHANGED <<connState, idVars, app, leaked>>
    <3>1. OpenedCountExact' /\ AllSound'
      BY <1>0, <2>2, <2>3 DEF Has
    <3>2. NextIdFresh'
      <4>1. \A t \in StreamIds : streams'[t].state # "absent" => Has(t)
        BY <1>f, <2>3 DEF StreamHeaders, SetStream, Has
      <4> QED BY <2>3, <4>1, FreshStep DEF idVars
    <3> QED BY <2>3, <3>1, <3>2 DEF Core, Inv, HeldByServer
  <2>4. CASE /\ HeadersTaken(s) /\ ~Has(s)
             /\ StreamHeaders(s, NewStream, b, c = "last")
             /\ app' = [app EXCEPT ![s] = "held"]
             /\ UNCHANGED <<connState, nextStreamId, leaked>>
    <3>0. IsServer
      BY <2>4 DEF HeadersTaken, HeadersUnwanted
    <3>1. NewStream \in Stream /\ Sound(s, NewStream, told[s]) /\ NewStream.state = "idle"
      BY <1>0, <2>4, NewStreams, AbsentSound DEF Has, NewStream
    <3>2. ~InOpen(streams[s].state)
      BY <2>4 DEF Has, InOpen
    <3>3. OpenDelta(NewStream.state, "closed") = OpenDelta(streams[s].state, "closed")
      BY <3>1, <3>2 DEF OpenDelta, InOpen
    <3>4. OpenedCountExact' /\ AllSound'
      BY <2>2, <2>4, <3>1, <3>2, <3>3
    <3>5. NextIdFresh'
      BY <2>4, <3>0, FreshStep
    <3> QED BY <3>0, <3>4, <3>5 DEF Core, HeldByServer
  <2>5. CASE UNCHANGED <<connState, nextStreamId, leaked, app, streams, openedStreamCount, told>>
    BY <2>5, QuietStep, FreshStep DEF Core, Inv, HeldByServer, Has
  <2> QED BY <1>2, <2>1, <2>3, <2>4, <2>5 DEF RecvHeaders
<1>3. ASSUME NEW s \in StreamIds, NEW b \in BOOLEAN, RecvPriority(s, b)
      PROVE  Core'
  BY <1>3, StreamErrorStep DEF RecvPriority
<1>4. ASSUME NEW s \in StreamIds, RecvRSTStream(s)
      PROVE  Core'
  <2>1. CASE NoEffect \/ FailConnection \/ (Has(s) /\ FailStream(s))
    BY <2>1, StreamErrorStep
  <2>2. CASE /\ Has(s) /\ SetStream(s, ResetReceived(streams[s])) /\ Tell(s, {"reset"})
             /\ UNCHANGED <<connState, idVars, expectedContinuation, app, leaked>>
    <3> DEFINE q == ResetReceived(streams[s])
               k == Heard(told[s], {"reset"})
    <3>1. q \in Stream /\ Sound(s, q, k) /\ q.state = "closed"
      BY <1>0, StreamOps, ResetSound DEF ResetReceived
    <3>2. told' = [told EXCEPT ![s] = k]
      BY <2>2 DEF Tell
    <3>3. k \in SUBSET Told
      BY <1>f, <3>2 DEF TypeOK
    <3>4. SetStream(s, q) /\ leaked' = leaked /\ nextStreamId' = nextStreamId /\ app' = app
      BY <2>2 DEF idVars
    <3> HIDE DEF q, k
    <3>5. OpenedCountExact' /\ AllSound'
      BY <3>1, <3>2, <3>3, <3>4, SetStreamStep
    <3>6. NextIdFresh'
      BY <2>2, <1>f, <3>4, FreshStep DEF SetStream, Has
    <3> QED BY <3>4, <3>5, <3>6 DEF Core, Inv, HeldByServer
  <2> QED BY <1>4, <2>1, <2>2 DEF RecvRSTStream
<1>5. ASSUME NEW s \in StreamIds, NEW p \in StreamIds, NEW c \in Blocks,
             RecvPushPromise(s, p, c)
      PROVE  Core'
  <2>1. CASE FailConnection
    BY <2>1, <1>5, StreamErrorStep
  <2>2. CASE ~FailConnection
    <3> DEFINE q == [state |-> "reservedR",
                     flags |-> Assign({"headersReceived"}, "headersEnd", c = "last")]
               k == IF c = "last" THEN {"headers"} ELSE {}
               lost == IF InOpen(streams[p].state) THEN 1 ELSE 0
    <3>1. /\ Promised(p) /\ streams' = [streams EXCEPT ![p] = q]
          /\ leaked' = leaked + lost /\ told' = [told EXCEPT ![p] = k]
          /\ UNCHANGED <<connState, idVars, openedStreamCount, app>>
      BY <1>5, <2>2 DEF RecvPushPromise
    <3>2. q \in Stream /\ Bit(q) = 0
      BY DEF Stream, StreamState, Flags, Assign, Bit, InOpen
    <3>3. Sound(p, q, k)
      BY <3>1, PromiseSound
    <3>4. k \in SUBSET Told /\ lost = Bit(streams[p]) /\ lost \in Nat
      BY DEF Told, Bit
    <3> HIDE DEF q, k, lost
    <3>5. /\ openedStreamCount' \in Int /\ leaked' \in Int
          /\ openedStreamCount' - leaked'
               = openedStreamCount - leaked + Bit(q) - Bit(streams[p])
      BY <1>f, <3>1, <3>2, <3>4
    <3>6. OpenedCountExact' /\ AllSound'
      BY <3>1, <3>2, <3>3, <3>4, <3>5, LocalStep
    <3>7. NextIdFresh'
      BY <1>f, <3>1, FreshStep DEF Has, idVars
    <3> QED BY <3>1, <3>6, <3>7 DEF Core, Inv, HeldByServer
  <2> QED BY <2>1, <2>2
<1>6. ASSUME RecvGoaway
      PROVE  Core'
  <2>1. OpenIn(streams') = {}
    BY <1>6 DEF RecvGoaway, OpenIn, Absent, InOpen
  <2>2. OpenedCountExact'
    <3>1. IsFiniteSet(OpenStreams)
      BY StreamIdsAssumption, FS_Subset DEF OpenStreams, OpenIn
    <3>2. Cardinality(OpenStreams) \in Nat
      BY <3>1, FS_CardinalityType
    <3>3. Cardinality(OpenIn(streams')) = 0
      BY <2>1, FS_EmptySet
    <3>4. openedStreamCount = Cardinality(OpenStreams) + leaked
      BY DEF Inv, Core, OpenedCountExact
    <3>5. openedStreamCount' = leaked'
      BY <1>6, <1>f, <3>2, <3>4 DEF RecvGoaway
    <3>6. leaked' \in Nat
      BY DEF TypeOK
    <3>7. openedStreamCount' = Cardinality(OpenIn(streams')) + leaked'
      <4> DEFINE n == leaked'
                 c == Cardinality(OpenIn(streams'))
                 m == openedStreamCount'
      <4>1. n \in Nat /\ c = 0 /\ m = n
        BY <3>3, <3>5, <3>6
      <4> HIDE DEF n, c, m
      <4>2. m = c + n
        BY <4>1
      <4> QED BY <4>2 DEF n, c, m
    <3> QED BY <3>7 DEF OpenedCountExact, OpenStreams, OpenIn
  <2>3. \A s \in StreamIds : streams'[s] = Absent /\ told'[s] = {} /\ app'[s] = "free"
    BY <1>6 DEF RecvGoaway
  <2>4. AllSound' /\ HeldByServer'
    BY <2>3, NewSound DEF AllSound, Sound, Explained, HeldByServer
  <2>5. NextIdFresh'
    BY <1>6, <2>3, FreshStep DEF RecvGoaway, idVars, Absent
  <2> QED BY <2>2, <2>4, <2>5 DEF Core
<1>7. ASSUME NEW s \in StreamIds, NEW i \in Increments, RecvWindowUpdate(s, i)
      PROVE  Core'
  <2>1. CASE NoEffect \/ FailConnection \/ (Has(s) /\ FailStream(s))
    BY <2>1, StreamErrorStep
  <2>2. CASE /\ ~Has(s) /\ IsServer
             /\ UNCHANGED <<nextStreamId, openedStreamCount, expectedContinuation, told, leaked>>
             /\ streams' = [streams EXCEPT ![s] = NewStream]
             /\ app' = [app EXCEPT ![s] = "held"]
    <3>1. NewStream \in Stream /\ Sound(s, NewStream, told[s])
      BY <1>0, <2>2, NewStreams, AbsentSound DEF Has
    <3>2. Bit(NewStream) = 0 /\ Bit(streams[s]) = 0
      BY <2>2 DEF Bit, NewStream, Has, InOpen
    <3>3. told' = [told EXCEPT ![s] = told[s]]
      BY <1>f, <2>2
    <3>4. /\ openedStreamCount' \in Int /\ leaked' \in Int
          /\ openedStreamCount' - leaked'
               = openedStreamCount - leaked + Bit(NewStream) - Bit(streams[s])
      BY <1>f, <2>2, <3>2
    <3>5. OpenedCountExact' /\ AllSound'
      BY <1>0, <2>2, <3>1, <3>3, <3>4, LocalStep
    <3>6. NextIdFresh'
      BY <2>2, FreshStep
    <3> QED BY <2>2, <3>5, <3>6 DEF Core, HeldByServer
  <2>3. CASE UNCHANGED <<nextStreamId, openedStreamCount, told, leaked, streams, app>>
    BY <2>3, QuietStep, FreshStep DEF Core, Inv, HeldByServer, Has
  <2> QED BY <1>7, <2>1, <2>2, <2>3 DEF RecvWindowUpdate, StreamError
<1>8. ASSUME NEW s \in StreamIds, NEW c \in Blocks \cup {"empty"}, RecvContinuation(s, c)
      PROVE  Core'
  <2>1. CASE NoEffect \/ FailConnection
    BY <2>1, <1>8, StreamErrorStep
  <2>2. CASE ~(NoEffect \/ FailConnection)
    <3>1. /\ UNCHANGED <<idVars, app, told, leaked>> /\ Has(s)
          /\ \/ SetStream(s, StreamErrored(streams[s]))
             \/ UNCHANGED <<streams, openedStreamCount>>
      BY <1>8, <2>2 DEF RecvContinuation
    <3>2. CASE UNCHANGED <<streams, openedStreamCount>>
      BY <3>1, <3>2, QuietStep, FreshStep DEF Core, Inv, HeldByServer, Has, idVars
    <3>3. CASE SetStream(s, StreamErrored(streams[s]))
      <4> DEFINE q == StreamErrored(streams[s])
      <4>1. q \in Stream /\ Sound(s, q, told[s]) /\ q.state = "closed"
        BY <1>0, StreamOps, ErroredSound DEF StreamErrored
      <4>2. told' = [told EXCEPT ![s] = told[s]]
        BY <1>f, <3>1
      <4>3. SetStream(s, q)
        BY <3>3
      <4> HIDE DEF q
      <4>4. OpenedCountExact' /\ AllSound'
        BY <1>0, <3>1, <4>1, <4>2, <4>3, SetStreamStep
      <4>5. NextIdFresh'
        BY <1>f, <3>1, <4>3, FreshStep DEF SetStream, Has, idVars
      <4> QED BY <3>1, <4>4, <4>5 DEF Core, Inv, HeldByServer
    <3> QED BY <3>1, <3>2, <3>3
  <2> QED BY <2>1, <2>2
<1>9. CASE NoEffect \/ FailConnection
  <2>1. UNCHANGED <<streams, openedStreamCount, told, leaked, nextStreamId, app>>
    BY <1>9 DEF FailConnection, NoEffect, idVars
  <2> QED BY <2>1, QuietStep, FreshStep DEF Core, Inv, HeldByServer, Has
<1> QED BY <1>1, <1>2, <1>3, <1>4, <1>5, <1>6, <1>7, <1>8, <1>9
        DEF Handled, RecvSettings, RecvPing, RecvConnWindowUpdate

\* The application's calls and the socket's failures.
LEMMA AppStepCore ==
  ASSUME Inv, TypeOK', AppStep
  PROVE  Core'
<1>0. \A s \in StreamIds : /\ streams[s] \in Stream /\ told[s] \in SUBSET Told
                          /\ Sound(s, streams[s], told[s])
  BY DEF Inv, Core, AllSound, TypeOK
<1>f. /\ told \in [StreamIds -> SUBSET Told] /\ streams \in [StreamIds -> Stream]
      /\ app \in [StreamIds -> {"free", "held", "body", "done"}]
      /\ openedStreamCount \in Int /\ leaked \in Nat /\ nextStreamId \in Nat
  BY DEF Inv, TypeOK
<1>1. ASSUME NEW b \in BOOLEAN, SendRequest(b)
      PROVE  Core'
  <2> DEFINE s == nextStreamId
             q == HeadersSent(NewStream, b)
  <2>0. /\ ~IsServer /\ s \in StreamIds /\ nextStreamId' = s + 2
        /\ streams' = [streams EXCEPT ![s] = q]
        /\ openedStreamCount' = openedStreamCount + 1
        /\ app' = [app EXCEPT ![s] = IF b THEN "done" ELSE "body"]
        /\ told' = told /\ leaked' = leaked
    BY <1>1 DEF SendRequest, AppUnchanged, IdAfter
  <2>1. ~Has(s)                                    \* the id is fresh
    <3>1. s % 2 = 1 /\ \A t \in StreamIds : Has(t) /\ ~Promised(t) => t < s
      BY <2>0 DEF Inv, Core, NextIdFresh
    <3>2. ~Promised(s)
      BY <3>1 DEF Promised
    <3> QED BY <1>f, <2>0, <3>1, <3>2
  <2>2. q \in Stream /\ Sound(s, q, told[s]) /\ Bit(q) = 1
    <3>1. streams[s].state = "absent"
      BY <2>1 DEF Has
    <3>2. Sound(s, q, told[s])
      BY <1>0, <2>0, <3>1, RequestSound
    <3>3. q \in Stream
      BY NewStreams, StreamOps
    <3>4. Bit(q) = 1
      BY DEF HeadersSent, NewStream, EndSent, Bit, InOpen
    <3> QED BY <3>2, <3>3, <3>4
  <2>3. Bit(streams[s]) = 0
    BY <2>1 DEF Has, Bit, InOpen
  <2>4. told' = [told EXCEPT ![s] = told[s]]
    BY <1>f, <2>0
  <2>5. /\ openedStreamCount' \in Int /\ leaked' \in Int
        /\ openedStreamCount' - leaked' = openedStreamCount - leaked + Bit(q) - Bit(streams[s])
    BY <1>f, <2>0, <2>2, <2>3
  <2>6. OpenedCountExact' /\ AllSound'
    BY <1>0, <2>0, <2>2, <2>4, <2>5, LocalStep
  <2>7. NextIdFresh'
    <3>1. nextStreamId' % 2 = 1
      BY <1>f, <2>0 DEF Inv, Core, NextIdFresh
    <3>2. ASSUME NEW t \in StreamIds, streams'[t].state # "absent", ~Promised(t)
          PROVE  t < nextStreamId'
      <4>1. t \in Nat
        BY StreamIdsAssumption
      <4>2. CASE t = s
        BY <1>f, <2>0, <4>1, <4>2
      <4>3. CASE t # s
        <5>1. t < s
          BY <1>f, <2>0, <3>2, <4>3 DEF Inv, Core, NextIdFresh, Has
        <5> QED BY <1>f, <2>0, <4>1, <5>1
      <4> QED BY <4>2, <4>3
    <3> QED BY <3>1, <3>2 DEF NextIdFresh, Has, Promised
  <2>8. HeldByServer'
    BY <1>f, <2>0 DEF HeldByServer, Inv, Core
  <2> QED BY <2>6, <2>7, <2>8 DEF Core
<1>2. ASSUME NEW s \in StreamIds, NEW b \in BOOLEAN, SendResponse(s, b)
      PROVE  Core'
  <2> DEFINE q == HeadersSent(streams[s], b)
  <2>0. IsServer /\ "headers" \in told[s] /\ "reset" \notin told[s]
    BY <1>2 DEF SendResponse, Inv, Core, HeldByServer
  <2>1. q \in Stream /\ Sound(s, q, told[s])
    BY <1>0, <2>0, StreamOps, ResponseSound
  <2>2. InOpen(streams[s].state) => InOpen(q.state) \/ q.state = "closed"
    BY <1>0 DEF HeadersSent, EndSent, InOpen, Stream
  <2>3. /\ SetStream(s, q) /\ told' = [told EXCEPT ![s] = told[s]] /\ leaked' = leaked
        /\ nextStreamId' = nextStreamId
    BY <1>2, <1>f DEF SendResponse, AppUnchanged
  <2> HIDE DEF q
  <2>4. OpenedCountExact' /\ AllSound'
    BY <1>0, <2>1, <2>2, <2>3, SetStreamStep
  <2>5. NextIdFresh'
    BY <2>0, <2>3, FreshStep
  <2> QED BY <2>0, <2>4, <2>5 DEF Core, HeldByServer
<1>3. ASSUME NEW s \in StreamIds, NEW b \in BOOLEAN, FinishBody(s, b)
      PROVE  Core'
  <2>0. HeldByServer'
    BY <1>3, <1>f DEF FinishBody, Inv, Core, HeldByServer
  <2>1. nextStreamId' = nextStreamId /\ leaked' = leaked /\ told' = told
    BY <1>3 DEF FinishBody, AppUnchanged
  <2>2. CASE UNCHANGED <<streams, openedStreamCount>>
    BY <2>0, <2>1, <2>2, QuietStep, FreshStep DEF Core, Has
  <2>3. CASE /\ streams[s].state \notin {"halfClosedL", "closed", "absent"}
             /\ SetStream(s, EndSent(streams[s]))
    <3> DEFINE q == EndSent(streams[s])
    <3>1. q \in Stream /\ Sound(s, q, told[s])
      BY <1>0, <2>3, StreamOps, EndSentSound
    <3>2. InOpen(q.state) \/ q.state = "closed"
      BY DEF EndSent, InOpen
    <3>3. told' = [told EXCEPT ![s] = told[s]]
      BY <1>f, <2>1
    <3>4. SetStream(s, q)
      BY <2>3
    <3> HIDE DEF q
    <3>5. OpenedCountExact' /\ AllSound'
      BY <1>0, <2>1, <3>1, <3>2, <3>3, <3>4, SetStreamStep
    <3>6. NextIdFresh'
      BY <1>f, <2>1, <2>3, <3>4, FreshStep DEF SetStream, Has
    <3> QED BY <2>0, <3>5, <3>6 DEF Core
  <2> QED BY <1>3, <2>2, <2>3 DEF FinishBody, Has
<1>4. ASSUME NEW s \in StreamIds, CloseStream(s)
      PROVE  Core'
  <2>0. HeldByServer' /\ leaked' = leaked /\ nextStreamId' = nextStreamId
    BY <1>4, <1>f DEF CloseStream, idVars, Inv, Core, HeldByServer
  <2>1. CASE UNCHANGED <<streams, openedStreamCount, told>>
    BY <2>0, <2>1, QuietStep, FreshStep DEF Core, Has
  <2>2. CASE /\ streams[s].state \notin {"closed", "idle"}
             /\ streams' = [streams EXCEPT ![s] = Absent]
             /\ openedStreamCount' = openedStreamCount + OpenDelta(streams[s].state, "closed")
             /\ told' = [told EXCEPT ![s] = {}]
    <3>1. OpenDelta(streams[s].state, "closed") = Bit(Absent) - Bit(streams[s])
      BY DEF OpenDelta, Bit, Absent, InOpen
    <3>2. /\ openedStreamCount' \in Int /\ leaked' \in Int
          /\ openedStreamCount' - leaked'
               = openedStreamCount - leaked + Bit(Absent) - Bit(streams[s])
      BY <1>f, <2>0, <2>2, <3>1 DEF Bit
    <3>3. Absent \in Stream /\ Sound(s, Absent, {}) /\ {} \in SUBSET Told
      BY NewStreams, NewSound
    <3>4. OpenedCountExact' /\ AllSound'
      BY <2>2, <3>2, <3>3, LocalStep
    <3>5. NextIdFresh'
      BY <1>f, <2>0, <2>2, FreshStep DEF Has, Absent
    <3> QED BY <2>0, <3>4, <3>5 DEF Core
  <2> QED BY <1>4, <2>1, <2>2 DEF CloseStream
<1>5. CASE CloseConnection
  BY <1>5, QuietStep, FreshStep DEF CloseConnection, Core, Inv, HeldByServer, Has, idVars
<1> QED BY <1>1, <1>2, <1>3, <1>4, <1>5 DEF AppStep

LEMMA CoreStep == Inv /\ [Next]_vars => Inv'
<1> SUFFICES ASSUME Inv, [Next]_vars
             PROVE  Inv'
  OBVIOUS
<1>1. TypeOK'
  BY TypeStep DEF Inv
<1>2. CASE Handled
  BY <1>1, <1>2, HandledStep DEF Inv
<1>3. CASE InterruptedHeaderBlock \/ FrameRefused
  <2>1. UNCHANGED <<streams, openedStreamCount, told, leaked, nextStreamId, app>>
    BY <1>3 DEF InterruptedHeaderBlock, FrameRefused, FailConnection, idVars
  <2> QED BY <1>1, <2>1, QuietStep, FreshStep DEF Core, Inv, HeldByServer, Has
<1>4. ASSUME NEW s \in StreamIds, FrameRefusedOnStream(s)
      PROVE  Inv'
  <2>1. UNCHANGED <<told, leaked, nextStreamId, app>>
    BY <1>4 DEF FrameRefusedOnStream, idVars
  <2>2. CASE UNCHANGED <<streams, openedStreamCount>>
    BY <1>1, <2>1, <2>2, QuietStep, FreshStep DEF Core, Inv, HeldByServer, Has
  <2>3. CASE Has(s) /\ SetStream(s, StreamErrored(streams[s]))
    <3> DEFINE q == StreamErrored(streams[s])
    <3>0. /\ streams[s] \in Stream /\ told[s] \in SUBSET Told
          /\ Sound(s, streams[s], told[s]) /\ streams \in [StreamIds -> Stream]
      BY DEF Inv, Core, AllSound, TypeOK
    <3>1. q \in Stream /\ Sound(s, q, told[s]) /\ q.state = "closed"
      BY <3>0, StreamOps, ErroredSound DEF StreamErrored
    <3>2. told' = [told EXCEPT ![s] = told[s]]
      BY <2>1 DEF Inv, TypeOK
    <3>3. SetStream(s, q)
      BY <2>3
    <3> HIDE DEF q
    <3>4. OpenedCountExact' /\ AllSound'
      BY <2>1, <3>0, <3>1, <3>2, <3>3, SetStreamStep
    <3>5. NextIdFresh'
      BY <2>1, <2>3, <3>0, <3>3, FreshStep DEF SetStream, Has
    <3> QED BY <1>1, <2>1, <3>4, <3>5 DEF Core, Inv, HeldByServer
  <2> QED BY <1>4, <2>2, <2>3 DEF FrameRefusedOnStream
<1>5. CASE AppStep
  BY <1>1, <1>5, AppStepCore DEF Inv
<1>6. CASE SocketFailed \/ UNCHANGED vars
  <2>1. UNCHANGED <<streams, openedStreamCount, told, leaked, nextStreamId, app>>
    BY <1>6 DEF SocketFailed, vars, idVars
  <2> QED BY <1>1, <2>1, QuietStep, FreshStep DEF Core, Inv, HeldByServer, Has
<1> QED BY <1>2, <1>3, <1>4, <1>5, <1>6 DEF Next, PeerStep

\* The inductive invariant holds of every reachable state.
THEOREM Invariance == Spec => []Inv
<1>1. Init => Inv
  <2>1. Init => TypeOK
    BY FirstIdAssumption DEF Init, TypeOK, Absent, Stream, StreamState
  <2>2. ASSUME Init
        PROVE  Core
    <3>1. OpenedCountExact
      <4>1. OpenStreams = {}
        BY <2>2 DEF Init, OpenStreams, OpenIn, Absent, InOpen
      <4> QED BY <2>2, <4>1, FS_EmptySet DEF Init, OpenedCountExact
    <3>2. NextIdFresh
      BY <2>2, FirstIdAssumption, RoleAssumption DEF Init, NextIdFresh, Has, Absent
    <3>3. AllSound /\ HeldByServer
      BY <2>2, NewSound DEF Init, AllSound, HeldByServer
    <3> QED BY <3>1, <3>2, <3>3 DEF Core
  <2> QED BY <2>1, <2>2 DEF Inv
<1> QED BY <1>1, CoreStep, PTL DEF Spec

-----------------------------------------------------------------------------
(* What follows from it. *)

\* The counter behind the limit on concurrent streams is exact: it counts the
\* open streams, plus those the map lost while they were open.
THEOREM OpenedCountCorrect == Spec => []OpenedCountExact
<1>1. Inv => OpenedCountExact
  BY DEF Inv, Core
<1> QED BY <1>1, Invariance, PTL

\* Every stream's state is explained by the frames sent and received on it.
THEOREM StatesExplained == Spec => []StateExplained
<1>1. Inv => StateExplained
  BY DEF Inv, Core, AllSound, Sound, StateExplained
<1> QED BY <1>1, Invariance, PTL

\* The application was told of a stream's reset and end exactly as the peer's
\* frames said.
THEOREM CallbacksCorrect == Spec => []CallbacksMatchFlags
<1>1. Inv => CallbacksMatchFlags
  BY DEF Inv, Core, AllSound, Sound, CallbacksMatchFlags
<1> QED BY <1>1, Invariance, PTL

\* No headers, data or end reach the application after a reset by the peer.
THEOREM ResetIsLast == Spec => []NothingAfterReset
<1>1. Inv => NothingAfterReset
  BY DEF Inv, Core, AllSound, Sound, NothingAfterReset
<1> QED BY <1>1, Invariance, PTL

\* On a client nothing follows the end of a stream either (on a server it may:
\* a stream that reopens takes DATA again).
THEOREM EndIsLast == ASSUME ~IsServer PROVE Spec => []NothingAfterEnd
<1>1. Inv => NothingAfterEnd
  BY DEF Inv, Core, AllSound, Sound, NothingAfterEnd
<1> QED BY <1>1, Invariance, PTL

\* A request takes an id that no stream of the client has.
THEOREM RequestsAreFresh == Spec => []NextIdFresh
<1>1. Inv => NextIdFresh
  BY DEF Inv, Core
<1> QED BY <1>1, Invariance, PTL

\* All of it together, for a connection of either role (the run of the client checks
\* it as one property).
THEOREM StreamsAreSound == Spec => []StreamsSound
<1>1. Inv => StreamsSound
  BY DEF Inv, Core, AllSound, Sound, StreamsSound, StateExplained, CallbacksMatchFlags,
         NothingAfterReset
<1> QED BY <1>1, Invariance, PTL
=============================================================================
