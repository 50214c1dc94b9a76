---------------------------- MODULE H2Connection ----------------------------
(***************************************************************************)
(* The streams of one HTTP/2 connection, seen from one endpoint: the frame *)
(* dispatch of H2Connection.swift and the stream state machine of          *)
(* H2Stream.swift, from the moment the connection is open.                 *)
(*                                                                         *)
(* The peer may send any frame that FrameParser hands over, in any order.  *)
(* The application behaves as Http2Request (client) and Http2Response      *)
(* (server) do: it may act between two frames, never inside a handler,     *)
(* because every handler calls back into it as its last statement.         *)
(*                                                                         *)
(* Header blocks, window sizes and payloads are reduced to the outcome the *)
(* code branches on.  `streams` stands for the two dictionaries `streams`  *)
(* and `promisedStreams`; the parity of the id selects one of them.        *)
(***************************************************************************)
EXTENDS Integers, FiniteSets

CONSTANTS
  IsServer,               \* TcpConnection.isServer
  StreamIds,              \* the stream ids that occur
  MaxConcurrentStreams,   \* H2Connection.maxConcurrentStreams (128 in the code)
  FirstStreamId,          \* nextStreamId once the connection is open
  MaxLeaked               \* bound on `leaked`

ASSUME StreamIdsAssumption ==
  /\ StreamIds \subseteq Nat \ {0}
  /\ IsFiniteSet(StreamIds)
ASSUME RoleAssumption   == IsServer \in BOOLEAN
ASSUME BoundsAssumption == /\ MaxConcurrentStreams \in Nat
                           /\ MaxLeaked \in Nat
ASSUME FirstIdAssumption == /\ FirstStreamId \in Nat \ {0}
                            /\ FirstStreamId % 2 = IF IsServer THEN 0 ELSE 1

VARIABLES
  connState,              \* H2Connection.state: "open" or "closed"; "dropped" is
                          \* open above a socket that GOAWAY has closed
  reading,                \* a frame may still be handed over (see Dispatch)
  streams,                \* streams and promisedStreams
  nextStreamId, lastStreamId, openedStreamCount,
  expectedContinuation,   \* streamIdOfExpectedContinuation while
                          \* expectContinuationFrame is true, 0 while it is false
  app,                    \* what the application still does with the stream
  told,                   \* history: what the stream object's callbacks were told
  leaked                  \* history: open stream objects dropped without streamClosed

connVars == <<connState, reading>>
idVars   == <<nextStreamId, lastStreamId>>
vars == <<connVars, streams, idVars, openedStreamCount, expectedContinuation,
          app, told, leaked>>

-----------------------------------------------------------------------------
(* Stream objects. *)

StreamState == {"absent", "idle", "reservedR", "open",
                "halfClosedL", "halfClosedR", "closed"}

\* (tailersEnd is read by unreachable code only, see RecvContinuation.)
Flags == {"headersReceived", "headersEnd", "tailersReceived", "endStreamSent",
          "endStreamReceived", "rstStreamSent", "rstStreamReceived"}

Stream == [state : StreamState, flags : SUBSET Flags]

Absent    == [state |-> "absent", flags |-> {}]
NewStream == [state |-> "idle", flags |-> {}]

Promised(s)   == s % 2 = 0
Has(s)        == streams[s].state # "absent"
InOpen(state) == state \in {"open", "halfClosedL", "halfClosedR"}
OpenIn(ss)    == {s \in StreamIds : InOpen(ss[s].state)}
OpenStreams   == OpenIn(streams)

\* A flag that is assigned rather than raised.
Assign(flags, f, value) == IF value THEN flags \cup {f} ELSE flags \ {f}

\* What a handler does to one stream object, each in terms of the record.
StreamErrored(r) == [state |-> "closed", flags |-> r.flags \cup {"rstStreamSent"}]
ResetReceived(r) == [state |-> "closed", flags |-> r.flags \cup {"rstStreamReceived"}]
EndReceived(r) ==
  [state |-> IF r.state = "halfClosedL" THEN "closed" ELSE "halfClosedR",
   flags |-> r.flags \cup {"endStreamReceived"}]
EndSent(r) ==
  [state |-> IF r.state = "halfClosedR" THEN "closed" ELSE "halfClosedL",
   flags |-> r.flags \cup {"endStreamSent"}]
HeadersSent(r, endStream) ==
  LET sent == IF r.state = "idle" THEN [r EXCEPT !.state = "open"] ELSE r
  IN  IF endStream THEN EndSent(sent) ELSE sent

\* H2Stream.verifyFrame: may a frame of this type reach this stream?
AfterHalfClosedR_Headers == {"headers", "rststream", "priority", "windowUpdate"} \* mutant
AfterHalfClosedR == {"rststream", "priority", "windowUpdate"}
EndedByPeer(r) == r.flags \cap {"rstStreamReceived", "endStreamReceived"} # {}
ConnectionErrs(r, type) ==
  \/ r.state = "idle" /\ type \notin {"headers", "priority", "pushPromise"}
  \/ r.state = "reservedR" /\ type \notin {"headers", "rststream", "priority"}
StreamErrs(r, type) ==
  \/ r.state = "halfClosedR" /\ type \notin AfterHalfClosedR
  \/ r.state = "closed" /\ EndedByPeer(r) /\ type # "priority"
Accepts(r, type) == ~ConnectionErrs(r, type) /\ ~StreamErrs(r, type)

-----------------------------------------------------------------------------
(* Steps shared by the handlers. *)

\* The calls of streamOpened and streamClosed made by a chain of setState.
OpenDelta_NotPaired(old, new) ==                                      \* mutant
  IF InOpen(new) THEN 1 ELSE IF new = "closed" THEN -1 ELSE 0
OpenDelta(old, new) ==
  IF ~InOpen(old) /\ InOpen(new) THEN 1
  ELSE IF InOpen(old) /\ new = "closed" THEN -1 ELSE 0

SetStream(s, r) ==
  /\ streams' = [streams EXCEPT ![s] = r]
  /\ openedStreamCount' = openedStreamCount + OpenDelta(streams[s].state, r.state)

\* The callbacks of stream s are told `kinds`.  Content (headers, data, the
\* end of the stream) told after the end or after a reset leaves a mark.
Content == {"headers", "data", "end"}
Told    == {"headers", "end", "reset", "afterEnd", "afterReset"}
WithEnd(kinds, endStream) == kinds \cup (IF endStream THEN {"end"} ELSE {})
Heard(k, kinds) ==
  k \cup (kinds \ {"data"})
    \cup (IF "end" \in k /\ kinds \cap Content # {} THEN {"afterEnd"} ELSE {})
    \cup (IF "reset" \in k /\ kinds \cap Content # {} THEN {"afterReset"} ELSE {})
Tell(s, kinds) == told' = [told EXCEPT ![s] = Heard(@, kinds)]

FailConnection ==                                  \* connectionError
  /\ connState' = "closed"
  /\ UNCHANGED <<streams, openedStreamCount, idVars, expectedContinuation, app, told, leaked>>
FailStream(s) ==
  /\ SetStream(s, StreamErrored(streams[s]))
  /\ UNCHANGED <<connState, idVars, expectedContinuation, app, told, leaked>>
NoEffect ==
  UNCHANGED <<connState, streams, openedStreamCount, idVars, expectedContinuation,
              app, told, leaked>>

\* H2Connection.streamError: RST_STREAM also for an id without a stream.
StreamError(s) == IF Has(s) THEN FailStream(s) ELSE NoEffect

\* Frames are read while the connection is open; once it is closed or dropped,
\* only those left in the read buffer that FrameParser is in.
ReadOn == reading' \in IF connState' = "open" THEN {TRUE} ELSE BOOLEAN

\* onFrame lets a frame through to its handler; the handler returns true.
Dispatch(type, s) ==
  /\ reading
  /\ expectedContinuation # 0 => type = "continuation" /\ s = expectedContinuation

-----------------------------------------------------------------------------
(* Frames from the peer. *)

\* Any other frame while a header block is unfinished; onFrame returns false.
InterruptedHeaderBlock ==
  /\ reading
  /\ expectedContinuation # 0
  /\ reading' = FALSE
  /\ FailConnection

\* FrameParser refuses the frame: H2Connection.onFrameError, then `failure`.
FrameRefused ==
  /\ reading
  /\ reading' = FALSE
  /\ FailConnection
\* The same, the error being one of the stream: parseInputData closes the
\* connection unless it is closed already.
FrameRefusedOnStream(s) ==
  /\ reading
  /\ reading' = FALSE
  /\ connState' = "closed"
  /\ IF Has(s) THEN SetStream(s, StreamErrored(streams[s]))
               ELSE UNCHANGED <<streams, openedStreamCount>>
  /\ UNCHANGED <<idVars, expectedContinuation, app, told, leaked>>

RecvData(s, endStream) ==
  LET r == streams[s] IN
  /\ Dispatch("data", s)
  /\ \/ ~Has(s) /\ NoEffect
     \/ Has(s) /\ ConnectionErrs(r, "data") /\ FailConnection
     \/ /\ Has(s)
        /\ StreamErrs(r, "data") \/
             (Accepts(r, "data") /\ r.state \notin {"open", "halfClosedL"})
        /\ FailStream(s)
     \/ /\ Has(s)
        /\ Accepts(r, "data") /\ r.state \in {"open", "halfClosedL"}
        /\ SetStream(s, IF endStream THEN EndReceived(r) ELSE r)
        /\ Tell(s, WithEnd({"data"}, endStream))
        /\ UNCHANGED <<connState, idVars, expectedContinuation, app, leaked>>

\* The block fragment of a frame lacks END_HEADERS, completes a block, or
\* completes one that HPACK cannot decode.  A "part" is kept, and CONTINUATION
\* frames must follow.
Blocks == {"part", "last", "corrupt"}
KeepBlock_NextId(s, block) ==                                         \* mutant
  expectedContinuation' = IF block = "part" THEN s + 1 ELSE expectedContinuation
KeepBlock(s, block) ==
  expectedContinuation' = IF block = "part" THEN s ELSE expectedContinuation

\* H2Stream.handleHeadersFrame, once verifyFrame has accepted the frame.
IsTailer(r) == "headersReceived" \in r.flags /\ r.state \in {"open", "halfClosedL"}

HeadersReceived(r, endStream, endHeaders) ==
  LET flags == IF IsTailer(r)
               THEN r.flags \cup {"tailersReceived"}
               ELSE Assign(r.flags \cup {"headersReceived"}, "headersEnd", endHeaders)
      state == IF r.state = "reservedR" THEN "halfClosedL"
               ELSE IF r.state = "idle" THEN "open" ELSE r.state
      got   == [state |-> state, flags |-> flags]
  IN  IF endStream THEN EndReceived(got) ELSE got

StreamHeaders(s, r, endStream, endHeaders) ==
  \/ /\ StreamErrs(r, "headers")
     /\ SetStream(s, StreamErrored(r))
     /\ UNCHANGED told
  \/ /\ Accepts(r, "headers")
     /\ SetStream(s, HeadersReceived(r, endStream, endHeaders))
     /\ IF ~IsTailer(r) /\ endHeaders
        THEN Tell(s, WithEnd({"headers"}, endStream))
        ELSE UNCHANGED told

\* H2Connection.handleHeadersFrame up to the header block: what it returns early.
HeadersOutOfOrder(s) == ~Has(s) /\ s < lastStreamId
HeadersRefused(s)    == /\ ~Has(s) /\ s >= lastStreamId
                        /\ openedStreamCount + 1 > MaxConcurrentStreams
HeadersUnwanted(s)   == ~Has(s) /\ ~IsServer
HeadersTaken(s)      == /\ ~HeadersOutOfOrder(s) /\ ~HeadersRefused(s)
                        /\ ~HeadersUnwanted(s)

RecvHeaders(s, endStream, block) ==
  /\ Dispatch("headers", s)
  /\ \/ HeadersOutOfOrder(s) /\ FailConnection
     \/ HeadersRefused(s) /\ NoEffect
     \/ HeadersUnwanted(s) /\ ~HeadersOutOfOrder(s) /\ ~HeadersRefused(s) /\ NoEffect
     \/ HeadersTaken(s) /\ block = "corrupt" /\ FailConnection
     \/ /\ HeadersTaken(s) /\ Has(s) /\ block # "corrupt"
        /\ KeepBlock(s, block)
        /\ StreamHeaders(s, streams[s], endStream, block = "last")
        /\ UNCHANGED <<connState, idVars, app, leaked>>
     \/ /\ HeadersTaken(s) /\ ~Has(s) /\ block # "corrupt"   \* a new stream
        /\ KeepBlock(s, block)
        /\ UNCHANGED <<connState, nextStreamId, leaked>>
        /\ \/ /\ lastStreamId' = s                                 \* cbAccept: yes
              /\ app' = [app EXCEPT ![s] = "held"]
              /\ StreamHeaders(s, NewStream, endStream, block = "last")
           \/ UNCHANGED <<lastStreamId, app, streams, openedStreamCount, told>>

RecvPriority(s, onItself) ==
  /\ Dispatch("priority", s)
  /\ IF Has(s) /\ onItself THEN FailStream(s) ELSE NoEffect

RecvRSTStream(s) ==
  LET r == streams[s] IN
  /\ Dispatch("rststream", s)
  /\ \/ ~Has(s) /\ NoEffect
     \/ Has(s) /\ ConnectionErrs(r, "rststream") /\ FailConnection
     \/ Has(s) /\ StreamErrs(r, "rststream") /\ FailStream(s)
     \/ /\ Has(s) /\ Accepts(r, "rststream") /\ r.state = "closed"
        /\ NoEffect
     \/ /\ Has(s) /\ Accepts(r, "rststream") /\ r.state # "closed"
        /\ SetStream(s, ResetReceived(r))
        /\ Tell(s, {"reset"})
        /\ UNCHANGED <<connState, idVars, expectedContinuation, app, leaked>>

\* SETTINGS and PING touch no stream; a SETTINGS value may be out of range.
RecvSettings(valid) ==
  /\ Dispatch("settings", 0)
  /\ IF valid THEN NoEffect ELSE FailConnection

RecvPing == Dispatch("ping", 0) /\ NoEffect

\* PUSH_PROMISE on s promises p; createStream replaces whatever p was.  (An
\* even id that a server's application holds is not promised: see README.)
RecvPushPromise(s, p, block) ==
  LET usable == Promised(p) /\ streams[s].state \in {"open", "halfClosedL"}
      lost   == IF InOpen(streams[p].state) THEN 1 ELSE 0
      whole  == block = "last"
  IN
  /\ Dispatch("pushPromise", s)
  /\ \/ (~usable \/ block = "corrupt") /\ FailConnection
     \/ /\ usable /\ block # "corrupt" /\ app[p] = "free"
        /\ leaked + lost <= MaxLeaked
        /\ KeepBlock(p, block)
        /\ streams' = [streams EXCEPT ![p] =
             [state |-> "reservedR",
              flags |-> Assign({"headersReceived"}, "headersEnd", whole)]]
        /\ leaked' = leaked + lost
        /\ told' = [told EXCEPT ![p] = IF whole THEN {"headers"} ELSE {}]
        /\ UNCHANGED <<connState, idVars, openedStreamCount, app>>

\* GOAWAY closes the socket and drops every stream; `state` is not assigned.
RecvGoaway ==
  /\ Dispatch("goaway", 0)
  /\ leaked + Cardinality(OpenStreams) <= MaxLeaked
  /\ connState' = IF connState = "open" THEN "dropped" ELSE connState
  /\ streams' = [s \in StreamIds |-> Absent]
  /\ leaked' = leaked + Cardinality(OpenStreams)
  /\ app' = [s \in StreamIds |-> "free"]
  /\ told' = [s \in StreamIds |-> {}]
  /\ UNCHANGED <<idVars, openedStreamCount, expectedContinuation>>

\* The increment is zero, would exceed the connection's window, or is usable.
Increments == {"zero", "tooLarge", "usable"}

RecvWindowUpdate(s, increment) ==
  LET r == streams[s] IN
  /\ Dispatch("windowUpdate", s)
  /\ \/ increment \in {"zero", "tooLarge"} /\ StreamError(s)
     \/ increment = "usable" /\ ~Has(s) /\ ~IsServer /\ NoEffect
     \/ /\ increment = "usable" /\ ~Has(s) /\ IsServer    \* taken for a new stream
        /\ UNCHANGED <<nextStreamId, openedStreamCount, expectedContinuation, told, leaked>>
        /\ \/ /\ streams' = [streams EXCEPT ![s] = NewStream]
              /\ app' = [app EXCEPT ![s] = "held"]
              /\ lastStreamId' = s
              /\ connState' = "closed"                    \* verifyFrame: idle
           \/ UNCHANGED <<connState, streams, app, lastStreamId>>
     \/ /\ increment = "usable" /\ Has(s)
        /\ \/ ConnectionErrs(r, "windowUpdate") /\ FailConnection
           \/ StreamErrs(r, "windowUpdate") /\ FailStream(s)
           \/ Accepts(r, "windowUpdate") /\ NoEffect

\* On stream 0 a zero increment answers with RST_STREAM on stream 0.
RecvConnWindowUpdate(increment) ==
  /\ Dispatch("windowUpdate", 0)
  /\ IF increment = "tooLarge" THEN FailConnection ELSE NoEffect

\* The stream's own handler goes no further than verifyFrame: it returns if
\* "state != .open || state != .halfClosedL", which is true of every state.  What
\* follows that test, the hand-over of the headers, is never reached.
RecvContinuation(s, block) ==
  LET r == streams[s] IN
  /\ Dispatch("continuation", s)
  /\ \/ expectedContinuation = 0 /\ FailConnection
     \/ expectedContinuation # 0 /\ (~Has(s) \/ block = "empty") /\ NoEffect
     \/ expectedContinuation # 0 /\ Has(s) /\ block = "corrupt" /\ FailConnection
     \/ /\ expectedContinuation # 0 /\ Has(s) /\ block \in {"part", "last"}
        /\ expectedContinuation' = IF block = "last" THEN 0 ELSE expectedContinuation
        /\ UNCHANGED <<idVars, app, told, leaked>>
        /\ connState' = IF ConnectionErrs(r, "continuation") THEN "closed" ELSE connState
        /\ IF StreamErrs(r, "continuation")
           THEN SetStream(s, StreamErrored(r))
           ELSE UNCHANGED <<streams, openedStreamCount>>

-----------------------------------------------------------------------------
(* The application and the socket. *)

AppUnchanged == UNCHANGED <<connVars, lastStreamId, expectedContinuation, told, leaked>>

IdAfter_Next(s) == s + 1                                              \* mutant
IdAfter(s) == s + 2

\* Http2Request.sendHeaders on a ready connection: createStream, HEADERS.
SendRequest(endStream) ==
  LET s == nextStreamId IN
  /\ ~IsServer /\ connState \in {"open", "dropped"} /\ s \in StreamIds
  /\ nextStreamId' = IdAfter(s)
  /\ streams' = [streams EXCEPT ![s] = HeadersSent(NewStream, endStream)]
  /\ openedStreamCount' = openedStreamCount + 1
  /\ app' = [app EXCEPT ![s] = IF endStream THEN "done" ELSE "body"]
  /\ AppUnchanged

\* Http2Response.sendResponse, once the request's headers are there and
\* unless the stream was reset by the peer; sendHeaders has no state guard.
SendResponse(s, endStream) ==
  /\ app[s] = "held" /\ "headers" \in told[s] /\ "reset" \notin told[s]
  /\ SetStream(s, HeadersSent(streams[s], endStream))
  /\ app' = [app EXCEPT ![s] = IF endStream THEN "done" ELSE "body"]
  /\ UNCHANGED nextStreamId /\ AppUnchanged

\* The empty DATA frame with END_STREAM behind the last body byte.  A stream
\* blocked by flow control drops it; the sender is done all the same.
FinishBody(s, blocked) ==
  /\ app[s] = "body" /\ Has(s)
  /\ app' = [app EXCEPT ![s] = "done"]
  /\ IF blocked \/ streams[s].state \in {"halfClosedL", "closed"}
     THEN UNCHANGED <<streams, openedStreamCount>>
     ELSE SetStream(s, EndSent(streams[s]))
  /\ UNCHANGED nextStreamId /\ AppUnchanged

\* H2Stream.close: a closed or idle stream stays in the map.
CloseStream(s) ==
  /\ app[s] # "free"
  /\ app' = [app EXCEPT ![s] = "free"]
  /\ IF streams[s].state \in {"closed", "idle"}
     THEN UNCHANGED <<streams, openedStreamCount, told>>
     ELSE /\ streams' = [streams EXCEPT ![s] = Absent]
          /\ openedStreamCount' = openedStreamCount + OpenDelta(streams[s].state, "closed")
          /\ told' = [told EXCEPT ![s] = {}]
  /\ UNCHANGED <<connVars, idVars, expectedContinuation, leaked>>

\* H2Connection.close, and onError for a socket that failed between two reads.
CloseConnection ==
  /\ connState' = "closed"
  /\ reading' \in {FALSE, reading}
  /\ UNCHANGED <<streams, openedStreamCount, idVars, expectedContinuation, app,
                 told, leaked>>
SocketFailed ==
  /\ connState = "open"
  /\ connState' = "closed" /\ reading' = FALSE
  /\ UNCHANGED <<streams, openedStreamCount, idVars, expectedContinuation, app,
                 told, leaked>>

-----------------------------------------------------------------------------
Init ==
  /\ connState = "open" /\ reading = TRUE
  /\ streams = [s \in StreamIds |-> Absent]
  /\ nextStreamId = FirstStreamId
  /\ lastStreamId = 0 /\ openedStreamCount = 0
  /\ expectedContinuation = 0
  /\ app = [s \in StreamIds |-> "free"]
  /\ told = [s \in StreamIds |-> {}]
  /\ leaked = 0

Handled ==
  \/ \E s \in StreamIds, b \in BOOLEAN : RecvData(s, b)
  \/ \E s \in StreamIds, b \in BOOLEAN, k \in Blocks : RecvHeaders(s, b, k)
  \/ \E s \in StreamIds, b \in BOOLEAN : RecvPriority(s, b)
  \/ \E s \in StreamIds : RecvRSTStream(s)
  \/ \E b \in BOOLEAN : RecvSettings(b)
  \/ RecvPing
  \/ \E s, p \in StreamIds, k \in Blocks : RecvPushPromise(s, p, k)
  \/ RecvGoaway
  \/ \E s \in StreamIds, i \in Increments : RecvWindowUpdate(s, i)
  \/ \E i \in Increments : RecvConnWindowUpdate(i)
  \/ \E s \in StreamIds, b \in Blocks \cup {"empty"} : RecvContinuation(s, b)

PeerStep ==
  \/ Handled /\ ReadOn
  \/ InterruptedHeaderBlock
  \/ FrameRefused
  \/ \E s \in StreamIds : FrameRefusedOnStream(s)

AppStep ==
  \/ \E b \in BOOLEAN : SendRequest(b)
  \/ \E s \in StreamIds, b \in BOOLEAN : SendResponse(s, b)
  \/ \E s \in StreamIds, b \in BOOLEAN : FinishBody(s, b)
  \/ \E s \in StreamIds : CloseStream(s)
  \/ CloseConnection

Next == PeerStep \/ AppStep \/ SocketFailed

Spec == Init /\ [][Next]_vars
-----------------------------------------------------------------------------
(* Properties. *)

\* Every variable has its type; the counter is an integer, not a natural number.
TypeOK ==
  /\ connState \in {"open", "dropped", "closed"} /\ reading \in BOOLEAN
  /\ streams \in [StreamIds -> Stream]
  /\ nextStreamId \in Nat /\ lastStreamId \in StreamIds \cup {0}
  /\ openedStreamCount \in Int
  /\ expectedContinuation \in StreamIds \cup {0}
  /\ app \in [StreamIds -> {"free", "held", "body", "done"}]
  /\ told \in [StreamIds -> SUBSET Told]
  /\ leaked \in Nat

\* streamOpened and streamClosed are called by setState alone, from both ends
\* of a dozen paths; the counter that refuses streams counts the streams of the
\* map in an open state, plus exactly those the map lost while they were open.
OpenedCountExact == openedStreamCount = Cardinality(OpenStreams) + leaked

\* The state of a stream is explained by what was sent and received on it: no
\* path loses an END_STREAM or a RST_STREAM, or closes a stream without one.
Explained(s, r) ==
  LET has(flag) == flag \in r.flags
      reset     == has("rstStreamSent") \/ has("rstStreamReceived")
      sentAll   == has("endStreamSent") \/ Promised(s)
  IN
  /\ r.state = "absent" => r.flags = {}
  /\ r.state \in {"idle", "reservedR", "open"}
       => ~has("endStreamSent") /\ ~has("endStreamReceived") /\ ~reset
  /\ r.state = "reservedR" => Promised(s)
  /\ r.state = "halfClosedL" => sentAll
  /\ r.state = "halfClosedR" => has("endStreamReceived")
  /\ r.state = "closed" => reset \/ (has("endStreamReceived") /\ sentAll)
StateExplained == \A s \in StreamIds : Explained(s, streams[s])

\* What the application was told is what the frames said: a reset by the peer,
\* and the end of the stream unless trailers carried it.
CallbacksMatchFlags == \A s \in StreamIds : LET f == streams[s].flags IN
  /\ "reset" \in told[s] <=> "rstStreamReceived" \in f
  /\ "end" \in told[s] => "endStreamReceived" \in f
  /\ "endStreamReceived" \in f /\ "headersEnd" \in f /\ "tailersReceived" \notin f
       => "end" \in told[s]

\* After a reset by the peer no headers, data or end reach the application,
\* whatever frames follow and whatever the application still sends.
NothingAfterReset == \A s \in StreamIds : "afterReset" \notin told[s]

\* RFC 7540, 6.1 in H2Stream.handleDataFrame: after the peer ended its side of
\* the stream nothing more of it reaches the application.
NothingAfterEnd == \A s \in StreamIds : "afterEnd" \notin told[s]

\* A request never takes over a stream that is there: the ids of local
\* streams, unlike promised ones, are all below nextStreamId.
NextIdFresh == ~IsServer =>
  /\ nextStreamId % 2 = 1
  /\ \A s \in StreamIds : Has(s) /\ ~Promised(s) => s < nextStreamId

\* All that is said of a client's streams so far, among pushed streams and its own.
StreamsSound == /\ OpenedCountExact /\ StateExplained
                /\ CallbacksMatchFlags /\ NothingAfterReset /\ NextIdFresh

\* RFC 7540, 5.1.2 in handleHeadersFrame: no more streams open at a time than
\* maxConcurrentStreams.
ConcurrencyLimit == connState = "open" =>
  Cardinality(OpenStreams) <= MaxConcurrentStreams
=============================================================================
