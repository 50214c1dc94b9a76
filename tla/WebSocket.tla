------------------------------ MODULE WebSocket ------------------------------
(***************************************************************************)
(* Two ends of a WebSocket: WebSocketImpl and WSHandler, over what         *)
(* TcpConnection promises (TcpConnection.tla): bytes arrive in order, and  *)
(* what the socket does not take waits in the send buffer for a write      *)
(* event.  The upgrade request and response are one byte each (HttpParser  *)
(* has their lines); of a frame, the key and the extended length are two   *)
(* bytes.  Text and binary messages are alike.                             *)
(***************************************************************************)
EXTENDS Naturals, Sequences

CONSTANTS MaxFrames,    \* bound on the data frames and pings an application sends
          Lengths       \* lengths of payloads; from LongLen on they are extended

LongLen == 2
ExtLen == 2
KeyLen == 2
ASSUME WsBounds == MaxFrames \in Nat /\ Lengths \subseteq Nat

VARIABLES
  ends,         \* the two ends: WebSocketImpl, WSHandler and TcpConnection
  got,          \* history: the frames each end was given (cbFrame)
  told,         \* history: ends whose application knows that it is over
  early         \* history: the server sent a frame before its upgrade response

vars == <<ends, got, told, early>>

Ends == {"client", "server"}
Peer(x) == IF x = "client" THEN "server" ELSE "client"

Fresh == [state |-> "hdr1", op |-> "none", fin |-> TRUE, mask |-> FALSE, plen |-> 0,
          length |-> 0, pos |-> 0, buf |-> <<>>]

\* An end: its state, that of its handler and of the decoder; whether its socket is
\* there, the send buffer, a write event to come, and the bytes on their way to its
\* peer.  `sent` numbers the frames of its application; `said` is history: the frames
\* it sent.
NewEnd(state) ==
  [state |-> state, handler |-> "handshake", dctx |-> Fresh, fragmented |-> FALSE,
   up |-> FALSE, buffer |-> <<>>, armed |-> FALSE, wire |-> <<>>, sent |-> 0, said |-> <<>>]

Cleaned(e) == [e EXCEPT !.up = FALSE, !.buffer = <<>>, !.armed = FALSE]

-----------------------------------------------------------------------------
(* Frames as bytes: <<which byte, what it says>>. *)

Repeat(byte, n) == [i \in 1..n |-> byte]
Masked(x, f) == x = "client" /\ f.length > 0
\* encodeFrameHeader and sendWsFrame: the client masks what is not empty.
Encode(x, f) ==
  <<<<"hdr1", f.op, f.fin>>, <<"hdr2", Masked(x, f), IF f.length < LongLen THEN f.length ELSE 126>>>>
  \o (IF f.length < LongLen THEN <<>> ELSE Repeat(<<"ext", f.length, 0>>, ExtLen))
  \o (IF Masked(x, f) THEN Repeat(<<"key", 0, 0>>, KeyLen) ELSE <<>>)
  \o Repeat(<<"data", f.id, Masked(x, f)>>, f.length)

\* handleDataMask, on what is decoded.
Unmask_Uncut(c, payload) ==                                     \* mutant
  [i \in 1..Len(payload) |->
     <<"data", payload[i][2], IF c.mask /\ c.buf = <<>> THEN ~payload[i][3] ELSE payload[i][3]>>]
Unmask(c, payload) == [i \in 1..Len(payload) |->
                         <<"data", payload[i][2], IF c.mask THEN ~payload[i][3] ELSE payload[i][3]>>]

Least(a, b) == IF a < b THEN a ELSE b
Rest(d, n) == SubSeq(d, n + 1, Len(d))

\* Whether the payload is there; what is there of a frame that is not, is kept.
HasPayload_More(c, d) == c.length - Len(c.buf) < Len(d)           \* mutant
HasPayload(c, d) == c.length - Len(c.buf) <= Len(d)
Kept(c, d) == c.buf \o d

\* decodeFrame: a loop over the input.  A round is in context r.dctx, with r.data still
\* to read, and r.frames is what the rounds before it yielded.
GoOn(r, c, n) == [r EXCEPT !.dctx = c, !.data = Rest(@, n)]
Returns(r, c) == [r EXCEPT !.dctx = c, !.data = <<>>]
Fails(r) == Returns(r, [r.dctx EXCEPT !.state = "error"])

ReadHdr1(r) ==
  GoOn(r, [r.dctx EXCEPT !.op = r.data[1][2], !.fin = r.data[1][3], !.state = "hdr2"], 1)
ReadHdr2(r) ==
  GoOn(r, [r.dctx EXCEPT !.mask = r.data[1][2], !.plen = r.data[1][3], !.pos = 0, !.buf = <<>>,
                         !.state = "hdrex"], 1)

\* The extended length and the key: as much of them as is there.
Short(r) == GoOn(r, [r.dctx EXCEPT !.length = r.dctx.plen, !.state = "maskey"], 0)
ReadExt(r) ==
  LET n == Least(ExtLen - r.dctx.pos, Len(r.data))
  IN  IF r.dctx.pos + n < ExtLen THEN GoOn(r, [r.dctx EXCEPT !.pos = @ + n], n)
      ELSE GoOn(r, [r.dctx EXCEPT !.pos = 0, !.length = r.data[1][2], !.state = "maskey"], n)
ReadKey(r) ==
  LET n == Least(KeyLen - r.dctx.pos, Len(r.data))
  IN  IF r.dctx.pos + n < KeyLen THEN GoOn(r, [r.dctx EXCEPT !.pos = @ + n], n)
      ELSE GoOn(r, [r.dctx EXCEPT !.pos = 0, !.buf = <<>>, !.state = "data"], n)
WrongMask(mode, c) == IF c.mask THEN mode = "client" ELSE mode = "server" /\ c.length > 0
NoKey(r) == GoOn(r, [r.dctx EXCEPT !.buf = <<>>, !.state = "data"], 0)

\* A frame without payload waits for the byte behind it, like every round.
Yields(r) ==
  LET c == r.dctx
      need == c.length - Len(c.buf)
      f == [op |-> c.op, fin |-> c.fin, payload |-> Unmask(c, c.buf \o SubSeq(r.data, 1, need))]
      y == [r EXCEPT !.frames = Append(@, f)]
  IN  IF c.op = "close" THEN Returns(y, [c EXCEPT !.state = "closed"]) ELSE GoOn(y, Fresh, need)
ReadPayload(r) ==
  IF HasPayload(r.dctx, r.data) THEN Yields(r)
  ELSE Returns(r, [r.dctx EXCEPT !.buf = Kept(r.dctx, r.data)])

Round(mode, r) ==
  LET c == r.dctx IN
  IF r.data = <<>> THEN r
  ELSE CASE c.state = "hdr1" -> ReadHdr1(r)
         [] c.state = "hdr2" -> ReadHdr2(r)
         [] c.state = "hdrex" -> IF c.plen < LongLen THEN Short(r) ELSE ReadExt(r)
         [] c.state = "maskey" /\ WrongMask(mode, c) -> Fails(r)
         [] c.state = "maskey" /\ ~WrongMask(mode, c) -> IF c.mask THEN ReadKey(r) ELSE NoKey(r)
         [] c.state = "data" -> ReadPayload(r)
         [] OTHER -> Fails(r)

\* Of four rounds that have input, one takes a byte of it.
Decode(mode, c, d) ==
  LET rounds == 3 * Len(d) + 3
      run[i \in 0..rounds] == IF i = 0 THEN [dctx |-> c, data |-> d, frames |-> <<>>]
                              ELSE Round(mode, run[i - 1])
  IN  run[rounds]

-----------------------------------------------------------------------------
(* Sending. *)

\* How much of some bytes is sent or read at once: one byte or all.
Some(data) == IF data = <<>> THEN {0} ELSE {1, Len(data)}

\* send(iovs) with nothing buffered, the socket takes n: the rest is buffered.
Written(e, data, n) ==
  [e EXCEPT !.wire = @ \o SubSeq(data, 1, n), !.armed = @ \/ n < Len(data), !.buffer = Rest(data, n)]

\* How much room the socket has for some bytes.
Rooms == {"none", "a byte", "all"}
Fitting(room, data) == CASE room = "none" -> 0 [] room = "a byte" -> 1 [] OTHER -> Len(data)

\* sendWsFrame: the socket takes n bytes of a frame.
Says(x, e, f, n) == Written([e EXCEPT !.said = Append(@, f)], Encode(x, f), n)

\* A frame of the handler itself (pong, close): what is buffered goes first, and
\* while the socket does not take that, the frame is dropped.
Control(x, e, op, len, room) ==
  LET f == [op |-> op, fin |-> TRUE, id |-> 0, length |-> len]
  IN  IF ~e.up \/ (room = "none" /\ e.buffer # <<>>) THEN e
      ELSE Says(x, [e EXCEPT !.wire = @ \o e.buffer, !.buffer = <<>>], f, Fitting(room, Encode(x, f)))

AllSent == ends["client"].sent + ends["server"].sent

\* sendData: not while something is buffered.  (Of a frame that is buffered whole a
\* write event can send a byte.)
Opcode(e) == IF e.fragmented THEN "cont" ELSE "text"
SendData(x, len, fin, room) ==
  LET e == ends[x]
      f == [op |-> Opcode(e), fin |-> fin, id |-> e.sent + 1, length |-> len]
  IN  /\ e.up /\ e.state = "open" /\ e.buffer = <<>> /\ AllSent < MaxFrames
      /\ ends' = [ends EXCEPT ![x] = Says(x, [e EXCEPT !.fragmented = ~fin, !.sent = @ + 1], f,
                                          Fitting(room, Encode(x, f)))]
      /\ early' = (early \/ (x = "server" /\ e.handler = "handshake"))
      /\ UNCHANGED <<got, told>>

\* sendPingFrame without payload.
SendPing(x) ==
  LET e == ends[x] IN
  /\ e.up /\ e.state = "open" /\ e.handler = "open" /\ e.buffer = <<>> /\ AllSent < MaxFrames
  /\ ends' = [ends EXCEPT ![x] = Control(x, [e EXCEPT !.sent = @ + 1], "ping", 0, "all")]
  /\ UNCHANGED <<got, told, early>>

\* close: a close frame if it can be sent, and the socket is gone.
Closed(x, e, room) ==
  [Cleaned(IF e.state = "open" THEN Control(x, e, "close", 1, room) ELSE e) EXCEPT !.state = "closed"]
Close(x, room) ==
  /\ ends[x].up
  /\ ends' = [ends EXCEPT ![x] = Closed(x, @, room)]
  /\ told' = told \cup {x} /\ UNCHANGED <<got, early>>

-----------------------------------------------------------------------------
(* The handshake. *)

Request == <<<<"request", 0, 0>>>>
Response == <<<<"response", 0, 0>>>>

\* attachFd of the server and handleOnConnect of the client.
Connected ==
  /\ ends["client"].state = "connecting" /\ ~ends["client"].up
  /\ ends' = [client |-> Written([ends["client"] EXCEPT !.state = "upgrading", !.up = TRUE],
                                 Request, 1),
              server |-> [ends["server"] EXCEPT !.state = "upgrading", !.up = TRUE, !.armed = TRUE]]
  /\ UNCHANGED <<got, told, early>>
ConnectFails ==
  /\ ends["client"].state = "connecting" /\ "client" \notin told
  /\ told' = told \cup {"client"} /\ UNCHANGED <<ends, got, early>>

\* sendUpgradeResponse, by which the server is open; if what was sent early stays
\* buffered the response is lost.
Upgraded(e, room) ==
  LET w == [e EXCEPT !.handler = "open", !.state = "upgrading"]
  IN  IF e.buffer # <<>> /\ room = "none" THEN w
      ELSE [Written([w EXCEPT !.wire = @ \o e.buffer], Response, 1) EXCEPT !.state = "open"]

\* What HttpParser and the handler may make of a read before the handshake is done.
\* The bytes of a frame that came too soon are dropped, or kept for the line that the
\* next LF ends; or that LF is among them, and it is no start line.  Together with the
\* response they may pass for a request: onWsHandshake(.invalidProto), and no cleanup.
Handshake(x, e, d, room) ==
  LET opens == [e EXCEPT !.handler = "open", !.state = "open"]
      fails == [e EXCEPT !.handler = "error"]
      invalid == [fails EXCEPT !.state = "error"]
  IN  CASE d[1][1] = "request" /\ x = "server" -> {Upgraded(e, room)}
        [] d[1][1] = "response" /\ x = "client" -> IF early THEN {opens, fails, invalid} ELSE {opens}
        [] OTHER -> {e, fails} \cup IF \E i \in 1..Len(d) : d[i][1] = "response" THEN {invalid} ELSE {}

-----------------------------------------------------------------------------
(* Events of the socket. *)

\* onWrite and handleOnSend: the server takes the first write event that leaves
\* nothing buffered for the end of its response.
OpensOnSend(x, e) == e.state = "upgrading" /\ x = "server"
WriteEvent(x, n) ==
  LET e == ends[x]
      w == [e EXCEPT !.wire = @ \o SubSeq(e.buffer, 1, n), !.buffer = Rest(@, n),
                     !.armed = n < Len(e.buffer)]
  IN  /\ e.up /\ e.armed /\ n \in Some(e.buffer)
      /\ ends' = [ends EXCEPT ![x] =
                    IF w.buffer = <<>> /\ OpensOnSend(x, w) THEN [w EXCEPT !.state = "open"] ELSE w]
      /\ UNCHANGED <<got, told, early>>

\* onWsFrame; the application may close on the data it is given (quits).
IsData(f) == f.op = "text"
OnWsFrame(x, e, f, room, quits) ==
  CASE f.op = "ping" -> Control(x, e, "pong", Len(f.payload), room)
    [] f.op = "close" -> [Cleaned(Control(x, e, "close", Len(f.payload), room)) EXCEPT !.state = "error"]
    [] IsData(f) /\ quits -> Closed(x, e, room)
    [] OTHER -> e
AfterFrames(x, e, frames, room, quits) ==
  LET after[i \in 0..Len(frames)] ==
        IF i = 0 THEN e ELSE OnWsFrame(x, after[i - 1], frames[i], room, quits)
  IN  after[Len(frames)]

\* handleInputData: what is behind the upgrade message is frames.  Once it is over no
\* input is looked at, but the frames of this read are handled to the last.
CanRead(x, n) ==
  ends[x].up /\ ends[x].state \in {"open", "upgrading"} /\ n \in 1..Len(ends[Peer(x)].wire)

ReadEvent(x, n) ==
  LET e == ends[x]
      d == SubSeq(ends[Peer(x)].wire, 1, n)
      r == Decode(x, e.dctx, IF e.handler = "handshake" THEN Tail(d) ELSE d)
      calm == e.handler = "open" /\ r.frames = <<>>     \* nothing to answer
  IN
  /\ CanRead(x, n)
  /\ \E room \in IF calm THEN {"all"} ELSE Rooms, quits \in IF calm THEN {FALSE} ELSE BOOLEAN :
     \E first \in IF e.handler = "handshake" THEN Handshake(x, e, d, room) ELSE {e} :
      LET frames == IF first.handler = "open" THEN r.frames ELSE <<>>
          h == IF first.handler = "open"
               THEN AfterFrames(x, [first EXCEPT !.dctx = r.dctx], frames, room, quits) ELSE first
          fails == h.state \in {"open", "upgrading"} /\ (h.handler = "error" \/ h.dctx.state = "error")
      IN
      /\ ends' = [ends EXCEPT
           ![Peer(x)].wire = Rest(@, n),
           ![x] = IF fails THEN [Cleaned(h) EXCEPT !.state = "closed"] ELSE h]
      /\ got' = [got EXCEPT ![x] = @ \o frames]
      /\ told' = IF fails \/ ~h.up \/ h.state = "error" THEN told \cup {x} ELSE told
      /\ UNCHANGED early

\* handleOnError: the peer is gone, and what it sent is read.  (An end that is over
\* looks at none of it.)
Tells_IfOpen(e) == e.state = "open"                             \* mutant
Tells(e) == TRUE
EndEvent(x) ==
  /\ ends[x].up /\ ~ends[Peer(x)].up
  /\ ends[Peer(x)].wire = <<>> \/ ends[x].state = "error"
  /\ ends[Peer(x)].state \in {"closed", "error"}
  /\ ends' = [ends EXCEPT ![x] = [Cleaned(@) EXCEPT !.state = "error"]]
  /\ told' = IF Tells(ends[x]) THEN told \cup {x} ELSE told
  /\ UNCHANGED <<got, early>>

-----------------------------------------------------------------------------
Init ==
  /\ ends = [client |-> NewEnd("connecting"), server |-> NewEnd("idle")]
  /\ got = [x \in Ends |-> <<>>]
  /\ told = {} /\ early = FALSE

Connects == Connected \/ ConnectFails
Writes(x) == \E n \in Some(ends[x].buffer) : WriteEvent(x, n)
Reads(x) == \E n \in Some(ends[Peer(x)].wire) : ReadEvent(x, n)
Sends(x) ==
  \/ \E len \in Lengths, fin \in BOOLEAN, room \in {"none", "all"} : SendData(x, len, fin, room)
  \/ SendPing(x)
Closes(x) == \E room \in Rooms : Close(x, room)

Next == Connects \/ \E x \in Ends : Writes(x) \/ Reads(x) \/ Sends(x) \/ Closes(x) \/ EndEvent(x)
Spec == Init /\ [][Next]_vars

\* Queues are served (for reads, weak fairness spelled out: TLC is slow to find whether
\* they are enabled; the steps that take from a wire are its reads).  Applications need
\* not do anything.
HasInput(x) == \E n \in Some(ends[Peer(x)].wire) : CanRead(x, n)
Taken(x) == Len(ends'[Peer(x)].wire) < Len(ends[Peer(x)].wire)
Fairness ==
  /\ WF_vars(Connects)
  /\ \A x \in Ends :
       /\ []<>~HasInput(x) \/ []<><<Taken(x)>>_vars
       /\ WF_vars(Writes(x)) /\ WF_vars(EndEvent(x))
FairSpec == Spec /\ Fairness

-----------------------------------------------------------------------------
(* Properties. *)

\* However the bytes are cut, an end is given the frames that its peer sent, whole,
\* unmasked and in order; its application the data frames among them.  (Continuation
\* frames are not given to it: onWsFrame drops them.)
Meant(f) == [op |-> f.op, fin |-> f.fin, payload |-> Repeat(<<"data", f.id, FALSE>>, f.length)]
FramesIntact ==
  ~early => \A x \in Ends :
    LET said == ends[Peer(x)].said IN
    Len(got[x]) <= Len(said) /\ \A i \in 1..Len(got[x]) : got[x][i] = Meant(said[i])

\* A frame with a payload is given to an end with the read that brings its last byte:
\* when an open end has read everything its peer sent, none is kept.
Prompt ==
  ~early => \A x \in Ends :
    LET p == ends[Peer(x)]
    IN  ends[x].up /\ ends[x].handler = "open" /\ p.wire = <<>> /\ p.buffer = <<>> /\ p.up =>
          \A i \in 1..Len(p.said) : p.said[i].length > 0 => i <= Len(got[x])

\* Once a connection is over for one end it is for the other: its application hears of
\* a close, an error or the end of the connection, whether or not the close frame went.
\* (Not of a handshake that onWsHandshake found invalid: the socket stays.)
EndIsHeard ==
  \A x \in Ends : ends[x].state \in {"closed", "error"} /\ ~ends[x].up ~> Peer(x) \in told
=============================================================================
