-------------------------------- MODULE Http1 --------------------------------
(***************************************************************************)
(* One HTTP/1 exchange between two ends of Nutil: Http1xRequest,           *)
(* Http1xResponse, HttpMessage and the two parsers (HttpParser), over what *)
(* TcpConnection promises (TcpConnection.tla): bytes arrive in order, and  *)
(* what the socket does not take waits in the send buffer for a write      *)
(* event.  The applications send on onSend, as those of the samples do.    *)
(***************************************************************************)
EXTENDS HttpParser, SequencesExt

CONSTANTS
  Data, Body,   \* the bytes of bodies, and a body: Content-Length is its length
  Cuts          \* how many bytes a socket may take or bring when that is not all

\* The bytes of a body may look like those of the head.
ASSUME Http1Bounds ==
  /\ Body \in Seq(Data) /\ Body # <<>> /\ Data \cap {"header", "complete", "error"} = {}
  /\ Cuts \subseteq Nat \ {0}

VARIABLES
  cl,           \* Http1xRequest: state, send buffer, what its application does
  sv,           \* Http1xResponse, the same
  parser,       \* the parsers: of the client and of the server
  link,         \* bytes on their way to "client" and to "server"
  told,         \* history: how the client's application learned of the end
  split         \* history: ends that had a read end between CR and LF

httpVars == <<cl, sv, parser, link, told, split>>

Sides == {"client", "server"}
BodyLen == Len(Body)

\* An end: its state; whether its socket is there (up), TcpConnection's buffer, and
\* a write event that will come (armed); onSend was called (cue); what the headers
\* announce of the body, the pieces given, and HttpMessage.completed.
NewEnd(state) == [state |-> state, up |-> FALSE, buffer |-> <<>>, armed |-> FALSE,
                  cue |-> FALSE, body |-> "none", sent |-> 0, completed |-> FALSE]

Peer(end) == IF end = "client" THEN "server" ELSE "client"
EndOf(end) == IF end = "client" THEN cl ELSE sv
SetEnd(end, e) == IF end = "client" THEN cl' = e /\ UNCHANGED sv ELSE sv' = e /\ UNCHANGED cl
Learn(end, what) == told' = IF end = "client" THEN told \cup what ELSE told
IsOver(e) == e.state \in {"completed", "error", "closed"}

-----------------------------------------------------------------------------
(* Sending. *)

\* How much of some bytes is sent or read at once.
Some(data) == {n \in 1..Len(data) : n \in Cuts} \cup {Len(data)}

\* send of data of which the socket takes n: the rest is buffered, and a write event
\* comes.  If it takes none, send(iovs) buffers all the same, the other sends leave
\* nothing behind.
Buffered(e, data, n) == [e EXCEPT !.buffer = Drop(data, n), !.armed = @ \/ n < Len(data)]
Written(e, data, n) == IF n = 0 THEN [e EXCEPT !.armed = TRUE] ELSE Buffered(e, data, n)
Out(end, data, n) == link' = [link EXCEPT ![Peer(end)] = @ \o SubSeq(data, 1, n)]

\* HttpMessage knows contentLength and isChunked of a request only, whatever the
\* headers of a response say (buildHeader, HttpHeader.processHeader).
Framing(end, e) == IF end = "client" THEN e.body ELSE "open"
EndChunk == <<SizeToken(0), "CR", "LF", "CR", "LF">>
\* What the application gives to sendData next: a piece, the end of a chunked body.
Due(end, e) ==
  CASE e.sent < BodyLen /\ Framing(end, e) # "chunked" -> <<Body[e.sent + 1]>>
    [] e.sent < BodyLen /\ Framing(end, e) = "chunked" ->
         <<SizeToken(1), "CR", "LF", Body[e.sent + 1], "CR", "LF">>
    [] e.sent = BodyLen /\ Framing(end, e) = "chunked" /\ ~e.completed -> EndChunk
    [] OTHER -> <<>>

\* What HttpMessage.sendData counts when the socket took some of it.
Counted(end, e) ==
  IF e.sent = BodyLen THEN [e EXCEPT !.completed = TRUE]
  ELSE [e EXCEPT !.sent = @ + 1,
                 !.completed = Framing(end, e) = "length" /\ e.sent + 1 = BodyLen]
\* sendData's last step: the message is complete and nothing of it is buffered.
AfterSend(end, e) ==
  IF e.completed /\ e.buffer = <<>>
  THEN [e EXCEPT !.state = IF end = "client" THEN "receivingResponse" ELSE "completed"] ELSE e

\* sendData called by the application, the socket takes n: nothing happens unless the
\* buffer is empty and the body is due.  An application that was told 0 waits for
\* onSend (sendData returns 0 for the end of a chunked body also if it was sent).
CanSend(e) == e.up /\ e.state = "sendingBody" /\ e.buffer = <<>>
SendData(end, n) ==
  LET e == EndOf(end)
      data == Due(end, e)
      chunk == Framing(end, e) = "chunked" /\ e.sent < BodyLen      \* send(iovs)
  IN  /\ e.cue
      /\ IF CanSend(e) /\ data # <<>>
         THEN /\ Out(end, data, n)
              /\ SetEnd(end, IF n = 0 /\ ~chunk THEN [Written(e, data, n) EXCEPT !.cue = FALSE]
                             ELSE AfterSend(end, Counted(end, Buffered(e, data, n))))
         ELSE SetEnd(end, [e EXCEPT !.cue = FALSE]) /\ UNCHANGED link
      /\ UNCHANGED <<parser, told, split>>

\* sendData on a connection whose peer is gone: the socket's error is returned.
SendFails(end) ==
  LET e == EndOf(end) IN
  /\ e.cue /\ CanSend(e) /\ Due(end, e) # <<>> /\ ~EndOf(Peer(end)).up
  /\ SetEnd(end, [e EXCEPT !.state = "error", !.cue = FALSE])
  /\ Learn(end, {"result"})
  /\ UNCHANGED <<parser, link, split>>

-----------------------------------------------------------------------------
(* Headers. *)

Headers(first, body) ==
  Line(first) \o (IF body = "none" THEN <<>> ELSE Line(body)) \o EndOfLine

\* Headers were sent: if nothing is buffered the body is next, if there is one.
Announced(e, body, next) ==
  IF e.buffer # <<>> THEN e
  ELSE IF body THEN [e EXCEPT !.state = "sendingBody", !.cue = TRUE]
       ELSE [e EXCEPT !.state = next]

\* handleOnConnect and sendRequest.  The socket of a new connection takes something;
\* its write source, which told of the connection, runs on.
Connected(body, n) ==
  LET req == Headers("request", body)
      new == [cl EXCEPT !.state = "sendingHeader", !.up = TRUE, !.armed = TRUE, !.body = body]
      e == Written(new, req, n)
  IN  /\ cl.state = "connecting"
      /\ cl' = Announced(e, body # "none", "receivingResponse")
      /\ sv' = [sv EXCEPT !.state = "receivingRequest", !.up = TRUE, !.armed = TRUE]
      /\ Out("client", req, n)
      /\ UNCHANGED <<parser, told, split>>

\* handleOnConnect with an error: the state is all that changes.
ConnectError ==
  /\ cl.state = "connecting" /\ cl' = [cl EXCEPT !.state = "error"]
  /\ told' = told \cup {"nothing"} /\ UNCHANGED <<sv, parser, link, split>>

\* sendResponse: any status but the bodyless ones has a body.
ServerBody(e) == e.body # "bodyless"
SendResponse(status, body, n) ==
  LET rsp == Headers(status, body)
      e == Written([sv EXCEPT !.state = "sendingHeader",
                              !.body = IF status \in Bodyless THEN "bodyless" ELSE body], rsp, n)
  IN  /\ sv.up /\ sv.state = "waitForResponse"
      /\ sv' = Announced(e, ServerBody(e), "completed")
      /\ Out("server", rsp, n)
      /\ UNCHANGED <<cl, parser, told, split>>

-----------------------------------------------------------------------------
(* Events of the sockets. *)

\* handleOnSend; that of the request calls onSend in every state.
HasBody(end, e) == IF end = "client" THEN e.body # "none" ELSE ServerBody(e)
OnSend_Headers(end, e) ==                                        \* mutant
  IF e.state = "sendingHeader" THEN Announced(e, HasBody(end, e), "completed") ELSE e
OnSend(end, e) ==
  LET over == IF end = "client" THEN "receivingResponse" ELSE "completed" IN
  CASE e.state = "sendingHeader" -> Announced(e, HasBody(end, e), over)
    [] e.state = "sendingBody" /\ e.completed -> [e EXCEPT !.state = over]
    [] e.state = "sendingBody" /\ ~e.completed -> [e EXCEPT !.cue = TRUE]
    [] OTHER -> [e EXCEPT !.cue = @ \/ end = "client"]

\* TcpConnection.onWrite: what is buffered goes out, some of it as there is room;
\* once it is empty, handleOnSend.
WriteEvent(end, n) ==
  LET e == EndOf(end)
      w == [e EXCEPT !.buffer = Drop(@, n), !.armed = n < Len(e.buffer)]
  IN  /\ e.up /\ e.armed
      /\ SetEnd(end, IF w.buffer = <<>> THEN OnSend(end, w) ELSE w)
      /\ Out(end, e.buffer, n)
      /\ UNCHANGED <<parser, told, split>>

\* onHttpError: an end that is past its exchange keeps it to itself.
Failed(e) == [e EXCEPT !.state = IF IsOver(e) THEN "closed" ELSE "error"]
Error_Always(e) == {"error"}                                    \* mutant
Error(e) == IF IsOver(e) THEN {} ELSE {"error"}

\* A read brings some of the bytes there are, which cuts the input anywhere.  That it
\* ends between CR and LF happens once in a behaviour (a bound).
CanRead(end, n) ==
  /\ EndOf(end).up /\ n \in 1..Len(link[end]) /\ parser[end].readState # "overrun"
  /\ link[end][n] = "CR" => split = {}

\* handleInputData: the parser's callbacks change the state.
ReadEvent(end, n) ==
  LET e == EndOf(end)
      d == SubSeq(link[end], 1, n)
      q == Parse(parser[end], d, BodyLen)
      news == {q.events[i] : i \in (Len(parser[end].events) + 1)..Len(q.events)}
      done == IF end = "client" THEN "completed" ELSE "waitForResponse"
  IN  /\ CanRead(end, n)
      /\ link' = [link EXCEPT ![end] = Drop(@, n)]
      /\ parser' = [parser EXCEPT ![end] = q]
      /\ SetEnd(end, IF "complete" \in news THEN [e EXCEPT !.state = done]
                     ELSE IF "error" \in news THEN Failed(e) ELSE e)
      /\ Learn(end, (news \cap {"complete"}) \cup (IF "error" \in news THEN Error(e) ELSE {}))
      /\ split' = IF Last(d) = "CR" THEN split \cup {end} ELSE split

\* The end of the input: the connection is cleaned up, and Http1xRequest asks its
\* parser whether that is the end of the response.  A peer that closes while input
\* waits for it resets the connection, and what it had sent may be lost.
EofCompletes(end, e) == end = "client" /\ e.state = "receivingResponse" /\ AtEOF(parser["client"])
EndEvent(end) ==
  LET e == EndOf(end)
      f == [e EXCEPT !.up = FALSE, !.buffer = <<>>, !.armed = FALSE]
  IN  /\ e.up /\ ~EndOf(Peer(end)).up
      /\ link[end] = <<>> \/ link[Peer(end)] # <<>>
      /\ parser[end].readState # "overrun"
      /\ IF EofCompletes(end, e)
         THEN /\ SetEnd(end, [f EXCEPT !.state = "completed"])
              /\ parser' = [parser EXCEPT ![end] = SetEOF(@)] /\ Learn(end, {"complete"})
         ELSE SetEnd(end, Failed(f)) /\ Learn(end, Error(e)) /\ UNCHANGED parser
      /\ UNCHANGED <<link, split>>

\* close, by the application; the state stays.
CloseEnd(end) ==
  /\ EndOf(end).up
  /\ SetEnd(end, [EndOf(end) EXCEPT !.up = FALSE, !.buffer = <<>>, !.armed = FALSE, !.cue = FALSE])
  /\ Learn(end, {"closed"})
  /\ UNCHANGED <<parser, link, split>>

-----------------------------------------------------------------------------
HttpInit ==
  /\ cl = NewEnd("connecting") /\ sv = NewEnd("idle")
  /\ parser = [end \in Sides |-> Idle] /\ link = [end \in Sides |-> <<>>]
  /\ told = {} /\ split = {}

Bodies == {"none", "length", "chunked"}
Connects == \/ ConnectError
            \/ \E body \in Bodies : \E n \in Some(Headers("request", body)) : Connected(body, n)
Responds == \E rsp \in {<<"200", "length">>, <<"200", "chunked">>, <<"204", "none">>} :
              \E n \in Some(Headers(rsp[1], rsp[2])) : SendResponse(rsp[1], rsp[2], n)
Reads(end) == \E n \in Some(link[end]) : ReadEvent(end, n)
Writes(end) == \E n \in Some(EndOf(end).buffer) : WriteEvent(end, n)
\* sendData finds room, none, or an error.
SendsSome(end) == SendFails(end) \/ \E n \in Some(Due(end, EndOf(end))) : SendData(end, n)
HttpNext ==
  \/ Connects \/ Responds
  \/ \E end \in Sides : \/ Reads(end) \/ Writes(end) \/ EndEvent(end)
                        \/ SendsSome(end) \/ SendData(end, 0) \/ CloseEnd(end)

HttpSpec == HttpInit /\ [][HttpNext]_httpVars

\* The server's application answers, and closes when it has nothing more to do: the
\* end of the connection is what ends a response with a body.
ServerIsDone == IsOver(sv) \/ (sv.sent = BodyLen /\ sv.buffer = <<>>)
\* Queues are served (for reads, weak fairness without ENABLED, which TLC is slow to
\* find); a socket that was full has room when the write event says so.
HasInput(end) == \E n \in Some(link[end]) : CanRead(end, n)
HttpFairness ==
  /\ WF_httpVars(Connects) /\ WF_httpVars(Responds) /\ WF_httpVars(ServerIsDone /\ CloseEnd("server"))
  /\ \A end \in Sides :
       /\ []<>~HasInput(end) \/ []<><<Reads(end)>>_httpVars
       /\ WF_httpVars(Writes(end)) /\ WF_httpVars(EndEvent(end))
       /\ WF_httpVars(SendData(end, 0)) /\ SF_httpVars(SendsSome(end))
HttpFairSpec == HttpSpec /\ HttpFairness

-----------------------------------------------------------------------------
(* Properties. *)

\* Whatever the sockets take and bring at a time, the server's application sees the
\* request that was sent, in order: its headers, its body, and its end only after
\* all of that.  (A read that ends between the CR and the LF of a line is excepted:
\* getLine then takes a byte too many.)
RequestIntact ==
  "server" \notin split =>
    IsPrefix(parser["server"].events,
             <<"header">> \o (IF cl.body = "none" THEN <<>> ELSE Body) \o <<"complete">>)

\* The client's application sees the response's headers, its body in order and then
\* its end, at the latest when the server closed; it is not told that a response is
\* complete of which it has not seen the headers.
ResponseIntact ==
  LET seen == parser["client"].events IN
  "client" \notin split =>
    \/ IsPrefix(seen, <<"header">> \o Body)
    \/ /\ seen # <<>> /\ Last(seen) = "complete" /\ Len(seen) > 1
       /\ IsPrefix(Front(seen), <<"header">> \o Body)

\* Of one request the client's application hears onRequestComplete or onError, never
\* both, whatever the connection does after a response that came early or late.
EndsOnce == ~ {"complete", "error"} \subseteq told

\* Every request ends: with the response, an error or close, if queues are served
\* and the server answers and closes; a failed connect ends it silently.
RequestEnds == <>(told # {} \/ split # {})
=============================================================================
