------------------------------ MODULE H2Requests ------------------------------
(***************************************************************************)
(* Requests that share connections: Http2Request, H2ConnectionMgr and what *)
(* H2Connection does for them.  All requests are for one host, so that the *)
(* manager's map holds at most one connection.                             *)
(*                                                                         *)
(* The application calls sendRequest and close on a thread of its own; the *)
(* rest runs on the queue of the connection's socket, to which sendRequest *)
(* hands over a block (async).  What the connection goes through is input  *)
(* here: H2Handshake and H2Connection have the details.                    *)
(***************************************************************************)
EXTENDS Naturals, FiniteSets

CONSTANTS Requests,
          MaxConns,     \* bound on the connections made
          MaxTries      \* bound on the calls of sendRequest for one request

ASSUME ReqBounds == MaxConns \in Nat \ {0} /\ MaxTries \in Nat \ {0}

Conns == 1..MaxConns
None == 0

VARIABLES
  connMap,              \* H2ConnectionMgr.connMap[connKey], None if there is none
  conns,                \* each connection: state, socket, listeners, streams
  conn,                 \* Http2Request.conn, None for nil
  completed,            \* requests in state completed
  try,                  \* number of calls of sendRequest
  handing,              \* requests inside sendRequest, before its async
  posted,               \* requests whose block waits on the connection's queue
  answer,               \* history: what the application was told of the last try
  lost                  \* history: requests whose connection or stream ended untold

vars == <<connMap, conns, conn, completed, try, handing, posted, answer, lost>>
reqVars == <<conn, completed, try, handing>>

\* `live`: the socket has its descriptor and its queue.  A stream is named by its
\* request and the call that made it; it stays in `streams` when it has ended.
New == [state |-> "new", live |-> FALSE, listeners |-> {}, open |-> {}, streams |-> {}]

SetConn(c, rec) == conns' = [conns EXCEPT ![c] = rec]
Tell(rs, what) ==
  answer' = [r \in Requests |-> IF r \in rs THEN answer[r] \cup {what} ELSE answer[r]]
Stream(r) == <<r, try[r]>>
Owners(streams) == {s[1] : s \in streams}

Ready_Never(c) == FALSE                                        \* mutant
Ready(c) == conns[c].state = "open"

-----------------------------------------------------------------------------
(* On the application's thread. *)

\* getConnection: the connection in the map, whatever its state, or a new one,
\* which enters the map only if its connect did not fail at once.
GetConnection(c, fails) ==
  \/ connMap # None /\ c = connMap /\ ~fails /\ UNCHANGED <<connMap, conns>>
  \/ /\ connMap = None /\ conns[c].state = "new"
     /\ \A d \in Conns : d < c => conns[d].state # "new"
     /\ SetConn(c, [New EXCEPT !.state = "connecting", !.live = TRUE])
     /\ connMap' = IF fails THEN None ELSE c

\* sendRequest, by an application that knows what came of the call before.
SendRequest(r, c, fails) ==
  /\ r \notin handing \cup posted /\ try[r] < MaxTries
  /\ try[r] > 0 => answer[r] # {}
  /\ GetConnection(c, fails)
  /\ try' = [try EXCEPT ![r] = @ + 1]
  /\ completed' = completed \ {r}
  /\ conn' = [conn EXCEPT ![r] = IF fails THEN None ELSE c]
  /\ handing' = IF fails THEN handing ELSE handing \cup {r}
  /\ answer' = [answer EXCEPT ![r] = IF fails THEN {"error"} ELSE {}]
  /\ lost' = lost \ {r} /\ UNCHANGED posted

\* Its last step: async, which drops the block if the socket was cleaned up.
Post(r) ==
  /\ r \in handing /\ handing' = handing \ {r}
  /\ IF conns[conn[r]].live THEN posted' = posted \cup {r} /\ UNCHANGED lost
                            ELSE lost' = lost \cup {r} /\ UNCHANGED posted
  /\ UNCHANGED <<connMap, conns, conn, completed, try, answer>>

\* close waits for the queue (sync) unless the socket has none any more.  The
\* listener goes only if the request is completed; the stream is reset and removed.
Close(r) ==
  LET c == conn[r] IN
  /\ c # None /\ r \notin handing /\ (conns[c].live => r \notin posted)
  /\ conn' = [conn EXCEPT ![r] = None]
  /\ SetConn(c, [conns[c] EXCEPT
                  !.open = @ \ {Stream(r)},
                  !.streams = @ \ ({Stream(r)} \cap conns[c].open),
                  !.listeners = IF r \in completed THEN @ \ {r} ELSE @])
  /\ Tell({r}, "closed")
  /\ UNCHANGED <<connMap, completed, try, handing, posted, lost>>

-----------------------------------------------------------------------------
(* On the queue of connection c. *)

\* sendHeaders of the requests rs: their streams begin; no answer comes to those
\* whose headers could not be sent.
Begin(rec, rs, unsent) ==
  [rec EXCEPT !.open = @ \cup {Stream(r) : r \in rs \ unsent},
              !.streams = @ \cup {Stream(r) : r \in rs}]

\* sendRequest_i, the block.  On a connection whose socket is gone the headers
\* stay in the buffer and no error comes of it (TcpSocket.write returns 0).
RunBlock(r, unsent) ==
  LET c == conn[r] IN
  /\ r \in posted /\ posted' = posted \ {r}
  /\ UNCHANGED <<connMap, reqVars>>
  /\ \/ c = None /\ Tell({r}, "error") /\ UNCHANGED <<conns, lost>>
     \/ /\ c # None /\ ~Ready(c)
        /\ SetConn(c, [conns[c] EXCEPT !.listeners = @ \cup {r}])
        /\ lost' = IF conns[c].state = "closed" THEN lost \cup {r} ELSE lost
        /\ UNCHANGED answer
     \/ /\ c # None /\ Ready(c)
        /\ SetConn(c, Begin(conns[c], {r}, unsent))
        /\ Tell({r} \cap unsent, "error")
        /\ lost' = IF conns[c].live THEN lost ELSE lost \cup {r}

\* onStateOpen: every listener sends its headers, but those closed have no
\* connection any more.  onConnect ignores whether they could be sent.
Senders(c) == {r \in conns[c].listeners : conn[r] # None}
Opens(c, unsent) ==
  /\ conns[c].live /\ conns[c].state = "connecting" /\ unsent \subseteq Senders(c)
  /\ SetConn(c, [Begin(conns[c], Senders(c), unsent) EXCEPT !.state = "open", !.listeners = {}])
  /\ lost' = lost \cup unsent
  /\ UNCHANGED <<connMap, reqVars, posted, answer>>

\* removeSelf takes out whatever the key leads to, another connection if this one
\* never entered the map.
RemoveSelf(c) == connMap' = None

\* onConnectError: connect failed, or the peer does not speak HTTP/2.
ConnectFails(c) ==
  /\ conns[c].live /\ conns[c].state = "connecting"
  /\ SetConn(c, [conns[c] EXCEPT !.state = "closed", !.live = FALSE, !.listeners = {}])
  /\ Tell(conns[c].listeners, "error")
  /\ RemoveSelf(c)
  /\ UNCHANGED <<reqVars, posted, lost>>

\* Those that hear nothing more when c just stops.
Waiting(c) == conns[c].listeners \cup Owners(conns[c].open)

\* onError: the peer left.  Neither listeners nor streams are told.
PeerLeaves(c) ==
  /\ conns[c].live
  /\ SetConn(c, [conns[c] EXCEPT !.state = "closed", !.live = FALSE])
  /\ RemoveSelf(c)
  /\ lost' = lost \cup Waiting(c)
  /\ UNCHANGED <<reqVars, posted, answer>>

\* connectionError, and a frame refused in the handshake: only the state changes,
\* and the manager goes on giving out the connection.
ConnectionError(c) ==
  /\ conns[c].live /\ conns[c].state \in {"connecting", "open"}
  /\ SetConn(c, [conns[c] EXCEPT !.state = "closed"])
  /\ lost' = lost \cup Waiting(c)
  /\ UNCHANGED <<connMap, reqVars, posted, answer>>

\* handleGoawayFrame: the streams are told, those that ended long ago too.  The
\* state stays open.
ToldByGoaway_None(c) == {}                                     \* mutant
ToldByGoaway(c) == Owners(conns[c].streams)
Goaway(c) ==
  /\ conns[c].live /\ conns[c].state = "open"
  /\ SetConn(c, [conns[c] EXCEPT !.live = FALSE, !.open = {}, !.streams = {}])
  /\ Tell(ToldByGoaway(c), "error")
  /\ RemoveSelf(c)
  /\ UNCHANGED <<reqVars, posted, lost>>

\* The end of a response, and RST_STREAM: the stream is closed but stays in the map.
Ends(c, s, what) ==
  /\ conns[c].live /\ conns[c].state = "open" /\ s \in conns[c].open
  /\ SetConn(c, [conns[c] EXCEPT !.open = @ \ {s}])
  /\ Tell({s[1]}, what)
  /\ completed' = IF what = "complete" THEN completed \cup {s[1]} ELSE completed
  /\ UNCHANGED <<connMap, conn, try, handing, posted, lost>>

\* Ends that no callback of the request follows: END_STREAM on headers with a bad
\* status, on trailers or on headers that a CONTINUATION was to complete, and a stream
\* error found here (streamError).
EndsUntold(c, s) ==
  /\ conns[c].live /\ conns[c].state = "open" /\ s \in conns[c].open
  /\ SetConn(c, [conns[c] EXCEPT !.open = @ \ {s}])
  /\ lost' = lost \cup {s[1]}
  /\ UNCHANGED <<connMap, reqVars, posted, answer>>

-----------------------------------------------------------------------------
Init ==
  /\ connMap = None /\ conns = [c \in Conns |-> New]
  /\ conn = [r \in Requests |-> None] /\ completed = {}
  /\ try = [r \in Requests |-> 0] /\ handing = {} /\ posted = {}
  /\ answer = [r \in Requests |-> {}] /\ lost = {}

App(r) ==
  \/ \E c \in Conns, fails \in BOOLEAN : SendRequest(r, c, fails)
  \/ Close(r)

ConnEnds(c) ==
  \/ ConnectFails(c) \/ PeerLeaves(c) \/ ConnectionError(c) \/ Goaway(c)
ConnOpens(c) == \E unsent \in SUBSET Requests : Opens(c, unsent)
StreamEnds(c, s) ==
  EndsUntold(c, s) \/ \E what \in {"complete", "error"} : Ends(c, s, what)
AllStreams == Requests \X (1..MaxTries)

Next ==
  \/ \E r \in Requests : App(r) \/ Post(r) \/ \E unsent \in {{}, {r}} : RunBlock(r, unsent)
  \/ \E c \in Conns : ConnOpens(c) \/ ConnEnds(c) \/ \E s \in AllStreams : StreamEnds(c, s)

Spec == Init /\ [][Next]_vars

\* sendRequest returns and queues are served; a handshake ends (H2Handshake) and so
\* does what the peer has to say on a stream, or the connection.
Fairness ==
  /\ \A r \in Requests : WF_vars(Post(r)) /\ WF_vars(\E unsent \in {{}, {r}} : RunBlock(r, unsent))
  /\ \A c \in Conns : WF_vars(ConnOpens(c) \/ (conns[c].state = "connecting" /\ ConnEnds(c)))
  /\ \A c \in Conns, s \in AllStreams :
       WF_vars(StreamEnds(c, s) \/ (s \in conns[c].open /\ ConnEnds(c)))
FairSpec == Spec /\ Fairness

-----------------------------------------------------------------------------
(* Properties. *)

\* The state is well formed: what the map leads to is a connection with a socket,
\* listeners wait only before a connection is open, and an open stream is in the
\* map and belongs to the last call of a request that was made.
TypeOK ==
  /\ connMap \in Conns \cup {None} /\ (connMap # None => conns[connMap].live)
  /\ \A c \in Conns :
       /\ conns[c].state \in {"new", "connecting", "open", "closed"}
       /\ conns[c].state = "open" => conns[c].listeners = {}
       /\ conns[c].open \subseteq conns[c].streams /\ conns[c].streams \subseteq AllStreams
  /\ conn \in [Requests -> Conns \cup {None}]
  /\ handing \cap posted = {} /\ handing \cup posted \cup completed \cup lost \subseteq Requests

Pending(r) == try[r] > 0 /\ answer[r] = {} /\ r \notin lost

\* A request that was neither answered nor closed is somewhere from where an answer
\* can still come: in sendRequest, on the queue, among the listeners of a connection
\* that is being made, or on a stream of one that is open.  (lost: its connection
\* ended by onError or connectionError, which tell no request, its stream by
\* EndsUntold, or its headers could not be sent when the connection opened.)  This is
\* the asynchronous hand-over of Http2Request against every end of a connection.
Heard ==
  \A r \in Requests : Pending(r) =>
    \/ r \in handing \cup posted
    \/ \E c \in Conns :
         /\ c = conn[r] /\ conns[c].live
         /\ \/ conns[c].state = "connecting" /\ r \in conns[c].listeners
            \/ conns[c].state = "open" /\ Stream(r) \in conns[c].open

\* While queues are served and peers answer, every call of sendRequest ends: with a
\* response, an error, close, or the loss of its connection or stream.
Answered == \A r \in Requests : Pending(r) ~> ~Pending(r)
=============================================================================
