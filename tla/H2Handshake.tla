----------------------------- MODULE H2Handshake -----------------------------
(***************************************************************************)
(* The life of H2Connection up to the state open: two ends of Nutil, a     *)
(* client that connects and a server that is handed the accepted           *)
(* descriptor, in clear: HTTP upgrade first.  (Over TLS there are no two   *)
(* ends of Nutil: its server does not begin the handshake of TLS, see      *)
(* SslSocket.tla.)                                                         *)
(*                                                                         *)
(* What travels is a sequence of units that the parsers complete before    *)
(* they act, however the socket cuts them: the upgrade request and the     *)
(* response to it, the two halves of the client's connection preface, and  *)
(* frames.  Each end has TcpConnection's buffer and write source; the      *)
(* kernel takes what there is room for.  The client's requests wait for    *)
(* the connection in connectListeners.                                     *)
(***************************************************************************)
EXTENDS Integers, Sequences, Functions, FiniteSets

CONSTANTS Cap,          \* units that the kernel holds on the way to one end
          Requests      \* requests that may join the connection

ASSUME CapIsRoom == Cap \in Nat \ {0}
ASSUME RequestsFinite == IsFiniteSet(Requests)

VARIABLES
  state,                \* H2Connection.state of each end
  sock,                 \* its socket: "none", "up", "down"
  link,                 \* the network between them is there
  suspended,            \* Socket.writeSuspended
  buffer,               \* TcpConnection.buffer
  pipe,                 \* units on their way to an end
  cmpPreface,           \* server: what is left of the preface to compare
  prefaceReceived,      \* the peer's SETTINGS have come
  http,                 \* httpParser of an end: "line", "done", "garbled"
  waiting,              \* connectListeners
  asked,                \* requests whose HEADERS were sent
  wire,                 \* history: every unit an end sent, in order
  missed                \* history: the server read input before it had a state for it

sending == <<suspended, buffer>>
toldVars == <<waiting, asked>>
vars == <<state, sock, link, sending, pipe, cmpPreface, prefaceReceived, http,
          toldVars, wire, missed>>

Ends == {"client", "server"}
Other(e) == IF e = "client" THEN "server" ELSE "client"
Gone(e) == ~link \/ sock[Other(e)] = "down"        \* as seen from e

ClientPreface == <<"pri1", "pri2">>
\* sendPreface: SETTINGS and the WINDOW_UPDATE of the connection.
Preface(e) == (IF e = "client" THEN ClientPreface ELSE <<>>) \o <<"settings", "winupd">>

-----------------------------------------------------------------------------
(* Sending: appendBufferedData and sendBufferedData.  Several sends of one  *)
(* step leave what one send of all the units leaves.                        *)

Room(e) == IF Gone(e) THEN 0 ELSE Cap - Len(pipe[Other(e)])
Emptied(e, units) == Len(buffer[e]) + Len(units) <= Room(e)

\* TcpSocket.write lets the write source run again if it could not write all.
StaysSuspended_Always(was, left) == was                                \* mutant
StaysSuspended(was, left) == was /\ left = 0

\* `was` is whether the write source is suspended, `pipes` what is on its way.
Put(e, units, was, pipes) ==
  LET all == buffer[e] \o units
      n   == IF Emptied(e, units) THEN Len(all) ELSE Room(e)
  IN  /\ buffer' = [buffer EXCEPT ![e] = SubSeq(all, n + 1, Len(all))]
      /\ pipe' = [pipes EXCEPT ![Other(e)] = @ \o SubSeq(all, 1, n)]
      /\ suspended' = [suspended EXCEPT ![e] = StaysSuspended(was, Len(all) - n)]
      /\ wire' = [wire EXCEPT ![e] = @ \o units]

Send(e, units, pipes) == Put(e, units, suspended[e], pipes)
SendNothing(pipes) == pipe' = pipes /\ UNCHANGED <<sending, wire>>

\* One HEADERS frame for each request.
HeadersOf(rs) == [i \in 1..Cardinality(rs) |-> "headers"]

-----------------------------------------------------------------------------
(* Changes of state. *)

Become(e, s) == state' = [state EXCEPT ![e] = s]

\* cleanup: the state closed, and the socket with it.
CleanUp(e) == Become(e, "closed") /\ sock' = [sock EXCEPT ![e] = "down"]

\* onStateOpen: the client tells everybody who waits, and they send at once.
Told(e) == IF e = "client" THEN waiting ELSE {}
StillWaiting(e) == waiting \ Told(e)
OnStateOpen(e) ==
  /\ Become(e, "open")
  /\ waiting' = StillWaiting(e) /\ asked' = asked \cup Told(e)

\* sendPreface.  The peer's SETTINGS never come before it.
SendPreface(e, first, was, pipes) ==
  Become(e, "handshake") /\ Put(e, first \o Preface(e), was, pipes)

-----------------------------------------------------------------------------
(* Events of the socket. *)

Connect ==
  /\ state["client"] = "idle"
  /\ Become("client", "connecting")
  /\ UNCHANGED <<sock, link, sending, pipe, cmpPreface, prefaceReceived, http,
                 toldVars, wire, missed>>

\* handleOnConnect.  A failure goes to the listeners (onConnectError).
ConnectEvent(ok) ==
  /\ state["client"] = "connecting" /\ sock["client"] = "none"
  /\ UNCHANGED <<link, cmpPreface, prefaceReceived, http, asked, missed>>
  /\ \/ /\ ok /\ link
        /\ sock' = [sock EXCEPT !["client"] = "up"]
        /\ Become("client", "upgrading") /\ Put("client", <<"upgrade">>, FALSE, pipe)
        /\ UNCHANGED waiting
     \/ /\ ~ok
        /\ CleanUp("client") /\ waiting' = {} /\ UNCHANGED <<sending, pipe, wire>>

\* attachFd, first half: TcpSocket starts both sources on the socket's queue.
AttachSocket ==
  /\ sock["server"] = "none" /\ sock["client"] = "up"
  /\ sock' = [sock EXCEPT !["server"] = "up"]
  /\ suspended' = [suspended EXCEPT !["server"] = FALSE]
  /\ UNCHANGED <<state, link, buffer, pipe, cmpPreface, prefaceReceived, http,
                 toldVars, wire, missed>>

\* attachFd, second half, on the caller's thread: only now the state is set.
AttachState ==
  /\ sock["server"] # "none" /\ state["server"] = "idle"
  /\ Become("server", "upgrading") /\ SendNothing(pipe)
  /\ UNCHANGED <<sock, link, cmpPreface, prefaceReceived, http, toldVars, missed>>

Connected(e) == sock[e] = "up"

\* After onWrite's flush: what handleOnSend does once the buffer is empty.
OpensOnSend_Unasked(e) == state[e] = "handshake"                       \* mutant
OpensOnSend(e) == state[e] = "handshake" /\ prefaceReceived[e]

WriteEvent(e) ==
  /\ Connected(e) /\ ~suspended[e] /\ (Room(e) > 0 \/ Gone(e))
  /\ UNCHANGED <<sock, link, cmpPreface, prefaceReceived, http, missed>>
  /\ \/ /\ ~Emptied(e, <<>>)
        /\ Put(e, <<>>, TRUE, pipe) /\ UNCHANGED <<state, toldVars>>
     \/ /\ Emptied(e, <<>>) /\ e = "server" /\ state[e] = "upgrading"
        /\ SendPreface(e, <<>>, TRUE, pipe) /\ UNCHANGED toldVars
     \/ /\ Emptied(e, <<>>) /\ OpensOnSend(e)
        /\ OnStateOpen(e) /\ Put(e, HeadersOf(Told(e)), TRUE, pipe)
     \/ /\ Emptied(e, <<>>) /\ ~OpensOnSend(e) /\ ~(e = "server" /\ state[e] = "upgrading")
        /\ Put(e, <<>>, TRUE, pipe) /\ UNCHANGED <<state, toldVars>>

-----------------------------------------------------------------------------
(* handleInputData, unit by unit. *)

Rest(e) == [pipe EXCEPT ![e] = Tail(@)]

\* No state takes the input: it is dropped.
ReadDropped(e, unit) ==
  /\ \/ state[e] \in {"idle", "closed"}
     \/ state[e] = "upgrading" /\ http[e] = "done"
  /\ SendNothing(Rest(e))
  /\ missed' = (missed \/ state[e] = "idle")
  /\ UNCHANGED <<state, sock, cmpPreface, prefaceReceived, http, toldVars>>

\* handleUpgradeRequest: the preface follows at once if the response is out.
ReadUpgradeRequest(e, unit) ==
  /\ e = "server" /\ state[e] = "upgrading" /\ http[e] = "line" /\ unit = "upgrade"
  /\ http' = [http EXCEPT ![e] = "done"]
  /\ IF Emptied(e, <<"switch">>)
     THEN SendPreface(e, <<"switch">>, suspended[e], Rest(e))
     ELSE Send(e, <<"switch">>, Rest(e)) /\ UNCHANGED state
  /\ UNCHANGED <<sock, cmpPreface, prefaceReceived, toldVars, missed>>

\* handleUpgradeResponse.
ReadUpgradeResponse(e, unit) ==
  /\ e = "client" /\ state[e] = "upgrading" /\ http[e] = "line" /\ unit = "switch"
  /\ http' = [http EXCEPT ![e] = "done"]
  /\ SendPreface(e, <<>>, suspended[e], Rest(e))
  /\ UNCHANGED <<sock, cmpPreface, prefaceReceived, toldVars, missed>>

\* Frames where HTTP is expected: the parser keeps them as the beginning of a
\* line, or finds a line that is none (onHttpError).
ReadGarbage(e, unit, bad) ==
  /\ state[e] = "upgrading"
  /\ http[e] = "garbled" \/ (http[e] = "line" /\ unit \notin {"upgrade", "switch"})
  /\ http' = [http EXCEPT ![e] = "garbled"]
  /\ SendNothing(Rest(e))
  /\ IF bad THEN CleanUp(e) /\ waiting' = StillWaiting(e)
            ELSE UNCHANGED <<state, sock, waiting>>
  /\ UNCHANGED <<cmpPreface, prefaceReceived, asked, missed>>

\* The server compares the client's preface, and cleans up if it differs.
ReadPreface(e, unit) ==
  /\ e = "server" /\ state[e] = "handshake" /\ cmpPreface # <<>>
  /\ SendNothing(Rest(e))
  /\ IF unit = Head(cmpPreface)
     THEN cmpPreface' = Tail(cmpPreface) /\ UNCHANGED <<state, sock>>
     ELSE CleanUp(e) /\ UNCHANGED cmpPreface
  /\ UNCHANGED <<prefaceReceived, http, toldVars, missed>>

ExpectsFrame(e) == e = "client" \/ cmpPreface = <<>>

\* handleSettingsFrame of the first SETTINGS: acknowledged, and the connection is
\* open if nothing is left to send, the acknowledgement included.
OpensAtSettings_Anyway(e) == TRUE                                      \* mutant
OpensAtSettings_Never(e) == FALSE                                      \* mutant
OpensAtSettings(e) == Emptied(e, <<"ack">>)
ReadSettings(e, unit) ==
  /\ state[e] = "handshake" /\ ExpectsFrame(e) /\ unit = "settings"
  /\ prefaceReceived' = [prefaceReceived EXCEPT ![e] = TRUE]
  /\ IF OpensAtSettings(e)
     THEN OnStateOpen(e) /\ Send(e, <<"ack">> \o HeadersOf(Told(e)), Rest(e))
     ELSE Send(e, <<"ack">>, Rest(e)) /\ UNCHANGED <<state, toldVars>>
  /\ UNCHANGED <<sock, cmpPreface, http, missed>>

\* onFrame: any other frame in the handshake ends it, without cleanup.
ReadOtherFrame(e, unit) ==
  /\ state[e] = "handshake" /\ ExpectsFrame(e) /\ unit # "settings"
  /\ Become(e, "closed")
  /\ SendNothing(Rest(e))
  /\ UNCHANGED <<sock, cmpPreface, prefaceReceived, http, toldVars, missed>>

\* In the state open frames are the business of H2Connection.tla.
ReadFrame(e, unit) ==
  /\ state[e] = "open"
  /\ SendNothing(Rest(e))
  /\ UNCHANGED <<state, sock, cmpPreface, prefaceReceived, http, toldVars, missed>>

ReadEvent(e) ==
  /\ Connected(e) /\ pipe[e] # <<>>
  /\ LET unit == Head(pipe[e]) IN
       \/ ReadDropped(e, unit) \/ ReadUpgradeRequest(e, unit) \/ ReadUpgradeResponse(e, unit)
       \/ \E bad \in BOOLEAN : ReadGarbage(e, unit, bad)
       \/ ReadPreface(e, unit) \/ ReadSettings(e, unit)
       \/ ReadOtherFrame(e, unit) \/ ReadFrame(e, unit)
  /\ UNCHANGED link

\* onError: the peer has left.  The listeners are not told.
EndEvent(e) ==
  /\ Connected(e) /\ Gone(e) /\ (pipe[e] = <<>> \/ ~link)
  /\ CleanUp(e)
  /\ UNCHANGED <<link, sending, pipe, cmpPreface, prefaceReceived, http,
                 toldVars, wire, missed>>

-----------------------------------------------------------------------------
(* The requests, and the network. *)

\* sendRequest_i: a request joins.
Join(r) ==
  /\ state["client"] # "idle" /\ r \notin waiting \cup asked
  /\ IF state["client"] = "open"
     THEN asked' = asked \cup {r} /\ Send("client", <<"headers">>, pipe) /\ UNCHANGED waiting
     ELSE waiting' = waiting \cup {r} /\ SendNothing(pipe) /\ UNCHANGED asked
  /\ UNCHANGED <<state, sock, link, cmpPreface, prefaceReceived, http, missed>>

LinkBreaks ==
  /\ link /\ link' = FALSE
  /\ UNCHANGED <<state, sock, sending, pipe, cmpPreface, prefaceReceived, http,
                 toldVars, wire, missed>>

-----------------------------------------------------------------------------
Init ==
  /\ state = [e \in Ends |-> "idle"] /\ sock = [e \in Ends |-> "none"] /\ link = TRUE
  /\ suspended = [e \in Ends |-> TRUE] /\ buffer = [e \in Ends |-> <<>>]
  /\ pipe = [e \in Ends |-> <<>>]
  /\ cmpPreface = ClientPreface /\ prefaceReceived = [e \in Ends |-> FALSE]
  /\ http = [e \in Ends |-> "line"]
  /\ waiting = {} /\ asked = {}
  /\ wire = [e \in Ends |-> <<>>]
  /\ missed = FALSE

Connecting == \E ok \in BOOLEAN : ConnectEvent(ok)

Next ==
  \/ Connect \/ Connecting \/ AttachSocket \/ AttachState \/ LinkBreaks
  \/ \E e \in Ends : WriteEvent(e) \/ ReadEvent(e) \/ EndEvent(e)
  \/ \E r \in Requests : Join(r)

Spec == Init /\ [][Next]_vars

\* The queues run the handlers of sources that stay ready, a connect is answered,
\* the server accepts, and attachFd returns.
Fairness ==
  /\ WF_vars(Connecting) /\ WF_vars(AttachSocket) /\ WF_vars(AttachState)
  /\ \A e \in Ends : WF_vars(WriteEvent(e)) /\ WF_vars(ReadEvent(e)) /\ WF_vars(EndEvent(e))

FairSpec == Spec /\ Fairness
-----------------------------------------------------------------------------
(* Properties. *)

Units == {"upgrade", "switch", "pri1", "pri2", "settings", "winupd", "ack", "headers"}

\* Every variable has its type, and a request that was told is no listener any more.
TypeOK ==
  /\ link \in BOOLEAN /\ missed \in BOOLEAN
  /\ state \in [Ends -> {"idle", "connecting", "upgrading", "handshake", "open", "closed"}]
  /\ sock \in [Ends -> {"none", "up", "down"}]
  /\ suspended \in [Ends -> BOOLEAN]
  /\ prefaceReceived \in [Ends -> BOOLEAN]
  /\ buffer \in [Ends -> Seq(Units)] /\ pipe \in [Ends -> Seq(Units)]
  /\ wire \in [Ends -> Seq(Units)] /\ cmpPreface \in Seq(Units)
  /\ http \in [Ends -> {"line", "done", "garbled"}]
  /\ asked \subseteq Requests /\ waiting \subseteq Requests \ asked

Count(s, u) == Cardinality({i \in DOMAIN s : s[i] = u})
Before(s, u, v) == \A i, j \in DOMAIN s : s[i] = u /\ s[j] = v => i < j

\* What an end puts on the wire is in the order of the protocol, whichever of its
\* four callers sendPreface had: SETTINGS once and before every other frame, on
\* the client behind the preface, and no request before the peer's SETTINGS are
\* acknowledged.
WireInOrder == \A e \in Ends :
  /\ Count(wire[e], "settings") <= 1 /\ Count(wire[e], "ack") <= 1
  /\ \A u \in {"winupd", "ack", "headers"} :
       Before(wire[e], "settings", u) /\ (u \in Range(wire[e]) => "settings" \in Range(wire[e]))
  /\ "headers" \in Range(wire[e]) => "ack" \in Range(wire[e]) /\ Before(wire[e], "ack", "headers")
  /\ e = "client" => Before(wire[e], "pri2", "settings")

\* An end that has the peer's SETTINGS and is not open yet has something to send
\* and a running write source: only handleOnSend can open it now.
HandshakeGoesOn == \A e \in Ends :
  Connected(e) /\ state[e] = "handshake" /\ prefaceReceived[e]
    => buffer[e] # <<>> /\ ~suspended[e]

\* Both ends agree on what was said before either of them is open: its own preface
\* has left its buffer, the peer's was read.
OpenMeansExchanged == \A e \in Ends : state[e] = "open" =>
  /\ prefaceReceived[e] /\ "settings" \in Range(wire[Other(e)])
  /\ "settings" \in Range(wire[e]) /\ "settings" \notin Range(buffer[e])
  /\ e = "server" => cmpPreface = <<>>

\* Every handshake comes to an end: the client is open or one of the two has given
\* up, unless the server threw the input away that came before its state.
Over == state["client"] = "open" \/ \E e \in Ends : state[e] = "closed"
HandshakeEnds == state["client"] = "connecting" ~> Over \/ missed
=============================================================================
