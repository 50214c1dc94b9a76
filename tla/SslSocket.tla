------------------------------ MODULE SslSocket ------------------------------
(***************************************************************************)
(* A TcpConnection over TLS: SslSocket and SslHandler between TcpConnection *)
(* and TcpSocket, with OpenSSL as the code uses it (SSL_connect, SSL_write, *)
(* SSL_read on a non-blocking descriptor).                                 *)
(*                                                                         *)
(* OpenSSL encrypts data by records.  A record that the kernel does not    *)
(* take stays in the library, which takes the next SSL_write for a retry   *)
(* of the one that began it; a record that was read is decrypted whole and *)
(* given out in pieces.  Bytes are numbers, as in TcpConnection.tla.       *)
(***************************************************************************)
EXTENDS Integers, Sequences

CONSTANTS Room,         \* records the kernel holds for a peer that does not read
          RecSize,      \* bytes of a record
          MaxOut,       \* bound on the bytes sent
          MaxIn         \* bound on the records received

ASSUME SslBounds == {Room, RecSize} \subseteq Nat \ {0} /\ {MaxOut, MaxIn} \subseteq Nat

VARIABLES
  tcp,          \* TcpSocket: state (up to open), live (descriptor and sources), suspended,
                \* room and wire (the kernel's side of it)
  ssl,          \* SslHandler: ssl is not nil (there), sslState; the library: steps of
                \* the handshake done, record held back, bytes of what it is to be given
                \* again that are on the wire (ahead), decrypted bytes not read yet
  peer,         \* "up", "fin" (input ends), "reset" (input and output fail)
  inbox,        \* what can be read: flights of the handshake, records, close_notify
  arrived,      \* records of data that the peer sent
  buffer,       \* TcpConnection.buffer
  accepted,     \* number of bytes that send reported as sent
  reading,      \* onRead is in its loop
  handed,       \* history: bytes given to handleInputData
  told,         \* history: what the owner heard of the connection's beginning and end
  appClosed,    \* close() was called
  silent        \* history: a flush of onWrite failed, of which nobody is told

connVars == <<buffer, accepted>>
histVars == <<handed, told, appClosed, silent>>
vars == <<tcp, ssl, peer, inbox, arrived, connVars, reading, histVars>>

Upto(n) == [i \in 1..n |-> i]
Rest(s, n) == SubSeq(s, n + 1, Len(s))
Least(a, b) == IF a < b THEN a ELSE b

Freed(s) == [s EXCEPT !.there = FALSE, !.held = <<>>, !.plain = <<>>]
Cleaned(t) == [t EXCEPT !.live = FALSE]
CleanUp == ssl' = Freed(ssl) /\ tcp' = Cleaned(tcp)

-----------------------------------------------------------------------------
(* The library, on what is there: <<library, kernel, input>>. *)

\* SSL_connect: hello, the server's flight, the client's, the server's last.  One
\* flight, if its turn has come; and what it comes to when no further one can go.
Done == 4
Writes(step) == step \in {0, 2}
Goes(r) == Writes(r.s.step) /\ peer # "reset" /\ r.t.room > 0
Comes(r) == r.s.step \in {1, 3} /\ peer # "reset" /\ r.in # <<>> /\ Head(r.in) = "flight"
Gone(r) == [r EXCEPT !.s.step = @ + 1, !.t.room = @ - 1]
Come(r) == [r EXCEPT !.s.step = @ + 1, !.in = Tail(@)]
Flight(r) == IF Goes(r) THEN Gone(r) ELSE IF Comes(r) THEN Come(r) ELSE r
Verdict(r) ==
  CASE r.s.step = Done -> "success"
    [] r.s.step # Done /\ peer # "reset" /\ Writes(r.s.step) -> "handshake"
    [] r.s.step # Done /\ peer = "up" /\ r.in = <<>> -> "handshake"
    [] OTHER -> "error"
Advance(s, t, in) ==
  LET r == Flight(Flight(Flight(Flight([s |-> s, t |-> t, in |-> in]))))
  IN  [r EXCEPT !.s.state = Verdict(r)]

-----------------------------------------------------------------------------
(* SslHandler. *)

\* doSslHandshake.  An error frees the library's object.
DoSslHandshake(s, t, in) ==
  LET r == Advance(s, t, in)
  IN  IF r.s.state = "error" THEN [r EXCEPT !.s = Freed(r.s)] ELSE r

\* What a write that has to be retried counts for.
Retried_AsSent(data) == Len(data)                               \* mutant
Retried(data) == 0

\* send of data that is not empty: a loop of SSL_write, record by record while the
\* kernel takes them.  The first record is the one held back, if there is one, behind
\* what of the data is on the wire already (together no longer than the data, else a bad
\* write retry); the record that the kernel does not take is held back.  A retry that gets
\* rid of its record and has to hold back the next counts nothing either (again).
SendRecords(s, t, data) ==
  LET todo == Rest(data, s.ahead)
      n == Len(todo)
      first == IF s.held # <<>> THEN Len(s.held) ELSE RecSize
      cut(i) == IF i = 0 THEN 0 ELSE Least(n, first + (i - 1) * RecSize)  \* after i records
      all == 1 + (n - first + RecSize - 1) \div RecSize                   \* cut(all) = n
      k == Least(t.room, all)
      out == s.held \o Rest(todo, Len(s.held))
      again == s.held # <<>> /\ k <= 1 /\ cut(k) # n
  IN  IF peer = "reset" \/ Len(data) < s.ahead + Len(s.held) THEN [ret |-> -1, s |-> s, t |-> t]
      ELSE [ret |-> CASE cut(k) = n -> Len(data)
                      [] again -> Retried(data)
                      [] OTHER -> s.ahead + cut(k) + Retried(data),
            s |-> [s EXCEPT !.held = SubSeq(out, cut(k) + 1, cut(k + 1)),
                            !.ahead = IF again THEN @ + cut(k) ELSE 0],
            t |-> [t EXCEPT !.room = @ - k, !.wire = @ \o SubSeq(out, 1, cut(k))]]

\* SslSocket.write and writev: an error cleans up, and tells nobody else.
Failing(s, t) == [ret |-> -1, s |-> Freed(s), t |-> Cleaned(t)]
Write(s, t, data) ==
  LET r == SendRecords(s, t, data)
  IN  IF ~s.there THEN Failing(s, t)
      ELSE IF r.ret < 0 THEN Failing(r.s, r.t) ELSE r
\* Two iovecs: the second one only if the first was taken whole.
Writev(s, t, one, two) ==
  LET r1 == Write(s, t, one)
      r2 == Write(r1.s, r1.t, two)
  IN  IF r1.ret < Len(one) \/ two = <<>> THEN r1
      ELSE IF r2.ret < 0 THEN r2 ELSE [r2 EXCEPT !.ret = @ + r1.ret]

-----------------------------------------------------------------------------
(* TcpConnection on top. *)

Handshaking == ssl.state = "handshake"

\* sendBufferedData.
Flush(s, t) == IF buffer = <<>> THEN [ret |-> 0, s |-> s, t |-> t] ELSE Write(s, t, buffer)
Left(ret) == IF ret > 0 THEN Rest(buffer, ret) ELSE buffer

\* send, of one pointer or of two iovecs (gather): only the latter keeps data of which
\* nothing was taken.  An application that was answered 0 offers the same bytes again.
Send(n, gather) ==
  LET data == [i \in 1..n |-> accepted + i]
      f == Flush(ssl, tcp)
      w == IF gather THEN Writev(f.s, f.t, SubSeq(data, 1, 1), Rest(data, 1))
           ELSE Write(f.s, f.t, data)
  IN
  /\ tcp.state = "open" /\ ~Handshaking /\ accepted + n <= MaxOut
  /\ \/ /\ f.ret < 0                                            \* returns -1
        /\ ssl' = f.s /\ tcp' = f.t /\ told' = told \cup {"result"} /\ UNCHANGED connVars
     \/ /\ f.ret >= 0 /\ Left(f.ret) # <<>>                     \* returns 0
        /\ ssl' = f.s /\ tcp' = f.t /\ buffer' = Left(f.ret) /\ UNCHANGED <<accepted, told>>
     \/ /\ f.ret >= 0 /\ Left(f.ret) = <<>>
        /\ ssl' = w.s /\ tcp' = w.t
        /\ IF w.ret > 0 \/ (w.ret = 0 /\ gather)
           THEN buffer' = Rest(data, w.ret) /\ accepted' = accepted + n
           ELSE buffer' = <<>> /\ UNCHANGED accepted
        /\ told' = IF w.ret < 0 THEN told \cup {"result"} ELSE told
  /\ UNCHANGED <<peer, inbox, arrived, reading, handed, appClosed, silent>>

\* cleanup and handleOnError.
Ends_Quietly == CleanUp /\ UNCHANGED told                        \* mutant
Ends == CleanUp /\ told' = told \cup {"error"}

-----------------------------------------------------------------------------
(* The connection's life. *)

\* connect may return an error of the kernel at once.
Connect(fails) ==
  /\ tcp.state = "idle"
  /\ tcp' = [tcp EXCEPT !.state = "connecting", !.live = TRUE, !.suspended = FALSE]
  /\ told' = IF fails THEN {"failed"} ELSE {}
  /\ UNCHANGED <<ssl, peer, inbox, arrived, connVars, reading, handed, appClosed, silent>>

\* attachFd of a server begins no handshake: sslState stays none, ssl nil.
AttachFd ==
  /\ tcp.state = "idle"
  /\ tcp' = [tcp EXCEPT !.state = "open", !.live = TRUE, !.suspended = FALSE]
  /\ UNCHANGED <<ssl, peer, inbox, arrived, connVars, reading, histVars>>

\* cbConnect with what a handshake came to, if it came to anything.  The socket stays
\* open after an error.
Outcome(state) ==
  CASE state = "success" -> {"connected"} [] state = "error" -> {"failed"} [] OTHER -> {}

\* onConnect and startSslHandshake, of which the set-up may fail (noSsl).
ConnectEvent(ok, noSsl) ==
  LET new == [ssl EXCEPT !.there = TRUE]
      open == [tcp EXCEPT !.state = "open"]
      r == DoSslHandshake(new, open, inbox)
  IN
  /\ tcp.live /\ tcp.state = "connecting"
  /\ \/ /\ ~ok /\ tcp' = Cleaned([tcp EXCEPT !.state = "closed"])
        /\ told' = told \cup {"failed"} /\ UNCHANGED <<ssl, inbox>>
     \/ /\ ok /\ noSsl /\ tcp' = open
        /\ told' = told \cup {"failed"} /\ UNCHANGED <<ssl, inbox>>
     \/ /\ ok /\ ~noSsl /\ ssl' = r.s /\ tcp' = r.t /\ inbox' = r.in
        /\ told' = told \cup Outcome(r.s.state)
  /\ UNCHANGED <<peer, arrived, connVars, reading, handed, appClosed, silent>>

\* close; in the handshake too.
Close ==
  /\ tcp.state # "idle" /\ ~appClosed
  /\ appClosed' = TRUE /\ CleanUp
  /\ UNCHANGED <<peer, inbox, arrived, connVars, reading, handed, told, silent>>

-----------------------------------------------------------------------------
(* Events of the socket; between two events of a reading the application may act. *)

\* checkSslState.
CheckSslState(t) ==
  LET r == DoSslHandshake(ssl, t, inbox)
  IN  /\ ssl' = r.s /\ tcp' = r.t /\ inbox' = r.in
      /\ told' = told \cup Outcome(r.s.state)

\* TcpSocket suspends the source before SslSocket.onWrite; no write over TLS resumes
\* it, so that there is one write event in the life of a connection.
WriteEvent ==
  LET t == [tcp EXCEPT !.suspended = TRUE]
      f == Flush(ssl, t)
  IN
  /\ ~reading /\ tcp.live /\ tcp.state = "open" /\ ~tcp.suspended
  /\ tcp.room > 0 \/ peer = "reset"
  /\ \/ /\ Handshaking /\ CheckSslState(t) /\ UNCHANGED <<buffer, silent>>
     \/ /\ ~Handshaking
        /\ ssl' = f.s /\ tcp' = f.t /\ buffer' = Left(f.ret)
        /\ silent' = (silent \/ f.ret < 0)
        /\ UNCHANGED <<inbox, told>>
  /\ UNCHANGED <<peer, arrived, accepted, reading, handed, appClosed>>

\* Nothing to read is the end of the connection (onClose), in the handshake too.
ReadEvent ==
  /\ ~reading /\ tcp.live /\ tcp.state = "open" /\ (inbox # <<>> \/ peer # "up")
  /\ \/ inbox = <<>> /\ Ends /\ UNCHANGED <<inbox, reading>>
     \/ inbox # <<>> /\ Handshaking /\ CheckSslState(tcp) /\ UNCHANGED reading
     \/ inbox # <<>> /\ ~Handshaking /\ reading' = TRUE /\ UNCHANGED <<ssl, tcp, inbox, told>>
  /\ UNCHANGED <<peer, arrived, connVars, handed, appClosed, silent>>

\* onRead: a byte at a time (kRecvBufferSize), until the library has none.
GoesOn_Once == FALSE                                            \* mutant
GoesOn == TRUE
HandOver(plain) ==
  /\ handed' = Append(handed, Head(plain))
  /\ ssl' = [ssl EXCEPT !.plain = Tail(plain)]
  /\ reading' = GoesOn
  /\ UNCHANGED <<tcp, told>>

\* SSL_read at the end of input is an error of the system, and leaves errno as it is: if
\* that is EAGAIN still, receive returns 0 (~mayEnd).
AtEnd(mayEnd) == peer = "reset" \/ (peer = "fin" /\ mayEnd)
ReadChunk(mayEnd) ==
  /\ reading
  /\ \/ ssl.plain # <<>> /\ HandOver(ssl.plain) /\ UNCHANGED inbox
     \/ /\ ssl.plain = <<>> /\ ssl.there /\ inbox # <<>> /\ Head(inbox) = "data"
        /\ HandOver([i \in 1..RecSize |-> Len(handed) + i]) /\ inbox' = Tail(inbox)
     \/ /\ ssl.plain = <<>> /\ ssl.there /\ inbox = <<>> /\ ~AtEnd(mayEnd)
        /\ reading' = FALSE /\ UNCHANGED <<ssl, tcp, inbox, handed, told>>
     \/ /\ ssl.plain = <<>>
        /\ ~ssl.there \/ (inbox # <<>> /\ Head(inbox) # "data") \/ (inbox = <<>> /\ AtEnd(mayEnd))
        /\ Ends /\ reading' = FALSE /\ UNCHANGED <<inbox, handed>>
  /\ UNCHANGED <<peer, arrived, connVars, appClosed, silent>>

\* handleInputData returned false: the owner has closed.
ReadStops ==
  /\ reading /\ appClosed /\ reading' = FALSE
  /\ UNCHANGED <<tcp, ssl, peer, inbox, arrived, connVars, histVars>>

-----------------------------------------------------------------------------
(* The kernel and the peer. *)

Arrives(units) ==
  /\ tcp.live /\ tcp.state = "open" /\ peer = "up" /\ inbox' = inbox \o units
  /\ UNCHANGED <<tcp, ssl, peer, connVars, reading, histVars>>

\* The peer answers a flight that it has read; data comes behind its last one.
Flights == Len(SelectSeq(inbox, LAMBDA u : u = "flight"))
Answer ==
  /\ Handshaking /\ ssl.step \in {1, 3} /\ inbox = <<>> /\ tcp.room = Room
  /\ \E unit \in {"flight", "bad"} : Arrives(<<unit>>) /\ UNCHANGED arrived
Hello ==                \* of a client, to a server
  /\ ssl.state = "none" /\ inbox = <<>> /\ Arrives(<<"flight">>) /\ UNCHANGED arrived
Data ==
  /\ ssl.state \in {"handshake", "success"} /\ ssl.step + Flights >= Done /\ arrived < MaxIn
  /\ Arrives(<<"data">>) /\ arrived' = arrived + 1

\* It may say so before it leaves (close_notify).
PeerLeaves ==
  /\ tcp.live /\ tcp.state = "open"
  /\ \/ peer = "up" /\ peer' = "fin" /\ inbox' \in {inbox, Append(inbox, "notify")}
     \/ peer # "reset" /\ peer' = "reset" /\ inbox' = <<>>
  /\ UNCHANGED <<tcp, ssl, arrived, connVars, reading, histVars>>

Drain ==
  /\ tcp.live /\ peer # "reset" /\ tcp.room < Room
  /\ tcp' = [tcp EXCEPT !.room = @ + 1]
  /\ UNCHANGED <<ssl, peer, inbox, arrived, connVars, reading, histVars>>

-----------------------------------------------------------------------------
Init ==
  /\ tcp = [state |-> "idle", live |-> FALSE, suspended |-> TRUE, room |-> Room, wire |-> <<>>]
  /\ ssl = [there |-> FALSE, state |-> "none", step |-> 0, held |-> <<>>, ahead |-> 0,
            plain |-> <<>>]
  /\ peer = "up" /\ inbox = <<>> /\ arrived = 0
  /\ buffer = <<>> /\ accepted = 0 /\ reading = FALSE
  /\ handed = <<>> /\ told = {} /\ appClosed = FALSE /\ silent = FALSE

App ==
  \/ \E n \in 1..MaxOut, gather \in BOOLEAN : Send(n, gather)
  \/ \E fails \in BOOLEAN : Connect(fails)
  \/ AttachFd \/ Close
Connecting == \E ok, noSsl \in BOOLEAN : ConnectEvent(ok, noSsl)
Reading == ReadStops \/ \E mayEnd \in BOOLEAN : ReadChunk(mayEnd)

Next ==
  \/ App \/ Connecting \/ WriteEvent \/ ReadEvent \/ Reading
  \/ Answer \/ Hello \/ Data \/ PeerLeaves \/ Drain

Spec == Init /\ [][Next]_vars

\* The queue serves what is ready; the peer reads, and answers in the handshake.
Fairness ==
  /\ WF_vars(Connecting) /\ WF_vars(WriteEvent) /\ WF_vars(ReadEvent) /\ WF_vars(Reading)
  /\ WF_vars(Answer) /\ WF_vars(Drain)
FairSpec == Spec /\ Fairness

-----------------------------------------------------------------------------
(* Properties. *)

\* What was reported as sent is on the wire or in the buffer, once and in order, and the
\* record that the library holds back is where it looks for it in what it is given next: the
\* buffer, or what the application was answered 0 for.  (send and sendBufferedData
\* against the records and retries of SSL_write.)
WireIntact ==
  /\ tcp.live => /\ tcp.wire = Upto(Len(tcp.wire))
                 /\ Upto(Len(tcp.wire) - ssl.ahead) \o buffer = Upto(accepted)
  /\ ssl.held # <<>> /\ buffer # <<>> =>
       LET end == ssl.ahead + Len(ssl.held)
       IN  end <= Len(buffer) /\ ssl.held = SubSeq(buffer, ssl.ahead + 1, end)

\* Every byte of a record that came is handed over, though the read source knows nothing
\* of what the library has decrypted already (onRead, receive).
InputHandedOver ==
  Len(handed) < RecSize * arrived ~> Len(handed) = RecSize * arrived \/ ~tcp.live

\* The owner hears what becomes of a connect, through TLS too, and that its peer left.
\* (silent: a flush in a write event failed, which closes the socket and tells nobody.)
OutcomeTold ==
  /\ tcp.state = "connecting" ~> told # {} \/ appClosed
  /\ peer # "up" ~> told \ {"connected"} # {} \/ appClosed \/ silent
=============================================================================
