---------------------------- MODULE H2FlowControl ----------------------------
(***************************************************************************)
(* HTTP/2 flow control between two ends of Nutil: H2Stream.sendData and    *)
(* the WINDOW_UPDATE and SETTINGS handlers at the sender, FlowControl at   *)
(* the receiver, a FIFO connection each way.  The sender is a server that  *)
(* has just been upgraded, so a stream may be sending before the SETTINGS  *)
(* of the receiver arrive.                                                 *)
(*                                                                         *)
(* Window 0 is the connection's.  What the bytes are does not matter; how  *)
(* long the socket takes to send what is buffered does.                    *)
(***************************************************************************)
EXTENDS Integers, Sequences

CONSTANTS Streams, Early,        \* the streams; those open before the SETTINGS
          Lens,                  \* lengths the application sends
          DefaultWindow,         \* kH2DefaultWindowSize
          DefaultMin,            \* FlowControl.minLocalWindowSize
          ConnStep, StreamStep,  \* LOCAL_CONN_ and LOCAL_STREAM_INITIAL_WINDOW_SIZE
          MaxWindow,             \* kH2MaxWindowSize
          MaxSent                \* bound on the bytes sent

\* setMinLocalWindowSize and setLocalWindowStep: at most half of the step.
LimitMin(min, step) == IF min > step \div 2 THEN step \div 2 ELSE min
\* H2Connection.init sets the minimum while the step is still the default one.
ConnMin == LimitMin(LimitMin(StreamStep, DefaultWindow), ConnStep)
StreamMin == LimitMin(DefaultMin, StreamStep)

ASSUME FlowBounds ==
  /\ Streams \subseteq Nat \ {0} /\ Early \subseteq Streams /\ Lens \subseteq Nat \ {0}
  /\ DefaultWindow \in Nat /\ DefaultMin \in Nat /\ MaxWindow \in Nat /\ MaxSent \in Nat
  /\ ConnStep \in Nat /\ StreamStep \in Nat /\ DefaultWindow <= StreamStep
  /\ ConnMin > 0 /\ StreamMin > 0
\* What is sent at once is one frame, which the receiver takes up to a length of
\* maxLocalFrameSize: 65536 <= 32767 + 65535.
ASSUME FramesFit == \A n \in Lens : n <= ConnMin + DefaultWindow
\* The windows are far from their limit: 26 MB and some, of 2 GB.
ASSUME WindowsFit ==
  /\ DefaultWindow + ConnStep <= MaxWindow
  /\ \A n \in Lens : DefaultWindow + ConnStep + StreamStep - StreamMin + n <= MaxWindow

VARIABLES
  \* the sender
  isOpen, closed,            \* H2Connection.state = .open, = .closed (else .handshake)
  prefaceReceived,
  opened, ended,             \* the stream exists; END_STREAM was sent on it
  initRemoteWindowSize,
  remote,                    \* remoteWindowSize_ of the connection and the streams
  writeBlocked,              \* H2Stream.writeBlocked: the streams where it is true
  blockedStreams,            \* H2Connection.blockedStreams
  bstreams,                  \* the streams notifyBlockedStreams has yet to visit
  unsent, armed,             \* frames buffered; the write source runs
  \* the connection
  data, control,             \* frames to the receiver (buffered ones last), to the sender
  \* the receiver
  local,                     \* localWindowSize_
  \* history
  sent, granted,             \* bytes of DATA sent; increments of window 0 sent
  excess                     \* bytes sent on a stream beyond what it was charged

senderVars == <<isOpen, closed, prefaceReceived, opened, ended, initRemoteWindowSize,
                remote, writeBlocked, blockedStreams, bstreams, unsent, armed>>
vars == <<senderVars, data, control, local, sent, granted, excess>>

Windows == Streams \cup {0}
Positive(w) == IF w > 0 THEN w ELSE 0          \* the getter remoteWindowSize
Least(a, b) == IF a < b THEN a ELSE b

-----------------------------------------------------------------------------
(* The sender. *)

\* appendBufferedData of one frame and sendBufferedData: the socket takes what it
\* likes, and runs the write source if it does not take all.
Buffer(frame) ==
  /\ data' = Append(data, frame)
  /\ unsent' \in 0..(unsent + 1)
  /\ armed' = (armed \/ unsent' > 0)

Dispatching == bstreams # {}     \* inside the loop of notifyBlockedStreams

\* createStream, on HEADERS of the client, which are refused until the end is open.
OpenStream(s) ==
  /\ isOpen /\ s \notin opened /\ ~Dispatching
  /\ opened' = opened \cup {s}
  /\ remote' = [remote EXCEPT ![s] = initRemoteWindowSize]
  /\ UNCHANGED <<isOpen, closed, prefaceReceived, ended, initRemoteWindowSize,
                 writeBlocked, blockedStreams, bstreams, unsent, armed, data, control,
                 local, sent, granted, excess>>

Window(s) == Least(Positive(remote[s]), Positive(remote[0]))

\* The stream waits: as a blocked stream of the connection, or for its own window.
Wait(s, listed) ==
  /\ writeBlocked' = writeBlocked \cup {s}
  /\ blockedStreams' = IF listed THEN blockedStreams \cup {s} ELSE blockedStreams

CanSend(s) == s \in opened \ ended /\ s \notin writeBlocked

\* No window, at one level or the other.
NoWindow(s) ==
  /\ CanSend(s) /\ Window(s) = 0
  /\ Wait(s, Positive(remote[0]) = 0)
  /\ UNCHANGED <<isOpen, closed, prefaceReceived, opened, ended, initRemoteWindowSize,
                 remote, bstreams, unsent, armed, data, control, local, sent, granted,
                 excess>>

\* sendH2Frame gives up: the buffer is not empty, or the frame is larger than the
\* connection's window, although only a part of it was asked for.
TooLarge_ForStream(s, n) == Window(s) = 0                             \* mutant
TooLarge(s, n) == Positive(remote[0]) < n
Refused(s, n) ==
  /\ CanSend(s) /\ Window(s) > 0
  /\ unsent > 0 \/ TooLarge(s, n)
  /\ Wait(s, TRUE)
  /\ UNCHANGED <<isOpen, closed, prefaceReceived, opened, ended, initRemoteWindowSize,
                 remote, bstreams, unsent, armed, data, control, local, sent, granted,
                 excess>>

\* The frame holds all n bytes; the stream is charged what fits its window.
SendData(s, n) ==
  LET slen == Least(Window(s), n) IN
  /\ CanSend(s) /\ Window(s) > 0 /\ unsent = 0 /\ ~TooLarge(s, n)
  /\ sent + n <= MaxSent
  /\ Buffer([id |-> s, len |-> n, end |-> FALSE, total |-> sent + n])
  /\ remote' = [remote EXCEPT ![0] = @ - n, ![s] = @ - slen]
  /\ sent' = sent + n /\ excess' = [excess EXCEPT ![s] = @ + (n - slen)]
  /\ IF slen < n THEN Wait(s, TRUE) ELSE UNCHANGED <<writeBlocked, blockedStreams>>
  /\ UNCHANGED <<isOpen, closed, prefaceReceived, opened, ended, initRemoteWindowSize,
                 bstreams, control, local, granted>>

\* An empty frame with END_STREAM needs neither window nor an empty buffer.
SendEnd(s) ==
  /\ CanSend(s)
  /\ Buffer([id |-> s, len |-> 0, end |-> TRUE, total |-> sent])
  /\ ended' = ended \cup {s}
  /\ UNCHANGED <<isOpen, closed, prefaceReceived, opened, initRemoteWindowSize, remote,
                 writeBlocked, blockedStreams, bstreams, control, local, sent, granted,
                 excess>>

-----------------------------------------------------------------------------
(* Waking blocked streams. *)

\* notifyBlockedStreams up to its loop: the streams that the loop will visit.
Notify(empty, window) ==
  IF empty /\ window > 0 THEN bstreams' = blockedStreams /\ blockedStreams' = {}
  ELSE UNCHANGED <<bstreams, blockedStreams>>

\* One round of the loop: onWrite, from which the application may send.
NotifyNext(s) ==
  /\ s \in bstreams /\ unsent = 0 /\ remote[0] > 0
  /\ bstreams' = bstreams \ {s} /\ writeBlocked' = writeBlocked \ {s}
  /\ UNCHANGED <<isOpen, closed, prefaceReceived, opened, ended, initRemoteWindowSize,
                 remote, blockedStreams, unsent, armed, data, control, local, sent,
                 granted, excess>>

\* What the loop leaves goes back.
LeftOver_Dropped(left) == {}                                          \* mutant
LeftOver(left) == left
NotifyEnd ==
  /\ Dispatching /\ (unsent > 0 \/ remote[0] <= 0)
  /\ blockedStreams' = blockedStreams \cup LeftOver(bstreams) /\ bstreams' = {}
  /\ UNCHANGED <<isOpen, closed, prefaceReceived, opened, ended, initRemoteWindowSize,
                 remote, writeBlocked, unsent, armed, data, control, local, sent,
                 granted, excess>>

\* TcpConnection.onWrite, and handleOnSend once the buffer is empty.  An event that
\* completes no frame changes nothing here.
WriteEvent ==
  /\ armed /\ ~Dispatching
  /\ unsent' \in 0..unsent /\ armed' = (unsent' > 0)
  /\ unsent > 0 => unsent' < unsent
  /\ isOpen' = (isOpen \/ (unsent' = 0 /\ prefaceReceived /\ ~closed))
  /\ IF unsent' = 0 /\ isOpen' THEN Notify(TRUE, remote[0])
                               ELSE UNCHANGED <<bstreams, blockedStreams>>
  /\ UNCHANGED <<closed, prefaceReceived, opened, ended, initRemoteWindowSize, remote,
                 writeBlocked, data, control, local, sent, granted, excess>>

\* handleInputData and onFrame: a closed connection takes no input, and in the state
\* handshake only SETTINGS are taken.
Takes(kind) == ~closed /\ (kind = "settings" \/ isOpen)
Arrives(kind) == control # <<>> /\ Head(control).kind = kind /\ ~Dispatching
Incoming(kind) == Arrives(kind) /\ Takes(kind) /\ control' = Tail(control)

\* Any other frame then ends the connection, and cbError tells the application.  What
\* arrives from now on is dropped: it stays in control, which nobody reads any more.
RefuseUpdate ==
  /\ Arrives("window") /\ ~Takes("window") /\ ~closed
  /\ closed' = TRUE
  /\ UNCHANGED <<isOpen, prefaceReceived, opened, ended, initRemoteWindowSize, remote,
                 writeBlocked, blockedStreams, bstreams, unsent, armed, data, control,
                 local, sent, granted, excess>>

\* handleSettingsFrame: the acknowledgement, applySettings, the end of the handshake.
Raised_Set(w, delta) == initRemoteWindowSize + delta                  \* mutant
Raised(w, delta) == w + delta
RecvSettings ==
  LET n == Head(control).n
      delta == n - initRemoteWindowSize IN
  /\ Incoming("settings")
  /\ Buffer([id |-> 0, len |-> 0, end |-> FALSE, total |-> sent])
  /\ initRemoteWindowSize' = n
  /\ remote' = [w \in Windows |-> IF w \in opened THEN Raised(remote[w], delta)
                                  ELSE remote[w]]
  /\ prefaceReceived' = TRUE
  /\ isOpen' = (isOpen \/ unsent' = 0)
  /\ UNCHANGED <<closed, opened, ended, writeBlocked, blockedStreams, bstreams, local,
                 sent, granted, excess>>

\* An update is refused as an overflow, by the window of the connection even if it is
\* for a stream; the refusal is not modelled, as UpdatesFit shows it is not reached.
TooMuch(n) == Positive(remote[0]) + n > MaxWindow

RecvConnUpdate ==
  LET n == Head(control).n IN
  /\ Incoming("window") /\ Head(control).id = 0 /\ ~TooMuch(n)
  /\ remote' = [remote EXCEPT ![0] = @ + n]
  /\ IF blockedStreams # {} /\ remote'[0] > 0 THEN Notify(unsent = 0, remote'[0])
     ELSE UNCHANGED <<bstreams, blockedStreams>>
  /\ UNCHANGED <<isOpen, closed, prefaceReceived, opened, ended, initRemoteWindowSize,
                 writeBlocked, unsent, armed, data, local, sent, granted, excess>>

Wakes_Never(s, n) == FALSE                                            \* mutant
Wakes(s, n) == remote[s] <= 0 /\ remote[s] + n > 0
RecvStreamUpdate ==
  LET n == Head(control).n
      s == Head(control).id IN
  /\ Incoming("window") /\ s # 0 /\ ~TooMuch(n)
  /\ remote' = [remote EXCEPT ![s] = @ + n]
  /\ writeBlocked' = IF Wakes(s, n) THEN writeBlocked \ {s} ELSE writeBlocked
  /\ UNCHANGED <<isOpen, closed, prefaceReceived, opened, ended, initRemoteWindowSize,
                 blockedStreams, bstreams, unsent, armed, data, local, sent, granted,
                 excess>>

-----------------------------------------------------------------------------
(* The receiver. *)

\* FlowControl.bytesReceived: the window after n bytes, and the increment sent.
Low(w, min) == w < min
Delta(w, n, min, step) == IF Low(w - n, min) THEN step - (w - n) ELSE 0
Refilled_Not(w, delta) == w                                           \* mutant
Refilled(w, delta) == w + delta
\* sendWindowUpdate.
Update(q, id, n, total) ==
  IF n = 0 THEN q
  ELSE Append(q, [kind |-> "window", id |-> id, n |-> n, total |-> total])

\* handleDataFrame of the connection, then of the stream; after END_STREAM the
\* stream's window is still refilled, but sendWindowUpdate refuses to say so.
RecvData ==
  LET f == Head(data)
      connDelta == Delta(local[0], f.len, ConnMin, ConnStep)
      streamDelta == Delta(local[f.id], f.len, StreamMin, StreamStep)
      n == IF f.end THEN 0 ELSE streamDelta IN
  /\ Len(data) > unsent
  /\ data' = Tail(data)
  /\ IF f.id = 0 THEN UNCHANGED <<local, control, granted>>
     ELSE /\ local' = [local EXCEPT ![0] = Refilled(@ - f.len, connDelta),
                                    ![f.id] = Refilled(@ - f.len, streamDelta)]
          /\ granted' = granted + connDelta
          /\ control' = Update(Update(control, 0, connDelta, granted'), f.id, n, granted')
  /\ UNCHANGED <<senderVars, sent, excess>>

-----------------------------------------------------------------------------
\* Both prefaces are on their way, the sender's perhaps still in its buffer.
Init ==
  /\ isOpen = FALSE /\ closed = FALSE /\ prefaceReceived = FALSE
  /\ opened = Early /\ ended = {}
  /\ initRemoteWindowSize = DefaultWindow /\ remote = [w \in Windows |-> DefaultWindow]
  /\ writeBlocked = {} /\ blockedStreams = {} /\ bstreams = {}
  /\ unsent \in {0, 1} /\ armed = TRUE
  /\ data = <<[id |-> 0, len |-> 0, end |-> FALSE, total |-> 0]>>
  /\ control = <<[kind |-> "settings", id |-> 0, n |-> StreamStep, total |-> 0],
                 [kind |-> "window", id |-> 0, n |-> ConnStep, total |-> ConnStep]>>
  /\ local = [w \in Windows |-> IF w = 0 THEN ConnStep ELSE StreamStep]
  /\ sent = 0 /\ granted = ConnStep /\ excess = [s \in Streams |-> 0]

Application ==
  \E s \in Streams : \/ OpenStream(s) \/ NoWindow(s) \/ SendEnd(s)
                     \/ \E n \in Lens : Refused(s, n) \/ SendData(s, n)
Notifying == NotifyEnd \/ \E s \in Streams : NotifyNext(s)
RecvControl == RecvSettings \/ RecvConnUpdate \/ RecvStreamUpdate \/ RefuseUpdate

Next == Application \/ Notifying \/ WriteEvent \/ RecvControl \/ RecvData

Spec == Init /\ [][Next]_vars

\* The queue of each end serves what is ready; nothing is assumed of the application.
FairSpec == Spec /\ WF_vars(Notifying) /\ WF_vars(WriteEvent)
                 /\ WF_vars(RecvControl) /\ WF_vars(RecvData)
-----------------------------------------------------------------------------
(* Properties. *)

\* Every variable has its type; no window of the sender goes below zero (sendData).
TypeOK ==
  /\ isOpen \in BOOLEAN /\ closed \in BOOLEAN /\ prefaceReceived \in BOOLEAN
  /\ armed \in BOOLEAN
  /\ opened \subseteq Streams /\ ended \subseteq Streams
  /\ writeBlocked \subseteq Streams /\ blockedStreams \subseteq Streams
  /\ bstreams \subseteq Streams
  /\ initRemoteWindowSize \in Nat /\ remote \in [Windows -> Nat] /\ local \in [Windows -> Int]
  /\ unsent \in Nat /\ unsent <= Len(data) /\ sent \in Nat /\ granted \in Nat
  /\ excess \in [Streams -> Nat]
  /\ data \in Seq([id : Windows, len : Nat, end : BOOLEAN, total : Nat])
  /\ control \in Seq([kind : {"settings", "window"}, id : Windows, n : Nat, total : Nat])

\* The sender never exceeds what the receiver granted for the connection, in
\* whatever order DATA and WINDOW_UPDATE cross (sendH2Frame, bytesReceived).
SentWithinGrant == sent <= DefaultWindow + granted

\* No WINDOW_UPDATE between two ends of Nutil is refused as an overflow.
UpdatesFit == \A i \in DOMAIN control :
  control[i].kind = "window" => Positive(remote[0]) + control[i].n <= MaxWindow

\* Once nothing is under way the two ends agree on every window, SETTINGS or not,
\* but for what sendData sent without charging it.
QuietAgreement == data = <<>> /\ control = <<>> =>
  /\ remote[0] = local[0] + DefaultWindow
  /\ \A s \in opened : remote[s] = local[s] + excess[s]

\* A blocked stream waits for an update of its own window, or is on the list of the
\* connection, which is looked at again: by the write source, or for the next
\* WINDOW_UPDATE, which is due below ConnMin (appendBlockedStream); a connection that
\* refused an early frame wakes nobody.
BlockedHasWaker == ~closed => \A s \in writeBlocked :
  \/ remote[s] <= 0
  \/ s \in bstreams
  \/ s \in blockedStreams /\ (armed \/ remote[0] < ConnMin + DefaultWindow)

\* A blocked stream is called back (onWrite), or the application is told that the
\* connection is over (onFrame): nobody waits for the other for ever.
BlockedIsWoken == \A s \in Streams :
  s \in writeBlocked ~> s \notin writeBlocked \/ closed
=============================================================================
