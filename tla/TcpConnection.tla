---------------------------- MODULE TcpConnection ----------------------------
(***************************************************************************)
(* TcpConnection over a plain TcpSocket: the send buffer that every HTTP   *)
(* and WebSocket connection writes through, the read loop, and the         *)
(* callbacks handleOnConnect, handleInputData, handleOnSend, handleOnError.*)
(*                                                                         *)
(* All of it runs on the socket's serial queue.  The application may send  *)
(* and close between two events, and from inside handleInputData, which is *)
(* why the read loop is modelled chunk by chunk (`reader`).                *)
(***************************************************************************)
EXTENDS TcpSocket

CONSTANTS InitSize,     \* most bytes given to attachFd as initData
          RecvSize,     \* kRecvBufferSize
          Shapes,       \* lengths of the three iovecs of one send, the last may be 0
          MaxOut        \* bound on the bytes sent

ASSUME ConnBounds == /\ InitSize \in Nat /\ RecvSize \in Nat \ {0} /\ MaxOut \in Nat
                     /\ Shapes \subseteq Nat \X Nat \X Nat

VARIABLES
  buffer,               \* TcpConnection.buffer
  accepted,             \* number of bytes that send reported as sent
  initBuffer,           \* initData not handed over yet
  reader,               \* where onRead is: "none", "start", "loop"
  handed,               \* history: the bytes given to handleInputData
  owed,                 \* history: a send returned 0 and handleOnSend has not followed
  connectTold,          \* history: what connect and handleOnConnect reported
  errors,               \* history: calls of handleOnError
  appClosed,            \* close() was called
  late                  \* history: a callback came after close()

sendVars == <<buffer, accepted, owed>>
readVars == <<initBuffer, reader, handed>>
toldVars == <<connectTold, errors, appClosed, late>>
vars == <<sockVars, sendVars, readVars, toldVars>>

Upto(n) == [i \in 1..n |-> i]
Drop(s, n) == SubSeq(s, n + 1, Len(s))
NextBytes(n) == [i \in 1..n |-> accepted + i]

-----------------------------------------------------------------------------
(* Sending. *)

\* sendBufferedData: its result, and what it leaves in the socket and the buffer.
FlushRet(b) == IF b = <<>> THEN 0 ELSE WriteRet(snd, Len(b))
FlushTo(b)  == IF b = <<>> THEN snd ELSE WriteTo(snd, b)
FlushLeaves_Whole(b) == IF FlushRet(b) >= Len(b) THEN <<>> ELSE b     \* mutant
FlushLeaves(b) ==
  IF FlushRet(b) >= Len(b) THEN <<>>
  ELSE IF FlushRet(b) > 0 THEN Drop(b, FlushRet(b)) ELSE b

\* What send(iovs) appends after writev took `ret` bytes, iovec by iovec: the
\* offset goes down by each iovec that was written whole, and is 0 after the first
\* that was not.  The callers pass one to three iovecs.
Offset_NoReset(ret, len) == IF ret < len THEN ret ELSE ret - len      \* mutant
Offset(ret, len) == IF ret < len THEN 0 ELSE ret - len
Unsent(data, lens, ret) ==
  LET ret2 == Offset(ret, lens[1])
      ret3 == Offset(ret2, lens[2])
      end2 == lens[1] + lens[2]
  IN  SubSeq(data, ret + 1, lens[1])
        \o SubSeq(data, lens[1] + ret2 + 1, end2)
        \o SubSeq(data, end2 + ret3 + 1, end2 + lens[3])

\* send: the data of one pointer, array or string, or of several iovecs.  Only
\* the iovec form keeps data of which nothing could be written.
Send(lens, gather) ==
  LET n    == lens[1] + lens[2] + lens[3]
      data == NextBytes(n)
      ret  == WriteRet(FlushTo(buffer), n)
  IN
  /\ accepted + n <= MaxOut
  /\ UNCHANGED <<sockState, attaching, live, peer, inbox, arrived, readVars, toldVars>>
  /\ \/ /\ FlushRet(buffer) < 0                                       \* returns -1
        /\ snd' = FlushTo(buffer)
        /\ UNCHANGED sendVars
     \/ /\ FlushRet(buffer) >= 0 /\ FlushLeaves(buffer) # <<>>        \* returns 0
        /\ snd' = FlushTo(buffer)
        /\ buffer' = FlushLeaves(buffer) /\ owed' = TRUE
        /\ UNCHANGED accepted
     \/ /\ FlushRet(buffer) >= 0 /\ FlushLeaves(buffer) = <<>>
        /\ snd' = WriteTo(FlushTo(buffer), data)
        /\ IF ret > 0 \/ (ret = 0 /\ gather)
           THEN /\ buffer' = Unsent(data, lens, ret)                  \* returns n
                /\ accepted' = accepted + n
                /\ owed' = (owed \/ n = 0)
           ELSE /\ buffer' = <<>>                                     \* returns ret
                /\ owed' = (owed \/ ret = 0)
                /\ UNCHANGED accepted

\* appendBufferedData and sendBufferedData, as H2Connection sends its frames.
SendBuffered(n) ==
  LET b == buffer \o NextBytes(n) IN
  /\ n > 0 /\ accepted + n <= MaxOut
  /\ accepted' = accepted + n
  /\ snd' = FlushTo(b)
  /\ buffer' = FlushLeaves(b)
  /\ UNCHANGED <<sockState, attaching, live, peer, inbox, arrived, owed, readVars, toldVars>>

-----------------------------------------------------------------------------
(* The connection's life. *)

\* connect returns an error of the kernel at once, but leaves the sources on.
Connect(fails) ==
  /\ ~appClosed
  /\ StartConnect
  /\ connectTold' = IF fails THEN {"returned"} ELSE {}
  /\ UNCHANGED <<peer, inbox, arrived, sendVars, readVars, errors, appClosed, late>>

AttachFd ==
  /\ ~appClosed
  /\ AttachSources
  /\ \E n \in 0..InitSize : initBuffer' = Upto(n) /\ arrived' = n
  /\ UNCHANGED <<peer, inbox, sendVars, reader, handed, toldVars>>

\* The end of attachFd: also after an event or a callback that has closed the socket.
AttachFdReturns ==
  /\ AttachOpen
  /\ UNCHANGED <<peer, inbox, arrived, sendVars, readVars, toldVars>>

Close ==
  /\ ~appClosed /\ ~Fresh
  /\ appClosed' = TRUE
  /\ Cleanup
  /\ UNCHANGED <<sockState, attaching, snd, peer, inbox, arrived, sendVars, readVars,
                 connectTold, errors, late>>

Idle == reader = "none"
Called == late' = (late \/ appClosed)          \* a callback is made

\* processRead or processWrite while connecting.
ConnectEvent(ok) ==
  /\ Idle /\ live /\ sockState = "connecting"
  /\ IF ok THEN sockState' = "open" /\ UNCHANGED live
           ELSE sockState' = "closed" /\ Cleanup
  /\ connectTold' = connectTold \cup {IF ok THEN "connected" ELSE "failed"}
  /\ Called
  /\ UNCHANGED <<attaching, snd, peer, inbox, arrived, sendVars, readVars, errors,
                 appClosed>>

\* onWrite leaves a failed flush to the read source.
AfterFlush_Closes(ret) == IF ret < 0 THEN Cleanup ELSE UNCHANGED live \* mutant
AfterFlush(ret) == UNCHANGED live

\* processWrite: suspend, flush, and tell the application once all is sent.
WriteEvent ==
  LET o   == SuspendOnWrite(snd)
      ret == WriteRet(o, Len(buffer))
  IN
  /\ Idle /\ sockState # "connecting" /\ Writable
  /\ \/ /\ buffer = <<>>
        /\ snd' = o /\ UNCHANGED buffer
        /\ owed' = FALSE /\ Called /\ UNCHANGED live                    \* handleOnSend
     \/ /\ buffer # <<>> /\ ret = Len(buffer)
        /\ snd' = WriteTo(o, buffer) /\ buffer' = <<>>
        /\ owed' = FALSE /\ Called /\ UNCHANGED live                    \* handleOnSend
     \/ /\ buffer # <<>> /\ ret # Len(buffer)
        /\ snd' = WriteTo(o, buffer)
        /\ buffer' = FlushLeaves(buffer)
        /\ AfterFlush(ret)
        /\ UNCHANGED <<owed, late>>
  /\ UNCHANGED <<sockState, attaching, peer, inbox, arrived, accepted, readVars,
                 connectTold, errors, appClosed>>

\* processRead: nothing to read is the end of the connection.
ReadEvent ==
  /\ Idle /\ sockState # "connecting" /\ Readable
  /\ IF inbox # <<>>
     THEN /\ reader' = "start"
          /\ UNCHANGED <<sockState, live, errors, late>>
     ELSE /\ sockState' = "closed" /\ Cleanup
          /\ errors' = errors + 1 /\ Called
          /\ UNCHANGED reader
  /\ UNCHANGED <<attaching, snd, peer, inbox, arrived, sendVars, initBuffer, handed,
                 connectTold, appClosed>>

\* initBuffer after the handler returned goOn.
InitLeft_KeptOnStop(goOn) == IF goOn THEN <<>> ELSE initBuffer        \* mutant
InitLeft(goOn) == <<>>

\* onRead: the data that came with attachFd goes first, and once.
ReadInit(goOn) ==
  /\ reader = "start" /\ initBuffer # <<>>
  /\ handed' = handed \o initBuffer /\ initBuffer' = InitLeft(goOn)
  /\ reader' = IF goOn THEN "loop" ELSE "none"
  /\ Called
  /\ UNCHANGED <<sockVars, sendVars, connectTold, errors, appClosed>>

ReadRet_NoState == IF inbox # <<>> THEN "data"                        \* mutant
                   ELSE IF peer # "up" THEN "error" ELSE "none"
ReadRet == IF ~Usable THEN "none"
           ELSE IF inbox # <<>> THEN "data"
           ELSE IF peer # "up" THEN "error" ELSE "none"

ReadChunk(goOn) ==
  /\ reader = "loop" \/ (reader = "start" /\ initBuffer = <<>>)
  /\ \/ /\ ReadRet = "data"
        /\ \E n \in 1..RecvSize :
             /\ n = RecvSize \/ n = Len(inbox)
             /\ n <= Len(inbox)
             /\ handed' = handed \o SubSeq(inbox, 1, n)
             /\ inbox' = Drop(inbox, n)
        /\ reader' = IF goOn THEN "loop" ELSE "none"
        /\ Called
        /\ UNCHANGED <<live, errors>>
     \/ /\ ReadRet = "none" /\ reader' = "none"
        /\ UNCHANGED <<live, handed, inbox, errors, late>>
     \/ /\ ReadRet = "error" /\ reader' = "none"
        /\ Cleanup
        /\ errors' = errors + 1 /\ Called
        /\ UNCHANGED <<handed, inbox>>
  /\ UNCHANGED <<sockState, attaching, snd, peer, arrived, sendVars, initBuffer,
                 connectTold, appClosed>>

-----------------------------------------------------------------------------
Init ==
  /\ SockInit
  /\ buffer = <<>> /\ accepted = 0 /\ owed = FALSE
  /\ initBuffer = <<>> /\ reader = "none" /\ handed = <<>>
  /\ connectTold = {} /\ errors = 0 /\ appClosed = FALSE /\ late = FALSE

\* The queue is busy until onRead makes its first callback.
App ==
  /\ reader # "start"
  /\ \/ \E lens \in Shapes, gather \in BOOLEAN :
          (gather \/ lens[2] + lens[3] = 0) /\ Send(lens, gather)
     \/ \E n \in 1..MaxOut : SendBuffered(n)
     \/ \E fails \in BOOLEAN : Connect(fails)
     \/ AttachFd
     \/ Close

Reading == \E goOn \in BOOLEAN : ReadInit(goOn) \/ ReadChunk(goOn)

Connecting == \E ok \in BOOLEAN : ConnectEvent(ok)

Next ==
  \/ App \/ AttachFdReturns \/ Connecting \/ WriteEvent \/ ReadEvent \/ Reading
  \/ Kernel /\ UNCHANGED <<sendVars, readVars, toldVars>>

Spec == Init /\ [][Next]_vars

\* The queue runs the handler of a source that stays ready, a handler and attachFd
\* return, and the kernel reports what becomes of a connect.
QueueFairness == WF_vars(WriteEvent) /\ WF_vars(ReadEvent) /\ WF_vars(Reading)
                 /\ WF_vars(Connecting) /\ WF_vars(AttachFdReturns)
\* The peer reads what it is sent.
PeerReads == WF_vars(Drain /\ UNCHANGED <<sendVars, readVars, toldVars>>)

FairSpec == Spec /\ QueueFairness /\ PeerReads
-----------------------------------------------------------------------------
(* Properties. *)

SendSide == [suspended : BOOLEAN, early : BOOLEAN, room : 0..SockRoom, wire : Seq(Nat)]

\* Every variable has its type.
TypeOK ==
  /\ sockState \in {"idle", "connecting", "open", "closed"}
  /\ attaching \in BOOLEAN /\ live \in BOOLEAN /\ snd \in SendSide
  /\ peer \in {"up", "fin", "reset"}
  /\ inbox \in Seq(Nat) /\ arrived \in Nat
  /\ buffer \in Seq(Nat) /\ accepted \in Nat /\ owed \in BOOLEAN
  /\ initBuffer \in Seq(Nat) /\ reader \in {"none", "start", "loop"}
  /\ handed \in Seq(Nat)
  /\ connectTold \subseteq {"returned", "connected", "failed"}
  /\ errors \in Nat /\ appClosed \in BOOLEAN /\ late \in BOOLEAN

\* What send took is what it promises: the bytes on the wire and those in the
\* buffer are the bytes it reported as sent, in order (send, sendBufferedData).
NoByteLost == snd.wire \o buffer = Upto(accepted)

\* The write source is running whenever somebody waits for it: while bytes are
\* buffered, and while a caller that was answered 0 waits for handleOnSend.
\* onWrite suspends it, write resumes it, in three places that must agree.  Excepted
\* is a source that was suspended before attachFd set the state: a write that is
\* answered 0 by a socket not open yet does not resume it, only a later one does.
Asleep(o) == o.suspended /\ ~o.early
NoLostWakeup == live /\ (buffer # <<>> \/ owed) => ~Asleep(snd)

\* Input is handed over once and in order, the data of attachFd first (onRead).
InputInOrder == handed = Upto(Len(handed))

\* The end of a connection is reported by one call, of handleOnConnect or of
\* handleOnError, though three paths lead there (onClose, onRead, onConnect).
EndReportedOnce ==
  errors + (IF "failed" \in connectTold THEN 1 ELSE 0) <= 1

\* No callback follows close(), whichever handler it was called from.
NothingAfterClose == ~late

\* TcpConnection is a byte stream: the promise of send, seen from its callers.
Stream == INSTANCE ByteStream WITH
  Bytes <- 1..MaxOut, MaxTaken <- MaxOut,
  taken <- Upto(accepted), delivered <- snd.wire
IsByteStream == Stream!StreamSpec

\* A caller that was answered 0 is told when to try again, unless the write event
\* came before attachFd had set the state.
WriterIsTold == owed /\ live ~> ~owed \/ ~live \/ snd.early

\* A peer that leaves is noticed and reported, even by an idle connection.
PeerLossReported == peer # "up" ~> errors > 0 \/ appClosed
=============================================================================
