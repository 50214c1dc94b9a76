------------------------------ MODULE TcpSocket ------------------------------
(***************************************************************************)
(* TcpSocket and its base class Socket: one descriptor, the two dispatch   *)
(* sources on it and the kernel's side of the connection.                  *)
(*                                                                         *)
(* The read source fires while there is input, the write source while it   *)
(* is not suspended and the kernel has room.  Both run on the serial queue *)
(* of the socket; cleanup cancels both.  Bytes are numbers: the n-th byte  *)
(* that one side hands to its socket is n.                                 *)
(***************************************************************************)
EXTENDS Integers, Sequences

CONSTANTS SockRoom,     \* bytes the kernel holds for a peer that does not read
          MaxIn         \* bound on the bytes the peer sends

ASSUME SockBounds == SockRoom \in Nat \ {0} /\ MaxIn \in Nat

VARIABLES
  sockState,            \* TcpSocket.state
  attaching,            \* attachFd has started the sources and not set the state
  live,                 \* fd is valid and the dispatch sources exist
  snd,                  \* writeSuspended, the kernel's room, the bytes it took
  peer,                 \* "up", "fin" (input ends), "reset" (input and output fail)
  inbox,                \* bytes that can be read
  arrived               \* number of bytes the peer has sent

sockVars == <<sockState, attaching, live, snd, peer, inbox, arrived>>

Fresh == sockState = "idle" /\ ~attaching
Usable == sockState = "open" /\ live
Joined == live /\ sockState # "connecting"       \* the kernel has a connection

\* write and writev: all or part of the data, 0 for EAGAIN (and for a socket
\* that is not open), -1 for an error.  A write of no bytes returns 0 in the
\* kernel, which the code takes for an error.  What is answered 0 because the socket
\* is not open does not resume the write source.
WriteRet(o, n) ==
  IF ~Usable THEN 0
  ELSE IF peer = "reset" \/ n = 0 THEN -1
  ELSE IF n <= o.room THEN n ELSE o.room

Resumed_OnError(ret, n) == ret < 0                                    \* mutant
Resumed(ret, n) == ret < n
WriteTo(o, data) ==
  LET ret  == WriteRet(o, Len(data))
      took == IF ret > 0 THEN ret ELSE 0
      resumes == Usable /\ Resumed(ret, Len(data))
  IN  [room      |-> o.room - took,
       wire      |-> o.wire \o SubSeq(data, 1, took),
       suspended |-> o.suspended /\ ~resumes,
       early     |-> o.early /\ ~resumes]

\* onWrite suspends the source before it calls back.  History: `early` if attachFd
\* has not set the state yet, until something resumes the source.
SuspendOnWrite(o) == [o EXCEPT !.suspended = TRUE, !.early = ~Usable]

Cleanup_FdOnly == UNCHANGED live                                      \* mutant
Cleanup == live' = FALSE

\* The sources' conditions.
Readable == live /\ (inbox # <<>> \/ peer # "up")
Writable == live /\ ~snd.suspended /\ (snd.room > 0 \/ peer = "reset")

SockInit ==
  /\ sockState = "idle" /\ attaching = FALSE /\ live = FALSE
  /\ snd = [suspended |-> TRUE, early |-> FALSE, room |-> SockRoom, wire |-> <<>>]
  /\ peer = "up" /\ inbox = <<>> /\ arrived = 0

\* initWithFd leaves both sources resumed.
InitWithFd ==
  /\ Fresh /\ live' = TRUE
  /\ snd' = [snd EXCEPT !.suspended = FALSE]

\* connect sets the state before it calls the kernel: until then nothing is ready
\* on the socket, so that no event comes in between.
StartConnect == InitWithFd /\ sockState' = "connecting" /\ UNCHANGED attaching

\* attachFd runs on its caller's thread and the sources on the queue: what is ready
\* on the accepted descriptor comes before the state is set, or after.
AttachSources == InitWithFd /\ attaching' = TRUE /\ UNCHANGED sockState
AttachOpen == attaching /\ attaching' = FALSE /\ sockState' = "open" /\ UNCHANGED <<live, snd>>

(* The kernel and the peer. *)
Arrive ==
  /\ Joined /\ peer = "up" /\ arrived < MaxIn
  /\ arrived' = arrived + 1
  /\ inbox' = Append(inbox, arrived')
  /\ UNCHANGED <<sockState, attaching, live, snd, peer>>

Drain ==
  /\ Joined /\ peer # "reset" /\ snd.room < SockRoom
  /\ snd' = [snd EXCEPT !.room = @ + 1]
  /\ UNCHANGED <<sockState, attaching, live, peer, inbox, arrived>>

PeerLeaves ==
  /\ Joined
  /\ \/ peer = "up" /\ peer' = "fin" /\ UNCHANGED inbox
     \/ peer # "reset" /\ peer' = "reset" /\ inbox' = <<>>
  /\ UNCHANGED <<sockState, attaching, live, snd, arrived>>

Kernel == Arrive \/ Drain \/ PeerLeaves
=============================================================================
