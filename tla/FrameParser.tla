----------------------------- MODULE FrameParser -----------------------------
(***************************************************************************)
(* FrameParser.parseInputData: cutting the input of an HTTP/2 connection   *)
(* into frames.  The socket hands over pieces of any size; a header or a   *)
(* payload that a piece leaves unfinished is kept until the next.          *)
(*                                                                         *)
(* A byte is its position in the input.  One action is one branch of the   *)
(* parser's loop.  What a frame decodes to, and what its handler answers,  *)
(* are inputs (parseFrame); H2Connection closes the connection after a     *)
(* failure or a stop and feeds the parser no more.                         *)
(***************************************************************************)
EXTENDS Integers, Sequences

CONSTANTS HeaderSize,   \* kH2FrameHeaderSize (9)
          MaxFrameSize, \* maxFrameSize
          FrameLengths, \* the values of the length field that occur
          MaxInput      \* bound on the bytes of input

ASSUME ParserBounds == /\ HeaderSize \in Nat \ {0} /\ MaxFrameSize \in Nat
                       /\ FrameLengths \subseteq Nat /\ MaxInput \in Nat

VARIABLES
  readState,            \* FrameParser.readState: "header", "payload"
  length,               \* header.length
  head,                 \* the bytes header was decoded from
  hdrBuffer, payload,   \* FrameParser.hdrBuffer, payload
  taken,                \* ptr: the bytes of input consumed
  remain,               \* remain: the bytes of this call not consumed
  at,                   \* where parseInputData is: "loop", "payload" (below the
                        \* header, in the same round), "returned", "failed"
  frames                \* history: the frames parsed

parserVars == <<readState, length, head, hdrBuffer, payload, taken, remain, at, frames>>

Bytes(p, n) == [i \in 1..n |-> p + i]
Consume(n) == taken' = taken + n /\ remain' = remain - n

-----------------------------------------------------------------------------
\* H2Connection hands over the next piece.
ParseInputData(n) ==
  /\ at = "returned" /\ taken + n <= MaxInput
  /\ remain' = n /\ at' = "loop"
  /\ UNCHANGED <<readState, length, head, hdrBuffer, payload, taken, frames>>

AllConsumed ==                                               \* returns success
  /\ at = "loop" /\ remain = 0
  /\ at' = "returned"
  /\ UNCHANGED <<readState, length, head, hdrBuffer, payload, taken, remain, frames>>

\* Too little for a header.
KeepHeader ==                                                \* returns incomplete
  /\ at = "loop" /\ remain > 0 /\ readState = "header"
  /\ Len(hdrBuffer) + remain < HeaderSize
  /\ hdrBuffer' = hdrBuffer \o Bytes(taken, remain)
  /\ Consume(remain)
  /\ at' = "returned"
  /\ UNCHANGED <<readState, length, head, payload, frames>>

\* A whole header, from hdrBuffer and the input; a frame may be too long.
TooLong(n) == n > MaxFrameSize
AfterHeader_NextRound(n) == IF TooLong(n) THEN "failed" ELSE "loop"   \* mutant
AfterHeader(n) == IF TooLong(n) THEN "failed" ELSE "payload"
Header(n) ==
  LET copyLen == HeaderSize - Len(hdrBuffer) IN
  /\ at = "loop" /\ remain > 0 /\ readState = "header"
  /\ remain >= copyLen
  /\ head' = hdrBuffer \o Bytes(taken, copyLen)
  /\ Consume(copyLen)
  /\ hdrBuffer' = <<>>
  /\ length' = n /\ payload' = <<>>
  /\ at' = AfterHeader(n)
  /\ readState' = IF TooLong(n) THEN readState ELSE "payload"
  /\ UNCHANGED frames

\* The payload is read, in the round of its header even if no input remains.
InPayload == at = "payload" \/ (at = "loop" /\ remain > 0 /\ readState = "payload")

\* parseFrame: "success", or an end: the frame is refused or its handler stops.
Parsed(body, ends) ==
  /\ frames' = Append(frames, [start |-> head[1] - 1, length |-> length,
                               head |-> head, body |-> body])
  /\ at' = IF ends THEN "failed" ELSE "loop"

\* The whole payload is in the input; readState is left when the frame fails.
Fits == remain >= length
PayloadAtOnce(ends) ==
  /\ InPayload /\ payload = <<>> /\ Fits
  /\ Parsed(Bytes(taken, length), ends)
  /\ IF ends THEN UNCHANGED <<taken, remain, readState>>
             ELSE Consume(length) /\ readState' = "header"
  /\ UNCHANGED <<length, head, hdrBuffer, payload>>

\* Part of it, kept.
CopyLen_All(kept) == remain                                           \* mutant
CopyLen(kept) == IF length - kept > remain THEN remain ELSE length - kept
KeepPayload ==                                               \* returns incomplete
  LET copyLen == IF payload = <<>> THEN remain ELSE CopyLen(Len(payload)) IN
  /\ InPayload
  /\ IF payload = <<>> THEN ~Fits
                       ELSE Len(payload) + copyLen < length
  /\ payload' = payload \o Bytes(taken, copyLen)
  /\ Consume(copyLen)
  /\ at' = "returned"
  /\ UNCHANGED <<readState, length, head, hdrBuffer, frames>>

\* The last part.
PayloadComplete(ends) ==
  LET copyLen == CopyLen(Len(payload)) IN
  /\ InPayload /\ payload # <<>> /\ Len(payload) + copyLen >= length
  /\ Consume(copyLen)
  /\ readState' = "header"
  /\ Parsed(payload \o Bytes(taken, copyLen), ends)
  /\ payload' = IF ends THEN payload \o Bytes(taken, copyLen) ELSE <<>>
  /\ UNCHANGED <<length, head, hdrBuffer>>

-----------------------------------------------------------------------------
ParserInit ==
  /\ readState = "header" /\ length = 0 /\ head = <<>>
  /\ hdrBuffer = <<>> /\ payload = <<>>
  /\ taken = 0 /\ remain = 0 /\ at = "returned" /\ frames = <<>>

ParserRound ==
  \/ AllConsumed \/ KeepHeader \/ KeepPayload
  \/ \E n \in FrameLengths : Header(n)
  \/ \E ends \in BOOLEAN : PayloadAtOnce(ends) \/ PayloadComplete(ends)

ParserNext == ParserRound \/ \E n \in 1..MaxInput : ParseInputData(n)

ParserSpec == ParserInit /\ [][ParserNext]_parserVars
-----------------------------------------------------------------------------
(* Properties. *)

\* Every variable has its type.
TypeOK ==
  /\ readState \in {"header", "payload"} /\ at \in {"loop", "payload", "returned", "failed"}
  /\ length \in Nat /\ taken \in Nat /\ remain \in Nat
  /\ head \in Seq(Nat) /\ hdrBuffer \in Seq(Nat) /\ payload \in Seq(Nat)
  /\ frames \in Seq([start : Nat, length : Nat, head : Seq(Nat), body : Seq(Nat)])

\* However the input is cut, the frames are those of the input (parseInputData).
Frames == INSTANCE FrameStream WITH Lengths <- FrameLengths
IsFrameStream == Frames!StreamSpec

\* A frame is parsed in the call that brings its last byte, an empty frame in the
\* call that brings the end of its header: none waits for bytes of the next one.
NothingHeldBack == at = "returned" =>
  IF readState = "header" THEN Len(hdrBuffer) < HeaderSize ELSE Len(payload) < length

\* The parser keeps less than one header and one payload of the agreed size.
HeldIsBounded == /\ Len(hdrBuffer) < HeaderSize
                 /\ Len(payload) <= MaxFrameSize
                 /\ at # "failed" => length <= MaxFrameSize
=============================================================================
