----------------------------- MODULE FrameStream -----------------------------
(***************************************************************************)
(* What FrameParser promises H2Connection: the frames it parses are those  *)
(* of the input, cut one behind the other, whatever the pieces in which    *)
(* the input arrives.  Bytes are positions in the input.                   *)
(***************************************************************************)
EXTENDS Naturals, Sequences

CONSTANTS HeaderSize,   \* kH2FrameHeaderSize
          Lengths       \* the payload lengths that occur

VARIABLE frames         \* the frames parsed: the bytes of the header and the payload

\* The n bytes that follow position p.
Bytes(p, n) == [i \in 1..n |-> p + i]

\* Where the last frame ends.
EndOf(f) == f.start + HeaderSize + f.length
Boundary == IF frames = <<>> THEN 0 ELSE EndOf(frames[Len(frames)])

FrameAt(p, n) ==
  [start |-> p, length |-> n,
   head |-> Bytes(p, HeaderSize), body |-> Bytes(p + HeaderSize, n)]

StreamInit == frames = <<>>
StreamNext == \E n \in Lengths : frames' = Append(frames, FrameAt(Boundary, n))
StreamSpec == StreamInit /\ [][StreamNext]_frames
=============================================================================
