----------------------------- MODULE ByteStream -----------------------------
(***************************************************************************)
(* What TcpConnection.send promises its callers: the bytes it says it has  *)
(* taken leave in the order in which it took them, none lost, repeated or  *)
(* overtaken, whatever the kernel accepts at a time.  Whether they leave   *)
(* at all depends on the peer, and is a liveness property of TcpConnection.*)
(***************************************************************************)
EXTENDS Naturals, Sequences, SequencesExt

CONSTANTS Bytes,        \* the values a byte may have
          MaxTaken      \* bound on the bytes taken in one call

VARIABLES taken, delivered

streamVars == <<taken, delivered>>

StreamInit == taken = <<>> /\ delivered = <<>>

\* One call or one event: some bytes are taken, some bytes leave.
Transfer ==
  /\ \E n \in 0..MaxTaken : \E new \in [1..n -> Bytes] : taken' = taken \o new
  /\ IsPrefix(delivered, delivered')
  /\ IsPrefix(delivered', taken')

StreamSpec == StreamInit /\ [][Transfer]_streamVars
=============================================================================
