--------------------------- MODULE MCH2Handshake ---------------------------
(***************************************************************************)
(* TLC instances of H2Handshake.                                           *)
(***************************************************************************)
EXTENDS H2Handshake
=============================================================================
