----------------------------- MODULE MCSslSocket -----------------------------
(***************************************************************************)
(* TLC instance of SslSocket: records of two bytes.                        *)
(***************************************************************************)
EXTENDS SslSocket
=============================================================================
