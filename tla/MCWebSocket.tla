----------------------------- MODULE MCWebSocket -----------------------------
(***************************************************************************)
(* TLC instances of WebSocket.                                             *)
(***************************************************************************)
EXTENDS WebSocket
=============================================================================
