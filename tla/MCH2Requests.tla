---------------------------- MODULE MCH2Requests ----------------------------
(***************************************************************************)
(* TLC instance of H2Requests: two requests, two connections.              *)
(***************************************************************************)
EXTENDS H2Requests
=============================================================================
