--------------------------- MODULE MCH2FlowControl ---------------------------
(***************************************************************************)
(* TLC instance of H2FlowControl: two streams that share the connection's  *)
(* window, windows of a few bytes in the order of the real ones.           *)
(***************************************************************************)
EXTENDS H2FlowControl
=============================================================================
