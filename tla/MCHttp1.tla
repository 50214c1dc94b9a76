------------------------------- MODULE MCHttp1 -------------------------------
(***************************************************************************)
(* TLC instance of Http1: a body of two bytes, of which one could be the   *)
(* end of a line.                                                          *)
(***************************************************************************)
EXTENDS Http1

MCBody == <<"d", "LF">>
=============================================================================
