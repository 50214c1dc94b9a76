--------------------------- MODULE MCH2Connection ---------------------------
(***************************************************************************)
(* TLC instances of H2Connection: a server and a client, each on the ids   *)
(* that let every branch of the handlers be taken.  The .cfg files give    *)
(* the constants.                                                          *)
(***************************************************************************)
EXTENDS H2Connection
=============================================================================
