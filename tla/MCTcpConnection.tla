--------------------------- MODULE MCTcpConnection ---------------------------
(***************************************************************************)
(* TLC instances of TcpConnection: sends of one, two and three iovecs, of zero *)
(* length too, against a kernel that takes two bytes at a time.            *)
(***************************************************************************)
EXTENDS TcpConnection

MCShapes == {<<1, 0, 0>>, <<3, 0, 0>>, <<0, 0, 0>>, <<1, 2, 0>>, <<1, 1, 1>>, <<2, 0, 1>>}
=============================================================================
