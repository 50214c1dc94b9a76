------------------------------- MODULE MCHPack -------------------------------
(***************************************************************************)
(* TLC instance of HPack: headers whose keys collide, among them a name    *)
(* that is the key of another header, and tables of two or three entries.  *)
(***************************************************************************)
EXTENDS HPack

H(n, v) == [name |-> n, value |-> v]
MCHeaders == {H(<<"a">>, <<"b">>), H(<<"a", "b">>, <<>>), H(<<"a">>, <<"b", "b">>),
              H(<<"a", "b">>, <<"b">>), H(<<"a">>, <<"a", "a", "a", "a", "a", "a", "a">>),
              H(<<"b">>, <<"a">>)}
MCStatic == <<H(<<"a", "b">>, <<>>), H(<<"b">>, <<"b">>), H(<<"b">>, <<>>)>>
MCIndexing == {<<"a">>, <<"a", "b">>}
=============================================================================
