----------------------------- MODULE MCRequests -----------------------------
(* Three file names of different lengths.                                  *)
EXTENDS Requests

MCNames == {<<"a">>, <<"b", "c">>, <<"d", "e", "f">>}
=============================================================================
