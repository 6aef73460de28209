----------------------------- MODULE MCThreadInfo -----------------------------
(* An instance of ThreadInfo for TLC: a pool of two threads of one name, one   *)
(* with a cut name, and two native threads, one named like the end of it.      *)
EXTENDS ThreadInfo

SomeNames ==
    <<MainName, <<"p">>, <<"p">>, <<"a", ".", "b", "c">>, <<"b", "c">>, <<"x", "y", "z">>>>
=============================================================================
