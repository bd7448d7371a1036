---------------------------- MODULE MCPackedVector ----------------------------
(* Instances of PackedVector for TLC.                                          *)
EXTENDS PackedVector

(* Words, one of them with a length of two digits, an empty one, strings that  *)
(* look like a length, a blank and another length, and strings that a server   *)
(* puts between quotes.                                                        *)
Tricky == {<<"a">>, <<"b", "c">>, [i \in 1 .. 12 |-> "d"], <<"1">>, <<"1", " ", "a">>,
           <<" ", "2", " ">>, <<>>, <<"a", ",", "\"">>, <<"n", "U", "l", "L">>}

AnyText == UNION {[1 .. n -> {"a", "1", "2", " "}] : n \in 0 .. 4}
=============================================================================
