------------------------------ MODULE MCTableRows ------------------------------
(* Instances of TableRows for TLC: the authors of the library example, of whom *)
(* two fields may be left out of a row and two more may be NULL.  The authors  *)
(* have one name, so that the other columns of its key are unique together.    *)
EXTENDS TableRows

AuthorFields == <<"id", "born", "died", "books">>
AuthorUniques == {{"id"}, {"born", "died"}}

FewValues == [f \in Names |-> CASE f = "id" -> {0, 2}
                                []  f = "books" -> 0 .. 1
                                []  OTHER -> {1}]
=============================================================================
