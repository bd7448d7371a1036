------------------------------ MODULE MCFieldText ------------------------------
(* Instances of FieldText for TLC: a table with a field of each kind.          *)
EXTENDS FieldText

BookFields == <<"id", "title", "books", "day", "hour", "hours">>
BookType == [id |-> "int", title |-> "text", books |-> "text",
             day |-> "date", hour |-> "time", hours |-> "time"]

Value(n, apostrophe, length) ==
    <<[n |-> n, apostrophe |-> apostrophe, length |-> length]>>
Short == Value(1, FALSE, "short")
Apostrophe == Value(3, TRUE, "long")
Empty == Value(0, FALSE, "none")

EveryValue ==
    [f \in ToSet(BookFields) |->
        CASE f = "title" -> {Short, Apostrophe, Empty}
          [] f = "books" -> {Short \o Apostrophe, Short \o Empty, <<>>}
          [] f = "day" -> {Value(2, FALSE, "short"), Value(5, FALSE, "long")}
          [] OTHER -> {Value(2, FALSE, "short")}]

Noon == {[date |-> Value(2, FALSE, "short"), time |-> Value(4, FALSE, "short")]}
=============================================================================
