---------------------------- MODULE MCTableFormat ----------------------------
(* Instances of TableFormat for TLC: the tables of the library example, with   *)
(* setups that can be written and setups that cannot.                          *)
EXTENDS TableFormat

Id == Field("id", "autoinc", {"is_primary_key", "not_null"}, 1)
Title == Field("title", "text", {"not_null"}, 1)
Year == Field("year", "int", {}, 1)
BookId == Field("book_id", "int", {"not_null"}, 1)
Code == Field("code", "char_array", {"is_array"}, 1)

NoArray == Field("code", "char_array", {}, 1)
NoLength == Field("code", "char_array", {"is_array"}, 0)
Referring == Field("codes", "int", {"is_array", "is_reference"}, 1)
Untyped == Field("data", "blob", {}, 1)
Empty == Field("data", "empty", {}, 1)

ToBook(foreign, del, upd) == Ref("book_id", "book", foreign, TRUE, del, upd)

Books == {Setup(<<Id, Title>>, <<>>, <<>>),
          Setup(<<Title, Year, Id>>, <<<<"title", "year">>>>, <<>>),
          Setup(<<Id, Code>>, <<<<"code">>>>, <<>>)}
BadBooks == {Setup(<<Id, NoArray>>, <<>>, <<>>),
             Setup(<<Id, NoLength>>, <<>>, <<>>),
             Setup(<<Id, Referring>>, <<<<"id">>>>, <<>>),
             Setup(<<Untyped, Id>>, <<<<"id">>>>, <<>>),
             Setup(<<Id, Empty>>, <<>>, <<>>),
             Setup(<<Id, Title>>, <<<<>>>>, <<>>)}
Translations == {Setup(<<Id, BookId>>, <<<<"book_id">>>>, <<ToBook("id", "cascade", "restrict")>>),
                 Setup(<<BookId, Id>>, <<>>, <<ToBook("id", "set_null", "not"),
                                               Ref("book_id", "translation", "id", TRUE, "not", "cascade")>>),
                 Setup(<<Id, BookId>>, <<>>, <<>>),
                 Setup(<<Id, BookId>>, <<>>, <<ToBook("code", "not", "not")>>)}
BadTranslations == {Setup(<<Id, BookId>>, <<>>, <<ToBook("", "not", "not")>>),
                    Setup(<<Id, BookId>>, <<>>, <<ToBook("year", "not", "not"), ToBook("id", "not", "not")>>),
                    Setup(<<Id, BookId>>, <<>>, <<Ref("book_id", "book", "id", FALSE, "not", "not")>>),
                    Setup(<<Id, BookId>>, <<>>, <<Ref("book", "book", "id", TRUE, "not", "not")>>)}

TwoTables == {"book", "translation"}
Pairs(books, translations) ==
    {[t \in TwoTables |-> IF t = "book" THEN b ELSE u] : b \in books, u \in translations}

AnyDesign == Pairs(Books \cup BadBooks, Translations \cup BadTranslations)
=============================================================================
