------------------------------ MODULE FieldText ------------------------------
(* How DBConnectionPostgre writes the values of fields into its statements:    *)
(* a row in an INSERT, a value of a condition in a SELECT or DELETE, and what  *)
(* the server makes of either.                                                 *)
(*                                                                             *)
(* The value of a field is a sequence of elements, one unless it is an array;  *)
(* an element is a record of a number, which tells it from others, whether its *)
(* text holds an apostrophe, and how long it is: nothing, at most 15           *)
(* characters, or more than 16.  A literal is an element and its form: bare,   *)
(* between quotes as it is, or escaped by libpqxx.                             *)
EXTENDS Naturals, FiniteSets, SequencesExt

CONSTANTS
    Fields,   \* the fields of the table, in its order
    Type,     \* the type of each
    Arrays,   \* fields that are arrays
    Values,   \* values that an application gives to a field, for each field
    Clocks,   \* readings of a clock, with a value for their date and their time
    MaxFields, \* bound on the fields of a row that have a value
    MaxRows   \* bound on the rows of the table

Names == ToSet(Fields)
Types == {"int", "uuid", "text", "char_array", "date", "time"}

Elements == [n : Nat, apostrophe : BOOLEAN, length : {"none", "short", "long"}]

ASSUME FieldsAssumption ==
    Fields \in Seq(Names) /\ Type \in [Names -> Types] /\ Arrays \subseteq Names

(* A value is one of its field's type: only texts have apostrophes or are      *)
(* empty.  (A date of exactly 16 characters, of which DateToPostgreDate leaves *)
(* a text without an end, is none of them.)                                    *)
ASSUME ValuesAssumption ==
    \A f \in Names : \A v \in Values[f] :
        /\ v \in Seq(Elements)
        /\ f \notin Arrays => Len(v) = 1
        /\ Type[f] \notin {"text", "char_array"} =>
               \A k \in DOMAIN v : ~v[k].apostrophe /\ v[k].length # "none"

VARIABLES
    dry,     \* is_dry_run of the connection: it has no transaction
    rows,    \* the rows of the table
    answer   \* what the last call was and what it answered

textVars == <<dry, rows, answer>>

Literal(form, v) == [form |-> form, value |-> v]
Exception(v) == Literal("exception", v)  \* none: the statement is not made

-----------------------------------------------------------------------------
(* The text of an INSERT.                                                      *)

DateToPostgreDate(v) ==
    IF v.length = "long" THEN Exception(v) ELSE Literal("quoted", v)
TimeToPostgreTime(v) == Literal("quoted", v)

(* Mutant: times are left as they are.                                         *)
getVariableValueBareTime(type, v) ==
    CASE type \in {"text", "char_array"} -> IF dry THEN <<>> ELSE <<Literal("escaped", v)>>
      [] type = "date" -> <<DateToPostgreDate(v)>>
      [] OTHER -> <<Literal("bare", v)>>

(* No literal at all for a text when there is no transaction to quote it.      *)
getVariableValue(type, v) ==
    CASE type \in {"text", "char_array"} -> IF dry THEN <<>> ELSE <<Literal("escaped", v)>>
      [] type = "date" -> <<DateToPostgreDate(v)>>
      [] type = "time" -> <<TimeToPostgreTime(v)>>
      [] OTHER -> <<Literal("bare", v)>>

(* What stands for a field: ARRAY[...] of its elements, or the one element.    *)
(* TranslateToVector, which takes an array apart, throws for an empty one.     *)
IsWrittenAsArray(f) == f \in Arrays /\ Type[f] # "char_array"
addVariableToString(f, value) ==
    LET literals == FlattenSeq([i \in DOMAIN value |-> getVariableValue(Type[f], value[i])])
        empty == {i \in DOMAIN value : value[i].length = "none"}
    IN  IF IsWrittenAsArray(f) /\ empty # {} THEN <<<<Exception(value)>>>>
        ELSE IF IsWrittenAsArray(f) \/ literals # <<>> THEN <<literals>> ELSE <<>>

(* The loop over the fields that the row has a value for, in their order.      *)
ForEach(row, texts) ==
    FlattenSeq([i \in DOMAIN Fields |->
                   IF Fields[i] \in DOMAIN row THEN texts[Fields[i]] ELSE <<>>])

setupInsertString(row) ==
    [columns |-> ForEach(row, [f \in DOMAIN row |-> <<f>>]),
     values  |-> ForEach(row, [f \in DOMAIN row |-> addVariableToString(f, row[f])])]

Throws(stmt) == \E i \in DOMAIN stmt.values : \E k \in DOMAIN stmt.values[i] :
    stmt.values[i][k].form = "exception"

-----------------------------------------------------------------------------
(* The text of a condition.                                                    *)

(* Mutant: only arrays of characters are quoted.                               *)
DataFieldToStrOfChars(type, v) ==
    IF type = "char_array" THEN Literal("quoted", v) ELSE Literal("bare", v)

(* field2str: a clock reading becomes the text of a date or of a time.         *)
TimeToString(clock) == clock.time
DateToString(clock) == clock.time  \* hour, minute and second as well
translate(clock, type) ==
    IF type = "date" THEN DateToString(clock) ELSE TimeToString(clock)

(* What an application can ask of a field: the value it means and the one that *)
(* the condition holds.                                                        *)
Asked(f) ==
    {[meant |-> v, value |-> v] : v \in Values[f]} \cup
    (IF Type[f] \notin {"date", "time"} THEN {}
     ELSE {[meant |-> c[Type[f]], value |-> translate(c, Type[f])] : c \in Clocks})

(* What GetString calls for every value.  where_string_set, which would quote  *)
(* the text by libpqxx and write dates as an INSERT does, is made by           *)
(* setupSelectString and setupDeleteString and never called.                   *)
DataFieldToStr(type, v) ==
    IF type \in {"char_array", "text"} THEN Literal("quoted", v) ELSE Literal("bare", v)

-----------------------------------------------------------------------------
(* The server.                                                                 *)

(* A date, a time or a UUID without quotes is an expression of numbers or no   *)
(* expression at all.                                                          *)
Readable(type, l) == l.form = "bare" => type = "int"

(* ARRAY[] has no type of its own, and ARRAY[...] of texts between quotes is   *)
(* an array of texts, which no column of dates or times takes.                 *)
Accepts(stmt) ==
    /\ Len(stmt.values) = Len(stmt.columns)
    /\ \A i \in DOMAIN stmt.values :
           /\ stmt.values[i] # <<>>
           /\ IsWrittenAsArray(stmt.columns[i]) => Type[stmt.columns[i]] \notin {"date", "time"}
           /\ \A k \in DOMAIN stmt.values[i] :
                  Readable(Type[stmt.columns[i]], stmt.values[i][k])

RowOf(stmt) ==
    [f \in ToSet(stmt.columns) |->
        LET i == CHOOSE j \in DOMAIN stmt.columns : stmt.columns[j] = f
        IN  [k \in DOMAIN stmt.values[i] |-> stmt.values[i][k].value]]

(* NULL equals nothing.                                                        *)
Matching(f, l) == {r \in rows : f \in DOMAIN r /\ r[f] = <<l.value>>}

(* What a condition `f = l` may come to.  An apostrophe ends a text between    *)
(* plain quotes, and what is left of it goes on with the condition: it may be  *)
(* another one, or none that the server knows.                                 *)
Refused == [status |-> "HAVE_ERROR", hits |-> {}]
Understood(hits) == [status |-> "OK", hits |-> hits]
Outcomes(f, l) ==
    IF ~Readable(Type[f], l) THEN {Refused}
    ELSE IF l.form = "quoted" /\ l.value.apostrophe
    THEN {Refused} \cup {Understood(hits) : hits \in SUBSET rows}
    ELSE {Understood(Matching(f, l))}

-----------------------------------------------------------------------------
(* The calls.                                                                  *)

GivenRows == UNION {{r \in [set -> UNION {Values[f] : f \in set}] :
                        \A f \in set : r[f] \in Values[f]} :
                    set \in {s \in SUBSET Names : Cardinality(s) <= MaxFields}}

Answer(call, status, hits, f, v) ==
    [call |-> call, status |-> status, hits |-> hits, field |-> f, value |-> v]

(* A row without a value has no text; a dry run calls that a success.  What is *)
(* thrown while the text is made is answered by the manager.                   *)
InsertRows == \E row \in GivenRows :
    LET stmt == setupInsertString(row)
        sent == ~dry /\ DOMAIN row # {} /\ ~Throws(stmt)
        status == IF Throws(stmt) THEN "HAVE_ERROR" ELSE IF dry THEN "OK"
                  ELSE IF ~sent THEN "NOT"
                  ELSE IF Accepts(stmt) THEN "OK" ELSE "HAVE_ERROR"
    IN  /\ Cardinality(rows) < MaxRows
        /\ rows' = IF sent /\ Accepts(stmt) THEN rows \cup {RowOf(stmt)} ELSE rows
        /\ answer' = Answer(IF DOMAIN row = {} THEN "nothing" ELSE "insert",
                            status, {}, "none", row)
        /\ UNCHANGED dry

(* A condition `f = v` made by WhereTreeConstructor::Eq.                       *)
SelectRows == \E f \in Names \ Arrays : \E v \in Asked(f) :
    \E o \in Outcomes(f, DataFieldToStr(Type[f], v.value[1])) :
        /\ answer' = IF dry THEN Answer("select", "OK", {}, f, v)
                     ELSE Answer("select", o.status, o.hits, f, v)
        /\ UNCHANGED <<dry, rows>>

DeleteRows == \E f \in Names \ Arrays : \E v \in Asked(f) :
    \E o \in Outcomes(f, DataFieldToStr(Type[f], v.value[1])) :
        /\ answer' = IF dry THEN Answer("delete", "OK", {}, f, v)
                     ELSE Answer("delete", o.status, o.hits, f, v)
        /\ rows' = IF dry THEN rows ELSE rows \ o.hits
        /\ UNCHANGED dry

-----------------------------------------------------------------------------
TextInit ==
    /\ dry \in BOOLEAN
    /\ rows = {}
    /\ answer = Answer("nothing", "OK", {}, "none", {})

TextNext == InsertRows \/ SelectRows \/ DeleteRows

TextSpec == TextInit /\ [][TextNext]_textVars

-----------------------------------------------------------------------------
(* Properties.                                                                 *)

(* What can be written into an INSERT: anything but a UUID, a date of too many *)
(* characters, and arrays of nothing, of empty elements, of dates or of times. *)
CanBeWritten(f, v) ==
    /\ Type[f] # "uuid" /\ v # <<>>
    /\ Type[f] = "date" => \A k \in DOMAIN v : v[k].length # "long"
    /\ IsWrittenAsArray(f) =>
           Type[f] \notin {"date", "time"} /\ \A k \in DOMAIN v : v[k].length # "none"

(* Whatever such values a row is given - texts with apostrophes, empty texts,  *)
(* dates, times, arrays of texts or numbers - the server takes its INSERT and  *)
(* has the row afterwards.                                                     *)
EveryRowIsTaken ==
    (/\ answer.call = "insert" /\ ~dry
     /\ \A f \in DOMAIN answer.value : CanBeWritten(f, answer.value[f]))
        => answer.status = "OK" /\ answer.value \in rows

(* A condition on a value without an apostrophe takes rows that hold what the  *)
(* caller means and no others; on a number or a text it is understood, so that *)
(* a SELECT finds every row that was inserted with it and a DELETE leaves      *)
(* none.  (DataFieldToStr does not escape: a condition on a text with an       *)
(* apostrophe may be refused or be another one.)                               *)
WhatIsStoredIsFound ==
    (/\ answer.call \in {"select", "delete"} /\ ~dry
     /\ ~answer.value.value[1].apostrophe) =>
        LET Holds(r) == /\ answer.field \in DOMAIN r
                        /\ r[answer.field] = answer.value.meant
            left == {r \in rows : Holds(r)}
        IN  /\ \A r \in answer.hits : Holds(r)
            /\ Type[answer.field] \in {"int", "text", "char_array"} =>
                   /\ answer.status = "OK"
                   /\ left = IF answer.call = "select" THEN answer.hits ELSE {}
=============================================================================
