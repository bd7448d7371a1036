------------------------------- MODULE TableRows -------------------------------
(* The way of a row: from the structs of an application through an insert      *)
(* setup and the text of an INSERT into a table, and back through a SELECT.    *)
(*                                                                             *)
(* A struct has a flag for every field that is set.  A row of the setup maps   *)
(* the index of a field to its value.  The statement names the columns once    *)
(* and gives the values of each row by position.                               *)
EXTENDS Integers, FiniteSets, SequencesExt

CONSTANTS
    Fields,    \* fields of the table, in the order of the table
    Id,        \* the field of its primary key, a serial number
    Optional,  \* fields left out of an insert when they are not positive
    NotNull,   \* columns that refuse NULL
    Uniques,   \* sets of columns that are unique together
    Values,    \* values that an application gives to a field, for each field
    MaxRows,   \* bound on the rows of the table: nothing more is saved into so many
    MaxSerial, \* bound on the next serial number
    MaxSaved   \* bound on the structs saved in one call

Names == ToSet(Fields)
None == 0   \* what an unset number or string reads as
NULL == -1

ASSUME FieldsAssumption ==
    /\ Fields \in Seq(Names) /\ Id \in Names /\ Optional \cup NotNull \subseteq Names
    /\ Id \in Optional /\ {Id} \in Uniques /\ Uniques \subseteq SUBSET Names

(* Values are numbers, or numbered; an application has none for NULL.          *)
ASSUME ValuesAssumption ==
    /\ \A f \in Names : Values[f] \subseteq Nat
    /\ MaxRows \in Nat /\ MaxSerial \in Nat \ {0} /\ MaxSaved \in Nat

VARIABLES
    table,   \* the rows, each a function of all columns
    serial,  \* the next value of the serial number
    read,    \* the structs of the last SELECT
    answer,  \* what the last call has answered
    ledger,  \* <<id, struct>> where the caller was told the id of what it saved
    mixed    \* the rows that went in together with rows of other fields

vars == <<table, serial, read, answer, ledger, mixed>>

-----------------------------------------------------------------------------
(* Structs.                                                                    *)

(* What an unset member holds makes no difference: insert_macro asks the flag. *)
Struct(set, v) ==
    [initialized |-> set, value |-> [f \in Names |-> IF f \in set THEN v[f] ELSE None]]

Structs == UNION {{Struct(set, v) : v \in {w \in [set -> UNION {Values[f] : f \in set}] :
                                              \A f \in set : w[f] \in Values[f]}} :
                  set \in SUBSET Names}

-----------------------------------------------------------------------------
(* Insert setups.                                                              *)

(* Mutant: the flags are not compared.                                         *)
NoConflict(structs) == FALSE

haveConflict(structs) ==
    \E k \in DOMAIN structs : structs[k].initialized # structs[1].initialized

(* Mutant: an unset value is inserted like the others.                         *)
setInsertValuesOfFlags(s) == [f \in s.initialized |-> s.value[f]]

(* setInsertValues<book>, <translation>, <author>: the fields of the flags,    *)
(* but an optional one only when it holds something.                           *)
setInsertValues(s) ==
    LET set == {f \in s.initialized : f \in Optional => s.value[f] > 0}
    IN  [f \in set |-> s.value[f]]

values_vec(structs) == [k \in DOMAIN structs |-> setInsertValues(structs[k])]

(* A map is walked in the order of the indexes of its fields.                  *)
InOrder(row) ==
    FlattenSeq([i \in DOMAIN Fields |->
                   IF Fields[i] \in DOMAIN row THEN <<Fields[i]>> ELSE <<>>])

(* setupInsertString: the columns are those of the first row.                  *)
Statement(rows, act) ==
    [columns |-> InOrder(rows[1]),
     tuples  |-> [k \in DOMAIN rows |->
                     [i \in DOMAIN InOrder(rows[k]) |-> rows[k][InOrder(rows[k])[i]]]],
     act     |-> act]

-----------------------------------------------------------------------------
(* The server.                                                                 *)

(* getOnExistActForInsert gives "ON CONFLICT DO UPDATE" without a target and   *)
(* without SET, which is no SQL; nor are tuples of another length.             *)
Parses(st) ==
    /\ st.act # "do_update"
    /\ \A k \in DOMAIN st.tuples : Len(st.tuples[k]) = Len(st.columns)

NewRow(columns, tuple, number) ==
    [f \in Names |-> IF \E i \in DOMAIN columns : columns[i] = f
                     THEN tuple[CHOOSE i \in DOMAIN columns : columns[i] = f]
                     ELSE IF f = Id THEN number ELSE NULL]

Clashes(row, rows) == \E r \in rows, u \in Uniques : \A f \in u : r[f] = row[f] /\ r[f] # NULL

(* One row.  Where the statement has no id, the next serial number is taken.   *)
InsertOne(s, tuple) ==
    LET row == NewRow(s.columns, tuple, s.serial)
        next == IF Id \in ToSet(s.columns) THEN s.serial ELSE s.serial + 1
    IN  IF ~s.ok THEN s
        ELSE IF \E f \in NotNull : row[f] = NULL THEN [s EXCEPT !.ok = FALSE, !.serial = next]
        ELSE IF ~Clashes(row, s.table)
             THEN [s EXCEPT !.table = @ \cup {row}, !.serial = next,
                            !.ids = Append(@, row[Id])]
        ELSE [s EXCEPT !.ok = (s.act = "do_nothing"), !.serial = next]

(* All rows or none, RETURNING the ids of the rows that went in; the serial     *)
(* numbers of a refused statement are spent.                                   *)
Begun(st) == [columns |-> st.columns, act |-> st.act, ok |-> Parses(st),
              table |-> table, serial |-> serial, ids |-> <<>>]
Inserted(st) == FoldLeft(InsertOne, Begun(st), st.tuples)

-----------------------------------------------------------------------------
(* The calls of the manager.                                                   *)

Answer(status, call) == [status |-> status, call |-> call]

(* No setup, or one without values: no text, STATUS_NOT.                       *)
NothingToSend(structs) ==
    \/ structs = <<>>
    \/ haveConflict(structs)
    \/ DOMAIN values_vec(structs)[1] = {}

(* The structs agree on which of the optional fields hold something.  Flags    *)
(* alone do not tell: haveConflict does not look at the values.                *)
Agree(structs) ==
    \A k \in DOMAIN structs, f \in Optional :
        structs[k].value[f] > 0 <=> structs[1].value[f] > 0

Save(structs, act) ==
    LET s == Inserted(Statement(values_vec(structs), act))
    IN  /\ Cardinality(table) < MaxRows
        /\ read' = <<>>
        /\ serial' = IF NothingToSend(structs) THEN serial ELSE s.serial
        /\ IF NothingToSend(structs) \/ ~s.ok
           THEN /\ answer' = Answer(IF NothingToSend(structs) THEN "NOT" ELSE "HAVE_ERROR",
                                    "save")
                /\ UNCHANGED <<table, ledger, mixed>>
           ELSE /\ answer' = Answer("OK", "save")
                /\ table' = s.table
                /\ ledger' = IF Len(s.ids) # Len(structs) THEN ledger
                             ELSE ledger \cup {<<s.ids[k], structs[k]>> :
                                                   k \in DOMAIN structs}
                /\ mixed' = IF Agree(structs) THEN mixed ELSE mixed \cup (s.table \ table)
        /\ Cardinality(table') <= MaxRows /\ serial' <= MaxSerial

SaveSingleRow == \E s \in Structs : Save(<<s>>, "not_set")

SaveVectorOfRows == \E n \in 0 .. MaxSaved : \E ss \in [1 .. n -> Structs] :
    Save(ss, "not_set")

(* A row that is there already is left out, and no id is answered for it.      *)
SaveNotExistsRows == \E act \in {"do_nothing", "do_update"}, n \in 0 .. MaxSaved :
    \E ss \in [1 .. n -> Structs] : Save(ss, act)

(* What was read is saved again.                                               *)
SaveWhatWasRead ==
    /\ answer.call = "select"
    /\ Save(read, "do_nothing")

(* NULL comes as an empty string, and reads as an unset member.                *)
Member(value) == IF value = NULL THEN None ELSE value

(* Mutant: values are taken in the order of the struct, that is with the id    *)
(* last, as in its flags.                                                      *)
SetSelectDataByPosition(row) ==
    [initialized |-> {}, value |-> [f \in Names |->
        LET i == CHOOSE j \in DOMAIN Fields : Fields[j] = f
        IN  Member(row[Fields[(i % Len(Fields)) + 1]])]]

(* SetSelectData, by the names of the columns.  No flag is set.                *)
SetSelectData(row) == [initialized |-> {}, value |-> [f \in Names |-> Member(row[f])]]

SelectAllRows ==
    /\ read' = SetToSeq({SetSelectData(row) : row \in table})
    /\ answer' = Answer("OK", "select")
    /\ UNCHANGED <<table, serial, ledger, mixed>>

-----------------------------------------------------------------------------
Init ==
    /\ table = {}
    /\ serial = 1
    /\ read = <<>>
    /\ answer = Answer("OK", "save")
    /\ ledger = {}
    /\ mixed = {}

Next ==
    \/ SaveSingleRow \/ SaveVectorOfRows \/ SaveNotExistsRows
    \/ SaveWhatWasRead \/ SelectAllRows

Spec == Init /\ [][Next]_vars

-----------------------------------------------------------------------------
(* Properties.                                                                 *)

(* The table keeps its own rules - unique columns, no NULL where none may be - *)
(* and no row has got the number of a struct without one, save a row that went *)
(* in with rows of other fields: its number may be the value of another field. *)
TypeOK ==
    /\ \A r \in table : \A f \in NotNull : r[f] # NULL
    /\ \A r \in table : ~Clashes(r, table \ {r})
    /\ \A r \in table \ mixed : r[Id] > 0
    /\ mixed \subseteq table
    /\ \A k \in DOMAIN read : read[k] \in [initialized : {{}}, value : [Names -> Nat]]
    /\ serial \in 1 .. MaxSerial

(* A row whose id the caller was told stays, and holds what the struct held,   *)
(* each value in the column of its own field - where the structs of the call   *)
(* agreed on the optional fields.  Those of a call that did not may have the   *)
(* same flags and rows of the same length with other fields, whose values the  *)
(* server takes into the columns of the first (an author with an id among      *)
(* authors with books, a translation with an id among some with a book).       *)
Holds(value, s) == \A f \in s.initialized : s.value[f] > 0 => value[f] = s.value[f]
StoredAsGiven ==
    \A e \in ledger : \E r \in table : r[Id] = e[1] /\ (r \in mixed \/ Holds(r, e[2]))

(* A SELECT gives every such row back, with the values that it was saved with. *)
ReadAsGiven ==
    answer.call = "select" =>
        \A e \in ledger : \E r \in table, k \in DOMAIN read :
            /\ r[Id] = e[1] /\ read[k].value[Id] = e[1]
            /\ r \in mixed \/ Holds(read[k].value, e[2])
=============================================================================
