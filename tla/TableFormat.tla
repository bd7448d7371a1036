------------------------------ MODULE TableFormat ------------------------------
(* The format of tables: from the create setups of an application, through the *)
(* text of CREATE TABLE, to the catalog of the server, and back through        *)
(* GetTableFormat.                                                             *)
(*                                                                             *)
(* A text is the sequence of its clauses and commas.  An application changes   *)
(* from one design of its tables to another while the tables stay.  The format *)
(* is read in a build without assertions: with them GetTableFormat stops at    *)
(* its first line (db_connection_postgre.cpp:294).                             *)
EXTENDS Integers, FiniteSets, SequencesExt

CONSTANTS
    Tables,   \* tables of the application, named as in the database
    Designs   \* create setups for all of them, as the application may be built

VARIABLES
    design,    \* what the application is built with
    catalog,   \* the tables of the server
    format     \* what GetTableFormat has filled

vars == <<design, catalog, format>>

-----------------------------------------------------------------------------
(* Setups.                                                                     *)

TypeNames == [autoinc |-> "SERIAL", uuid |-> "UUID", bool |-> "BOOL",
              int |-> "INTEGER", time |-> "TIME", text |-> "TEXT",
              char_array |-> "CHAR", empty |-> ""]

Field(fname, type, flags, len) ==
    [fname |-> fname, type |-> type, len |-> len, pk |-> "is_primary_key" \in flags,
     null |-> "not_null" \notin flags, array |-> "is_array" \in flags,
     ref |-> "is_reference" \in flags]
Ref(fname, table, foreign, fkey, del, upd) ==
    [fname |-> fname, table |-> table, foreign |-> foreign, fkey |-> fkey,
     del |-> del, upd |-> upd]
Setup(fields, uniques, refs) == [fields |-> fields, uniques |-> uniques, refs |-> refs]

Names(fields) == [i \in DOMAIN fields |-> fields[i].fname]
PrimaryKey(setup) ==
    FlattenSeq([i \in DOMAIN setup.fields |->
                   IF setup.fields[i].pk THEN <<setup.fields[i].fname>> ELSE <<>>])

FieldSet == [fname : STRING, type : STRING, len : Nat,
             pk : BOOLEAN, null : BOOLEAN, array : BOOLEAN, ref : BOOLEAN]
RefSet == [fname : STRING, table : Tables, foreign : STRING, fkey : BOOLEAN,
           del : STRING, upd : STRING]
SetupSet == [fields : Seq(FieldSet), uniques : Seq(Seq(STRING)), refs : Seq(RefSet)]

(* Without a primary key the constructor throws: there is no such setup.  The  *)
(* fields of a table have different names.                                     *)
ASSUME DesignsAssumption ==
    /\ Designs \subseteq [Tables -> SetupSet]
    /\ \A d \in Designs : \A t \in Tables :
           /\ PrimaryKey(d[t]) # <<>>
           /\ \A i, j \in DOMAIN d[t].fields :
                  d[t].fields[i].fname = d[t].fields[j].fname => i = j

CheckYourself(field) ==
    /\ field.type = "char_array" => field.array /\ field.len >= 1
    /\ ~(field.array /\ field.ref)

(* Mutant: the field is looked for in the table that refers to it.             *)
ForeignMissingAtHome(t, ref) == ref.foreign \notin ToSet(Names(design[t].fields))

ForeignMissing(t, ref) == ref.foreign \notin ToSet(Names(design[ref.table].fields))

(* CheckReferences of the setup of t, against the setups of the other tables.  *)
CheckReferences(t) ==
    \A i \in DOMAIN design[t].refs :
        LET ref == design[t].refs[i]
        IN  ref.fname \in ToSet(Names(design[t].fields)) /\ ~ForeignMissing(t, ref)

-----------------------------------------------------------------------------
(* The text of CREATE TABLE.                                                   *)

Clause(kind, data) == [kind |-> kind, data |-> data]
Comma == Clause("comma", <<>>)

(* db_variable_to_string: what cannot be written leaves a name or nothing.     *)
VariableText(f) ==
    IF ~CheckYourself(f) THEN <<>>
    ELSE <<Clause(IF f.type \in DOMAIN TypeNames \ {"empty"} THEN "column" ELSE "bad", f)>>

VariableError(f) == ~CheckYourself(f) \/ f.type \notin DOMAIN TypeNames

(* db_reference_to_string: the empty text for a reference without names.       *)
ReferenceError(r) == r.fname = "" \/ r.foreign = ""

(* Mutant: the actions change places.                                          *)
ReferenceTextSwapped(r) ==
    IF ReferenceError(r) THEN <<>>
    ELSE <<Clause(IF r.fkey THEN "reference" ELSE "bad",
                  [r EXCEPT !.del = r.upd, !.upd = r.del])>>

ReferenceText(r) ==
    IF ReferenceError(r) THEN <<>>
    ELSE <<Clause(IF r.fkey THEN "reference" ELSE "bad", r)>>

(* Without a column it is cut off in the middle of the word.                   *)
UniqueText(u) == <<Clause(IF u = <<>> THEN "bad" ELSE "unique", u)>>

(* What is written for each field, each unique and each reference.             *)
Items(setup) ==
    [i \in DOMAIN setup.fields |->
        [text |-> VariableText(setup.fields[i]), error |-> VariableError(setup.fields[i])]]
    \o [i \in DOMAIN setup.uniques |->
        [text |-> UniqueText(setup.uniques[i]), error |-> FALSE]]
    \o [i \in DOMAIN setup.refs |->
        [text |-> ReferenceText(setup.refs[i]), error |-> ReferenceError(setup.refs[i])]]

(* A comma is written behind each of them, also behind what could not be       *)
(* written; the first error ends the list.                                     *)
Listed(s, item) ==
    IF s.error THEN s
    ELSE [text |-> s.text \o item.text \o <<Comma>>, error |-> item.error]

NothingListed == [text |-> <<>>, error |-> FALSE]
Lists(setup) == FoldLeft(Listed, NothingListed, Items(setup))

(* Mutant: no commas are left at the end of a text that ends early.            *)
setupCreateTableStringTrimmed(setup) ==
    IF Lists(setup).error
    THEN SubSeq(Lists(setup).text, 1,
                SelectLastInSeq(Lists(setup).text, LAMBDA c : c.kind # "comma"))
    ELSE Append(Lists(setup).text, Clause("key", PrimaryKey(setup)))

setupCreateTableString(setup) ==
    IF Lists(setup).error THEN Lists(setup).text
    ELSE Append(Lists(setup).text, Clause("key", PrimaryKey(setup)))

-----------------------------------------------------------------------------
(* The server.                                                                 *)

Absent == [columns |-> <<>>, key |-> <<>>, uniques |-> {}, refs |-> {}]
Exists(t) == catalog[t] # Absent

Parses(text) ==
    /\ Len(text) % 2 = 1
    /\ \A i \in DOMAIN text : (text[i].kind = "comma") = (i % 2 = 0)
    /\ \A i \in DOMAIN text : text[i].kind # "bad"

Data(text, kind) ==
    FlattenSeq([i \in DOMAIN text |-> IF text[i].kind = kind THEN <<text[i].data>> ELSE <<>>])

(* A key makes its columns NOT NULL; a missing action is "no action".          *)
TableOf(text) ==
    LET key == IF Data(text, "key") = <<>> THEN <<>> ELSE Data(text, "key")[1]
        fields == Data(text, "column")
    IN  [columns |-> [i \in DOMAIN fields |->
                         [name |-> fields[i].fname, type |-> fields[i].type,
                          null |-> fields[i].null /\ fields[i].fname \notin ToSet(key)]],
         key |-> key,
         uniques |-> ToSet(Data(text, "unique")),
         refs |-> {[col |-> r.fname, table |-> r.table, foreign |-> r.foreign,
                    del |-> r.del, upd |-> r.upd] : r \in ToSet(Data(text, "reference"))}]

ColumnNames(table) == {table.columns[i].name : i \in DOMAIN table.columns}

Accepts(t, text) ==
    LET new == TableOf(text)
        At(u) == IF u = t THEN new ELSE catalog[u]
    IN  /\ ~Exists(t)
        /\ Parses(text)
        /\ \A u \in new.uniques : ToSet(u) \subseteq ColumnNames(new)
        /\ \A r \in new.refs :
               /\ r.col \in ColumnNames(new)
               /\ \/ At(r.table).key = <<r.foreign>>
                  \/ <<r.foreign>> \in At(r.table).uniques

-----------------------------------------------------------------------------
(* Calls.                                                                      *)

NoFormat == [table |-> "", pk |-> <<>>, refs |-> {}]
Forget == format' = NoFormat

(* CreateTable: a text that the server refuses leaves everything as it was.    *)
CreateTable(t) ==
    /\ catalog' = LET text == setupCreateTableString(design[t])
                  IN  IF Accepts(t, text)
                      THEN [catalog EXCEPT ![t] = TableOf(text)] ELSE catalog
    /\ Forget
    /\ UNCHANGED design

(* DropTable.  SET NULL is no option of DROP; CASCADE drops the references to  *)
(* the table too, without it they keep the table.                              *)
DropTable(t, act) ==
    LET referring == {u \in Tables \ {t} : \E r \in catalog[u].refs : r.table = t}
        Others(u) == {r \in catalog[u].refs : r.table # t}
    IN  /\ catalog' = IF act = "set_null" \/ (referring # {} /\ act # "cascade")
                      THEN catalog
                      ELSE [u \in Tables |->
                               IF u = t THEN Absent
                                        ELSE [catalog[u] EXCEPT !.refs = Others(u)]]
        /\ Forget
        /\ UNCHANGED design

(* Another version of the application starts on the same database.             *)
NewVersion ==
    /\ design' \in Designs
    /\ Forget
    /\ UNCHANGED catalog

(* Mutant: a column that the application does not know is left out.           *)
FieldsReadIfKnown(t) ==
    SelectSeq([i \in DOMAIN catalog[t].columns |-> catalog[t].columns[i].name],
              LAMBDA c : c \in ToSet(Names(design[t].fields)))

(* The names of the fields that are made of the columns.  A column that the    *)
(* application does not know keeps a place, also when another version of it    *)
(* created the table.  (The names point into a vector of the call, so that     *)
(* none of them can be used after its return.)                                 *)
FieldsRead(t) == [i \in DOMAIN catalog[t].columns |-> catalog[t].columns[i].name]

(* conkey: the numbers of the columns, from 1 on.                              *)
Numbers(t, names) ==
    [i \in DOMAIN names |->
        CHOOSE n \in DOMAIN catalog[t].columns : catalog[t].columns[n].name = names[i]]

(* The library counts from 0.                                                  *)
StringToIntNumbers(numbers) == [i \in DOMAIN numbers |-> numbers[i] - 1]

(* A number behind the last field is left out.                                 *)
setConstrainVector(fields, indexes) ==
    FlattenSeq([i \in DOMAIN indexes |->
                   IF indexes[i] + 1 \in DOMAIN fields
                   THEN <<fields[indexes[i] + 1]>> ELSE <<>>])

Constrained(t, names) ==
    setConstrainVector(FieldsRead(t), StringToIntNumbers(Numbers(t, names)))

(* What fk_map may hold: one foreign key for each column, the first that came. *)
FirstKeys(t) == {first \in [{r.col : r \in catalog[t].refs} -> catalog[t].refs] :
                     \A c \in DOMAIN first : Constrained(t, <<first[c].col>>) = <<c>>}

(* The constructor of db_reference takes delete before update and is given     *)
(* update before delete.                                                       *)
ReferenceRead(r, first) ==
    [fname |-> r.col, table |-> r.table, foreign |-> r.foreign,
     del |-> first[r.col].upd, upd |-> first[r.col].del]

(* No unique is left: they are cleared behind each one that is put there.  A   *)
(* foreign key that fk_map does not have is an error.                        *)
GetTableFormat(t) ==
    /\ \/ \E first \in FirstKeys(t) :
              format' = [table |-> t, pk |-> Constrained(t, catalog[t].key),
                         refs |-> {ReferenceRead(r, first) : r \in catalog[t].refs}]
       \/ FirstKeys(t) = {} /\ format' = NoFormat
    /\ UNCHANGED <<design, catalog>>

-----------------------------------------------------------------------------
Init ==
    /\ design \in Designs
    /\ catalog = [t \in Tables |-> Absent]
    /\ format = NoFormat

Next ==
    \/ \E t \in Tables : CreateTable(t) \/ GetTableFormat(t)
    \/ \E t \in Tables, act \in {"not", "set_null", "cascade", "restrict"} : DropTable(t, act)
    \/ NewVersion

Spec == Init /\ [][Next]_vars

-----------------------------------------------------------------------------
(* Properties.                                                                 *)

(* Every table has a key, which is made of its columns, and a reference leads  *)
(* to a column of a table that is there, also after drops.                     *)
TypeOK ==
    /\ design \in Designs
    /\ \A t \in Tables : Exists(t) => catalog[t].key # <<>>
    /\ \A t \in Tables : ToSet(catalog[t].key) \subseteq ColumnNames(catalog[t])
    /\ \A t \in Tables : \A r \in catalog[t].refs :
           r.foreign \in ColumnNames(catalog[r.table])

(* What a setup asks of its table.                                             *)
Asked(setup, table) ==
    /\ {<<f.fname, f.type>> : f \in ToSet(setup.fields)}
           = {<<c.name, c.type>> : c \in ToSet(table.columns)}
    /\ \A f \in ToSet(setup.fields), c \in ToSet(table.columns) :
           f.fname = c.name => c.null = (f.null /\ ~f.pk)
    /\ table.key = PrimaryKey(setup)
    /\ table.uniques = ToSet(setup.uniques)
    /\ {<<r.fname, r.table, r.foreign, r.del, r.upd>> : r \in ToSet(setup.refs)}
           = {<<r.col, r.table, r.foreign, r.del, r.upd>> : r \in table.refs}

(* A table is created as its setup asks, with every constraint, or not at all: *)
(* an error in the middle of the text leaves a text that no server takes.      *)
WholeOrNotAtAll ==
    [][\A t \in Tables : ~Exists(t) /\ Exists(t)' => Asked(design[t], catalog'[t])]_vars

(* CheckReferences refuses nothing that the server takes, when all tables are  *)
(* of the same version of the application.                                     *)
OfThisVersion(tables) == \A t \in Tables : Exists(t) => Asked(design[t], tables[t])
RefusedIsNotCreated ==
    [][\A t \in Tables :
           ~Exists(t) /\ Exists(t)' /\ OfThisVersion(catalog) => CheckReferences(t)]_vars

(* The key and the ends of every reference come back from the server.          *)
KeysComeBack ==
    LET table == catalog[format.table]
    IN  format.table # "" =>
            /\ format.pk = table.key
            /\ {<<r.fname, r.table, r.foreign>> : r \in format.refs}
                   = {<<r.col, r.table, r.foreign>> : r \in table.refs}
=============================================================================
