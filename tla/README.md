# A specification of asp_db

asp_db is a C++ library between an application and a database: it turns
operations on tables (create, insert, select, delete) into SQL, runs them over a
connection to PostgreSQL, and reports a status. This directory holds TLA+
specifications of it, configurations for TLC, and proofs for TLAPS.

All paths below are relative to the root of the repository (`src/` here).

## 1. The system

| Part | Code | State | Operations |
|---|---|---|---|
| Transaction | `source/db_connection_manager.cpp:44-70` | `status_`, list of queries | `AddQuery`, `ExecuteQueries` with its rollback loop |
| Queries | `source/db_query.cpp`, `include/asp_db/db_query.h` | `status_`, `is_performed_` | `Execute`, `unExecute` of setup, save point, close, exists, create, insert, select, delete |
| Postgres connection | `source/db_connection_postgre.cpp`, its header | `status_`, `error_`, `is_connected_`, the pair of pqxx objects | `SetupConnection`, `CloseConnection`, `AddSavePoint`, `RollbackToSavePoint`, the statements, the destructor |
| Connection base | `source/db_connection.cpp`, its header | parameters, dry run | copy, `IsOpen`, setup strings |
| Manager | `source/db_connection_manager.cpp:105-283`, its header | `parameters_`, `status_`, `error_`, `db_connection_`, `connect_init_lock_` | `CheckConnection`, `ResetConnectionParameters`, `IsTableExists`, `CreateTable`, `Save*`, `SelectRows`, `DeleteRows`, all through `exec_wrap` |
| Creator | `source/db_connection_manager.cpp:295-336` | none | makes and clones connections |
| Expression tree | `source/db_expression.cpp`, its header | nodes, operators, parent links | `AddCondition`, `node_and`, `node_or`, `GetString` |
| Where tree | `include/asp_db/db_where.h` | a clause, a table | `Init`, `AddAnd`, `AddOr`, the constructor's comparisons |
| Setups | `source/db_queries_setup*.cpp`, headers | fields, values, uniques, references | `Compare`, `CheckReferences`, `IndexByFieldId`, insert/select/update/delete setups |
| Definitions | `source/db_defines.cpp`, its header | none | packing of vectors, dates, comparison of fields and references |
| Table interface | `include/asp_db/db_tables.h`, `db_append_functor.h` | implemented by the application | names, fields, setups by code |
| Firebird connection | `source/db_connection_firebird.cpp`, its header | as the postgres one | the same; Windows only and unfinished |
| asp_utils, libpqxx, PostgreSQL | not in the repository | | used as the code above uses them |

How they interact. A caller's thread calls the manager. `exec_wrap` checks the
connection if the status is still the default one, clones `db_connection_`,
builds a `Transaction` of queries over the clone - setup, perhaps a save point,
the query of the operation, close - and executes it under the shared lock. Each
query calls one method of the clone, which sends at most one statement. When a
query answers anything but `STATUS_OK`, the transaction walks back over the
queries before it and calls `unExecute`. The clone is destroyed at the end of the
call; its destructor closes the connection once more if it is still open, and
closing sends `commit;`.

What is hard in it:

* four different places close a connection and so commit: the close query, the
  rollback of the setup query, `CheckConnection`, the destructor;
* an exception between two queries jumps over the rollback loop and leaves the
  block to the destructor;
* statements fail, connections get lost at any statement, the answer to a commit
  gets lost;
* the destructor is `noexcept`: a close that throws in it ends the process;
* the manager's fields are read and written outside its lock, and the lock is
  taken only after the check it should protect;
* an error of the manager is sticky: only new parameters clear it, and these do
  not drop the old connection object.

What makes each part correct:

* Transaction and connection: all rows of a call or none, and the report says
  which; no row becomes visible through a commit that ends a failed transaction;
  no write outside a block with a save point; no session outlives its call; every
  call ends; a dry run touches no server.
* Manager: an operation runs only over the connection that was probed last, and
  successfully; an answer of a check and the state of the manager agree; only a reset recovers; no clone of a destroyed
  object; no thread waits for ever; a connection is not replaced under a
  transaction.
* Expression and where trees: the text has the meaning of the tree; adding a
  condition never widens a condition; a tree has no node twice.
* Setups and definitions: unpacking gives what was packed; each value of an INSERT
  goes to its own column and comes back from it; a condition asks for the value that
  an INSERT has written; no half of a table is created; what is read of a table names
  its columns.

`PROJECT.json` lists all parts with their state of modelling, and under `hazards`
the places where this code is hard to test.

## 2. The modules

| Module | What it is |
|---|---|
| `PgServer` | PostgreSQL and libpqxx as the code uses them (external) |
| `QueryTransaction` | one call of the manager: the transaction over its clone |
| `AtomicCalls` | what such a call promises (abstract) |
| `QueryTransactionInv` | the inductive invariant of `QueryTransaction` |
| `QueryTransactionInv_proofs` | proofs: types, the invariant, what follows from it; `AtomicCalls` is implemented |
| `ConnectionManager` | the manager shared by threads |
| `ConnectionManager_proofs` | its proofs |
| `WhereTree` | conditions on a heap, trees, the WHERE text and what it means |
| `WhereTree_proofs` | its proofs |
| `TableRows` | a row: structs, INSERT by position, SELECT by name |
| `TableRows_proofs` | its proofs |
| `FieldText` | a value: how it is written into an INSERT and into a condition |
| `PackedVector` | a vector of strings packed into the value of one field |
| `FieldValues_proofs` | proofs about `FieldText` and `PackedVector` |
| `SequenceInduction` | lemmas: induction on sequences, concatenation, loops over a sequence, folds for any operator (`INSTANCE ... WITH Op <- ...`) |
| `TableFormat` | table setups, `CheckReferences`, CREATE TABLE, the catalog, `GetTableFormat` |
| `TableFormat_proofs` | its proofs |
| `FirebirdConnection` | the life of a connection of the Firebird client |
| `FirebirdConnection_proofs` | its proofs |
| `MC...` | instances for TLC, one module for each of the above |

### PgServer

For every client a session: none, idle, in a block, in a failed block, or broken.
`pending` holds the rows that the open block has written, `mark` the rows that
were pending at the SAVEPOINT, `table` what is committed. A row is named after the
call and the query that writes it, so that two rows are never confused. Every
statement is answered by `ok`, `sql_error` or `lost`. A failed block answers
`commit;` with a rollback and no error, which is what the code relies on without
saying so. A broken connection may be reactivated by the next statement, as
libpqxx 6 does for `connection`; the block and its save point are gone then.
`unacked` is a history variable: rows whose commit was applied while the answer
was lost.

### QueryTransaction

One step is one query of the transaction, or one step of the rollback loop, or
`CheckConnection`'s tail, or the destructor. `at` is the iterator, `performed` the
set of the queries with `is_performed_`, `trStatus` is `Transaction::status_`,
`result` what `tryExecuteTransaction` returned. `status`, `error`, `connected` and
`link` are the clone's. `link` says which of the two pqxx objects exist. `alive`
turns FALSE when the destructor throws.

The transactions are a constant, `Plan`. `ManagerPlan` lists those that the
manager assembles; `WellFormed` is what the proofs assume of a plan, and it is
what `exec_wrap` (header, lines 432-442) guarantees when operations that write
pass a save point. `Throws` says which exceptions the client's own code can raise:
`build` while a statement is put together (a date of the wrong form), `convert`
while a result is read (`row[0].as<int>()`).

Left out: the texts of statements, logging, what a SELECT returns.

### AtomicCalls

Invoke, Commit, Return, Die. A call commits all its rows at once, at most once,
and returns `OK` only if it did; it returns anything else only if it did not, or
if the acknowledgement was lost. `QueryTransaction` implements it under the
mapping `busy`, `target` (the rows of the current call), the rest by name.

### ConnectionManager

Threads, each with a program counter inside `CheckConnection` or `exec_wrap`. A
step is one condition or one group of assignments; everything between two steps
may be interleaved. `connection` is a numbered object, so that a replaced one can
be told from its successor; `pointer` is the raw pointer that a thread took;
`Dangling` says that the object behind it is gone, and then any parameters may be
copied. `writer` and `readers` are `connect_init_lock_`. A transaction is one step
with the outcomes that `QueryTransaction` can give it. Behind the transaction of a
check, `CloseProbe` is the close at `db_connection_manager.cpp:121-122`: it stands
outside any try, and throws out of `CheckConnection` whenever the connection was left
open and is lost, be it after an exception or after a begin that failed over the lost
connection and was answered by its status alone (`db_connection_postgre.cpp:212-236`).
`probed` is a history variable: the object whose clone was the last to be probed with
success, none after a reset; no action reads it. `Params`, `Backed` and
`Reachable` are the parameters, those with a client in this build, and those
whose server accepts connections.

Concurrent access to these fields is a data race in C++. The model gives the
outcomes of interleaved accesses of whole fields; torn values are not modelled.

### WhereTree

Nodes on a heap: `type`, `text`, two children that a node owns, and the parent as a
raw pointer, as in `expression_node`. A number only tells a node from others; one call
makes all its nodes in one step, and they are numbered children first. `held` are the
`node_ptr`s of the caller, `clause` the clause of each `WhereTree`; a node lives as
long as one of them reaches it (`Alive`). Each handle and clause carries, next to its
root, what the caller means by it: the set of rows that it takes, where a row is known
by the atomic conditions it meets. `Text` is `GetString` with its parentheses
(`Braced`); `Reading` is the server: OR binds weakest, then AND, and the AND of a
BETWEEN is not one. A text is made of `Names` and of the `Marks` of this grammar;
`ConditionsAssumption` says that no name is a mark, that a comparison is three names,
and that a range has the form `f BETWEEN a AND b`. `AddCondition` sets the parents of
both operands whatever they were, returns the other one when one is null, and makes an
operator without operands of two nulls; `Joined` is the node it returns. A `Callers`
record says which trees a program has, what it asks, and how it keeps its conditions:
as temporaries of nested calls, in variables that live on, or some this way and some
that (`mixed`). A call takes its operands as `Passed` says: those that a variable keeps,
and the root of a clause that is merged into another, are `lent` from then on. Of a
lent operator the parent may be gone (`Dangling`); `GetString` then reads freed memory,
and the model lets it come out with parentheses, without, or with an exception.
`AddAnd` and `AddOr` of a tree without a clause (`NoRoot`) change nothing but what the
caller means by it. `sent` is the last statement: its rows, whether it had an
initialised tree, and `act2all`. The comparison `Like` is not modelled: the overload for
strings calls itself for ever (`db_where.h:184-188`).

### TableRows

A struct has a set of initialised fields and values; an unset member reads as 0.
`setInsertValues` are the three functions of the library example
(`examples/library/library_tables.cpp:211-288`), which leave an optional number out
when it is not positive. The statement names the columns of the first row, and
gives the values of each row by position. `InsertOne` is the server: serial
numbers, NOT NULL, uniques, ON CONFLICT; a refused statement spends its numbers.
`Inserted` folds it over the rows of a statement, all or none; a row that
`DO NOTHING` leaves out gets no id. The server's check of types is left out: it could
only refuse some of what the model stores. `FieldsAssumption` makes the key one of the
unique columns and of the optional fields; `ValuesAssumption` says that values are
numbers, of which none stands for NULL.

Two history variables. `ledger` holds what was saved under which id that the caller
was told; when fewer ids come back than structs were given, nobody can tell which is
whose and nothing is entered. `mixed` holds the rows of calls whose structs do not
`Agree` on the optional fields that hold something: such structs may have the same
flags and give rows of the same length with different columns, and the server then
takes the values of one column into another. Types and properties make an exception of
these rows and of nothing else; that the code lets them through is among the
departures of section 3.

### FieldText

The value of a field is a sequence of elements, one unless the field is an array; an
element is a number that tells it from others, whether its text holds an apostrophe,
and its length: none, short, or too long for a date. A literal is an element and its
form: bare, quoted as it is, escaped by libpqxx, or none because an exception was
thrown. `getVariableValue` writes the values of an INSERT: `DateToPostgreDate` throws
for a date of more than 16 characters, and the unpacking of an array throws for an
empty element. `DataFieldToStr` writes those of a condition, between quotes and without
escaping. `Readable`, `Accepts` and `Outcomes` are the server: it refuses `ARRAY[]`,
which has no type, and an array of quoted dates or times, which is one of texts; and a
condition whose text holds an apostrophe is refused or is some other condition, taking
any rows at all. `Asked` gives what an application can compare with: a value, or a
clock reading that `field2str` turns into text. `ForEach` is the loop over the fields
of a row. `CanBeWritten` names the values of which an INSERT can be made.
`ValuesAssumption` says that a field that is no array has one element, and that only
texts have apostrophes or are empty. A date of exactly 16 characters is no value of
the model.

### PackedVector

The one module where texts are characters, because a length, a blank and an
element of digits look the same. A step is one round of the loop of
`TranslateToVector`, so that whether it ends is a question of liveness. `isArray` tells
an array of the table from another field: `author.books`, the one packed vector of the
examples, is none; its packed text is stored as it is and cut at commas when it is read.
`ArrayText` is the server's text of an array: it quotes empty elements, NULL, and those
with blanks, commas, braces, quotes or backslashes, and escapes the latter two;
`string2Container` undoes none of it. A vector without elements, or one that could not
be unpacked, is written `ARRAY[]` and refused. Lengths are
written by `Decimal` (`std::to_string`) and read by `Number` (`atoi`), with any number
of digits. `TextsAssumption` says that elements and raw texts are sequences of
characters and nothing more; `RawTextsAssumption` keeps signs, tabs and line ends
out of the raw texts, where `atoi` would do what `Number` does not. A length beyond
an `int` is not modelled.

### TableFormat

The text of CREATE TABLE is a sequence of clauses and commas, so that an error in
the middle leaves a text that can be judged (`Parses`). `Items` are what is
written for each field, unique and reference; `Lists` folds `Listed` over them up
to the first error. `DesignsAssumption` says that a setup has a primary key,
without which its constructor throws, and that the fields of a table have
different names. `CheckYourself` has all its checks: arrays of characters need a
length, and an array is no reference. `catalog` is what the server has: columns, key,
uniques, references. `design` is what the application is built with; `NewVersion`
changes it while the tables stay. `GetTableFormat` reads the catalog back as the code
does in a build without assertions: with them it stops at its first line. `FieldsRead`
are the names of the fields that are made of the columns; a column which the
application does not know keeps its place among them, so that the numbers of `conkey`
still lead to the right ones. `FirstKeys` are the foreign keys of `fk_map`, one for
each column. `Compare` and `IsSame`, which would compare the format with a setup, are
not modelled (section 5).

### FirebirdConnection

Each interface of the client is a pointer that is null, live, or released and
still held. `InitConnection` may fail after each of them. A call through a pointer
that is not live is undefined behaviour and ends the history with a `fault`; so
does an exception in the destructor. `careful` is a caller that stops at the first
status but `STATUS_OK`, as `ExecuteQueries` does; the other caller goes on.

## 3. What TLC checks

| Run | Instance | Shows |
|---|---|---|
| `operations` | 2 clients, 1 call each, 6 transactions, dry and real, failing builds | `TypeOK`, `IInv`, `ReportIsTruthful`, `NoSessionOutlivesItsCall`, `DiesOnlyOfLostConnection`, `DryRunStaysLocal`, `CommitOnlyAfterSuccess`, `WritesAreGuarded`, `ImplementsAtomicCalls`, `EveryCallEnds` |
| `threads` | 2 threads, 3 calls, a new manager, 3 kinds of parameters | `TypeOK`, `OnlyProbedConnections`, `CheckAnswerIsKept`, `OnlyResetRecovers`, `NoReplacementUnderTransaction`, `EveryCallReturns` |
| `where` | 4 callers, 2 trees, 2 comparisons (one on an unknown field), a range, a raw text, 2 joins, 2 conditions held | `TypeOK`, `TextMeansTree`, `NoDanglingParent`, `InitialisedIsNeverWhole` |
| `firebird_life` | 1 connection, 4 statements | `TypeOK`, `DryRunStaysLocal`, `NothingThroughTransaction`, `OnlyInTransaction` |
| `rows_of_authors` | 4 fields (2 optional), 2 rows, vectors of 2, serial numbers up to 4 | `TypeOK`, `StoredAsGiven`, `ReadAsGiven` |
| `packed` | vectors of up to 3 of 9 elements, all texts of up to 4 of 4 characters, as a field that is an array and as one that is none | `TypeOK`, `PackedComesBack`, `ColumnComesBack`, `EveryTextEnds` |
| `format_create` | 2 tables, 72 designs | `TypeOK`, `KeysComeBack`, `WholeOrNotAtAll`, `RefusedIsNotCreated` |
| `field_text` | 6 fields (a number, a text, an array of texts, a date, a time, an array of times), rows of up to 2 of them, 2 rows | `EveryRowIsTaken`, `WhatIsStoredIsFound` |
| `insert_contract` | 1 client, ids that do not convert | `AddedMeansOk` fails |
| `first_use` | 2 threads, 2 calls, new manager | `NoDanglingClone` fails |
| `stale_parameters` | 1 thread, two resets | `ParametersInForce` fails |
| `where_whole` | 1 tree, 2 comparisons | `AddedConditionsHold` fails |

The bounds, by run.

* `operations`. Clients meet only in the table, and rows carry their client's name:
  two clients show all there is to see of interference. A clone does not live
  longer than its call, and nothing of a call is left when it returns
  (`NoSessionOutlivesItsCall`), so that one call per client covers the
  transaction. No transaction of the manager has more than four queries; `batch`
  has five: a query that may fail after the insert has been accepted. The
  `Transaction` class allows it and no operation of the manager builds it.
* `threads`. A dangling pointer, a waiting thread and a writer need two threads,
  and each hazard at most three calls in total. What holds only of a thread that
  has the manager to itself says so (`Alone`): a check that another thread's reset
  interrupts may answer anything.
* `where`. Three conditions and two joins give every shape in which AND meets OR
  and BETWEEN. Every condition is made once (`FirstTime`), there is one null at a
  time (`NoNullYet`) and one operator without operands (`NoEmptyYet`). One of four
  callers is chosen in `Init`: two nest their calls over one tree, one of them with an
  unknown field; one keeps everything in variables and uses it for two trees, as
  `tests/test_queries.cpp:50-62` does; one keeps some conditions and ends its variables
  when it pleases, so that parents go while their children are in use. The raw text
  has no operator: a raw OR below an AND would break `TextMeansTree` (see the
  departures).
* `firebird_life`. After four statements nothing new can happen: the state has no
  other counter.
* `rows_of_authors`. The authors have two fields that may be left out of a row, id and
  books, so that values shift here if they shift anywhere; the books have one, the
  translations two. A shift shows with two rows and two columns, and the second row is
  one that may clash with the first; four serial numbers leave room for refused
  statements.
* `packed`. The elements are chosen to look like lengths and blanks, one has a
  length of two digits, one none, and two need quotes in the server's array text; the
  raw texts are all that fit. `EveryTextEnds` asks only that the loop ends: that an
  empty element is refused by an exception is no violation of it, nor of
  `PackedComesBack`, which says so; it is listed below.
* `format_create`. Nine setups for one table and eight for the other, good and bad,
  with references to a key, to a unique column, to neither, to the table itself
  and twice from the same column; every pair is a design.
* `field_text`. Rows have up to two fields: what an INSERT makes of one does not depend
  on the others but for the order. Conditions are about one field. Texts are with and
  without an apostrophe and empty; arrays have no element, one of them empty, or an
  apostrophe in one; one date is too long.

Every property of a passing run is paired with a mutant of the code
(`PROJECT.json`, `mutants`) under which TLC finds it violated. The mutants stand
in the modules next to what they change, marked as such.

`CHECK_DEADLOCK FALSE` is set where the system really stops: calls are bounded and
a process may die (`operations`, `threads` and their violations), a connection is
destroyed (`firebird_life`), a text has gone its way (`packed`).

### The four that fail

* `AddedMeansOk`. `db_connection.h:150`: STATUS_OK if the rows have been added.
  An INSERT succeeds, a returned id does not convert, the exception passes the
  rollback loop, the call reports an error, the destructor commits the row.
* `NoDanglingClone` for first calls that meet. Both threads find no connection
  (`db_connection_manager.cpp:107`), both make one; the second destroys the first
  one's while that is being cloned. The header (346-347) says that clones are
  there for parallel queries. A theorem shows the other side: a manager connected
  before it is shared is safe.
* `ParametersInForce`. `ResetConnectionParameters` with other parameters keeps the
  old connection object, probes it, and reports its status; the header (311) calls
  `parameters_` the parameters of the current connection.
* `AddedConditionsHold`. `AddAnd` and `AddOr` "grow the tree by another subtree"
  (`db_where.h:369, 386`); on a tree that `Init` has not seen they return without a word
  (372, 389). The condition is lost, the DELETE made of that tree has no WHERE and takes
  every row. `db_queries_setup_select.h:30-31` promises an exception for an invalid
  state of the tree; there is one for a missing set of tables only. The flag `act2all`,
  which is set where the whole table is meant (85-87), is asked by nobody and stops
  nothing.

### Where else the code departs from its documents

Met while modelling; the models do what the code does, and the properties above
are stated so that they hold of it. No run is spent on these.

* One condition used in two clauses keeps the parent of the later one
  (`db_expression.h:294`) when that is gone. `NoDanglingParent` says how far this goes:
  parents are gone only of operators that a call has taken while a variable or another
  clause kept them, and not while the caller keeps every condition in a variable, as
  `tests/test_queries.cpp:50-62` does with one condition in three clauses. The caller
  `Mixing` of the run does meet gone parents; `TextMeansTree` says nothing of the text
  of such a tree.
* Raw text is never put into parentheses (`db_expression.cpp:173`), so that a raw OR
  below an AND means something else than the tree (`db_where.h:208`).
* `Like` of a string calls itself (`db_where.h:184-188`).
* Two conditions on unknown fields joined give an operator without operands and the
  text `()`, although "an operator cannot be a terminal node"
  (`db_expression.h:119-120`); the server refuses it.
* The columns of an INSERT are those of its first row (`db_connection_postgre.cpp:656`).
  Only the flags of the structs are compared (`db_queries_setup.h:179-181`), not the
  columns made of them: translations with one id and one book id each
  (`library_tables.cpp:247-251`) exchange the two, and so do authors, one with an id
  and one with books (267-278): in two of the three tables of the example a call may
  store the value of one field in the column of another. `TableRows` does it, and
  `mixed` marks these rows. The books have one optional number only, and the server
  refuses rows of different length.
* What was read has no flags (`library_tables.cpp:291-296`): saved again, it is an
  empty row, though the function is called the reverse of `setValues`.
* `do_update` writes `ON CONFLICT DO UPDATE` without a target and without SET
  (`db_connection_postgre.cpp:899`), which no server takes
  (`db_queries_setup.h:174-175`: "update the data").
* An array without elements is written as `ARRAY[]`, which has no type for the server
  (`db_connection_postgre.cpp:852-872`): its INSERT is refused.
* An empty element is packed as `0 ` and refused by the unpacking
  (`db_defines.h:239-244, 258-261`): the exception (280-284) leaves the INSERT of an
  array that has one (`db_connection_postgre.cpp:860`).
* The elements of an array of dates or times are quoted one by one, `ARRAY['...']`,
  which is an array of texts; its INSERT is refused (852-886).
* `DateToPostgreDate` throws for a date of more than 16 characters, as it says, and of
  exactly 16 leaves a text without an end (`db_connection_postgre.cpp:943-956`).
* The books of an author are packed with lengths and read back by splitting at
  commas (`library_tables.cpp:274-278, 364`); they are no array of the table, and what
  is read is not the vector that was saved. `ColumnComesBack` is about arrays only.
* The actions of a reference come back from the catalog exchanged
  (`db_connection_postgre.cpp:464`), and the uniques are cleared before they are used
  (380), though the format is there to be compared (`db_queries_setup.h:62-66`).
* `Compare` and `IsSame` compare the lengths of two vectors only: what the loop over the
  elements finds is thrown away (`db_queries_setup.h:121`), and the answer about the
  references is stored under the key of the uniques, where it is dropped
  (`db_queries_setup.cpp:132-134`). For fields that `GetTableFormat` has read the loop
  follows names that point into its local vector (`db_connection_postgre.cpp:316`,
  `db_defines.cpp:103`).
* `DateToString` prints hour, minute and second (`db_defines.cpp:97`;
  `db_defines.h:229-236`: `yyyy-mm-dd`).
* Conditions are written without the transaction: `where_string_set` is made and
  never called (`db_connection_postgre.cpp:69-88, 700`). A date, a time or a text with
  an apostrophe can be inserted and not be asked for: `DataFieldToStr` does not escape
  (`db_expression.cpp:18-23`), so that a condition on a text with an apostrophe is
  refused or is another condition. `WhatIsStoredIsFound` excludes these texts.
* A UUID is written without quotes (`db_connection_postgre.cpp:886`), and its INSERT
  is refused (`db_defines.h:140`).
* The INSERT that a dry run shows lacks its texts (`db_connection_postgre.cpp:880`;
  `db_connection.h:67-70`).
* The Firebird client releases its interfaces at the close and again in the
  destructors (`db_connection_firebird.cpp:108-110, 542-544, 587`); closing a dry run
  commits through a pointer that was never made (157, 625-629).

### Fairness

`QueryTransaction`: weak fairness of each client's steps inside a call while the
process lives - a running thread goes on, and no step waits for another client.
No fairness for starting a call. Statements are assumed to return: libpqxx blocks
until an answer or an error, and a server that never answers is not modelled.

`ConnectionManager`: weak fairness of each thread's steps inside a call. A thread
that waits for the lock goes on once the lock stays free; calls are bounded, so it
does stay free in the end. Nothing is claimed of starvation under endless calls.

`PackedVector`: weak fairness of the next step. It is one thread in one loop.

The other modules claim no liveness: their calls are single steps.

## 4. What is proved

With TLAPS, for all values of the constants that satisfy the `ASSUME`s of the
modules: any number of clients, threads and calls, any well-formed transactions.

| Theorem | Statement |
|---|---|
| `TypeCorrect` | `SafeSpec => []TypeOK` |
| `Inductive` | `SafeThrows => (SafeSpec => []IInv)` |
| `Truthful` | `SafeThrows => (SafeSpec => []ReportIsTruthful)` |
| `OnlySuccessCommits` | `SafeThrows => (SafeSpec => CommitOnlyAfterSuccess)` |
| `NoSessionLeft` | `SafeSpec => []NoSessionOutlivesItsCall` |
| `CallsAreAtomic` | `SafeThrows => (SafeSpec => ImplementsAtomicCalls)` |
| `DeathNeedsLoss` | `SafeThrows => (SafeSpec => []DiesOnlyOfLostConnection)` |
| `DryIsLocal` | `SafeSpec => []DryRunStaysLocal` |
| `GuardedWrites` | `SafeSpec => WritesAreGuarded` |
| `ManagerTypes` | `SafeSpec => []TypeOK` (of `ConnectionManager`) |
| `NoReplacement` | `SafeSpec => NoReplacementUnderTransaction` |
| `ProbedFirst` | `SafeSpec => []OnlyProbedConnections` |
| `AnswerKept` | `SafeSpec => []CheckAnswerIsKept` |
| `ResetRecovers` | `SafeSpec => OnlyResetRecovers` |
| `SafeOnceConnected` | `Connected => (SafeSpec => []NoDanglingClone)` |
| `FirebirdTypes` | `Spec => []TypeOK` (of `FirebirdConnection`) |
| `DryRunIsLocal` | `Spec => []DryRunStaysLocal` (of `FirebirdConnection`) |
| `TransactionExecutesNothing` | `Spec => []NothingThroughTransaction` |
| `ExecutedInTransaction` | `Spec => OnlyInTransaction` |
| `RowsAreTaken` | `TextSpec => []EveryRowIsTaken` (of `FieldText`) |
| `StoredIsFound` | `TextSpec => []WhatIsStoredIsFound` |
| `TableKeepsRules` | `Spec => []TypeOK` (of `TableRows`) |
| `StoredAsItWasGiven` | `Spec => []StoredAsGiven` |
| `ReadAsItWasGiven` | `Spec => []ReadAsGiven` |
| `TypeCorrect` (of `WhereTree_proofs`) | `Spec => []TypeOK` (of `WhereTree`) |
| `NeverWhole` | `Spec => []InitialisedIsNeverWhole` |
| `TextIsMeant` | `RawIsOneCondition => (Spec => []TextMeansTree)` |
| `ParentsLive` | `Spec => []NoDanglingParent` |
| `TablesHold` | `Spec => []TypeOK` (of `TableFormat`) |
| `CreatedIsWhole` | `Spec => WholeOrNotAtAll` |
| `CreatedIsNotRefused` | `Spec => RefusedIsNotCreated` |
| `KeysAreRead` | `Spec => []KeysComeBack` |
| `ReadsWithinText` | `Spec => []TypeOK` (of `PackedVector`) |
| `ComesBack` | `Spec => []PackedComesBack` |
| `ColumnIsRead` | `Spec => []ColumnComesBack` |

`SafeThrows` says which exceptions of the client's own code are harmless: results
convert, and no statement that may fail to build follows a write. It holds of
`ManagerPlan` with `Throws = {"build"}`. Without it the theorems are false;
`insert_contract` is the counterexample.

`RawIsOneCondition` says that the raw texts are words without AND, OR, BETWEEN or
parentheses. `GetString` never brackets a raw text, so that with an OR in one the text
means something else than the tree: a departure listed in section 3. It holds of the
instances that TLC checks; no example and no test of the repository calls `RawData`.

The other theorems have no hypotheses. Where the code does not keep a promise in
every case, the property itself says in which: `StoredAsGiven` and `ReadAsGiven`
except the rows of calls whose structs fill different optional fields, `TypeOK` of
`TableRows` except their numbers, `EveryRowIsTaken` is about values that can be
written, `WhatIsStoredIsFound` about those without an apostrophe, `ColumnComesBack`
about words in arrays, `NoDanglingParent` about operators that were not lent or whose
caller keeps everything. `ControlOK`, that the iterator is inside the transaction, is
a part of `TypeOK` of `QueryTransaction`.

The argument for `QueryTransaction`. Reports and commits are about the table, but
what goes into the table is decided steps earlier, by what is pending in a block
when somebody commits. `IInv` (in `QueryTransactionInv`) says, for the four phases
of a call:

* running: nothing published yet, all queries before the iterator performed, the
  session in a block, pending exactly the rows of the writes behind the iterator,
  and an empty set marked once the save point is set (`Advancing`);
* rolling back: nothing published, a bad status, and once the iterator is past the
  save point nothing pending in a live block; before that, the save point, if there
  is one, marks the empty set (`Retreating`);
* ending: the answer is known and true, nothing pending in a live block, so that
  the destructor's commit publishes nothing (`Finishing`);
* idle: the reported answer is true (`AtRest`).

It adds that a link exists exactly when a session does (`LinkInv`), that pending
rows are the call's own (`Block`), and that no row of a future call is in the table
(`Fresh`). A step of one client frames the state of the others (`FrameInv`); for
the stepping client there is one lemma per action. `NoSessionLeft` needs only
`LinkInv`, which holds whatever is thrown, and therefore has no hypothesis.

The refinement goes step by step: `StartCall` is
Invoke; a step that changes the table is a close whose commit the server applies,
and `IInv` says that what it publishes is all the rows of the call, which is Commit;
`DestroyClone` is Return, or Die when the close in the destructor throws; every
other step changes nothing that `AtomicCalls` sees. It needs `SafeThrows` for the
reason for which `Truthful` does. `DeathNeedsLoss` needs it too: a session in a live
block reaches the destructor only over an exception that jumps the rollback loop,
or as a lost one; it may be lost at the failing close itself. `DryIsLocal` and `GuardedWrites` hold whatever is thrown: a dry
call never makes a link (`DryInv`), and a client beyond its save point has its block
or a broken session, never one in autocommit mode.

For `ConnectionManager` two small invariants suffice: `LockInv` (who makes the
object holds the lock alone, who runs a transaction is among the readers), and
`PointerInv` (once there is an object nobody is on the way to making another, and
pointers that threads hold point to it). The properties of a thread that has the
manager to itself need a third, `AloneHolds`: while nobody else is inside a call, what
the thread has read of the manager is still what the manager is. For `ProbedFirst` it
says that a good status has its probe (`ProbeInv`): whenever the status is `STATUS_OK`,
the connection object is the one that was probed last, or the probe of it is under way;
for `AnswerKept`, that the status behind the probe is the probe's outcome also when the
close throws (`AnswerInv`).

`FirebirdConnection_proofs` needs what the properties do not say: nothing is
attached before `SetupConnection` (`AttachedBySetup`), the client counts as
available with an attachment only if the transaction has started too
(`AvailableInTransaction`; this is why `execute` may look at the attachment
alone), and the status that a careful caller of a real connection sees stays
`STATUS_DEFAULT` for ever (`CarefulIsStopped`). A `With` in each step changes a few
pointers; one lemma for each operator says which.

The text modules are about recursive data. The library's induction theorems take an
operator as parameter, which the installed provers cannot instantiate, but sets can be
instantiated: `SequenceInduction` shows from the well-foundedness of `<` on the
naturals (`WFMin`) that a set of sequences which holds the empty one and is closed
under `Append` holds all of them, and uses it for what a loop that glues texts
together produces (`Flatten...`). It does the same for a fold over a sequence; the
operator is a constant of the module, so that `INSTANCE` gives the lemmas for
`AddDigit`, `InsertOne` and `Listed`.

* `FieldValues_proofs`, of `FieldText`. An INSERT of values that can be written throws
  nothing and has a text for each field of the row, in the order of the columns, so
  that the server reads back the row itself (`RowOf`); each literal is one that the
  server can read, by the field's type. A literal of a condition determines the value,
  so that a condition on a value without an apostrophe cannot take another row.
* `TableRows_proofs`. The fields of a row in the order of the table are a loop over
  the fields of the table. Structs with the same flags that agree on the optional fields
  have rows with the same fields (`SameFields`), so that a value at a position is one
  of its own column; the rows of other calls are those of `mixed`. The server is a fold over the tuples: `Reached` says what
  holds after some of them - the table keeps its rules, only grows, has a number for
  each row where the tuples have one, and has the row of every tuple under the id that
  is returned for it, if none has been left out - and one tuple more keeps it
  (`InsertStep`). `RowsInv` adds to the properties that the
  answer of a SELECT is all of the table.
* `FieldValues_proofs`, of `PackedVector`. The number that `Decimal` writes is the one
  that `Number` reads, by induction on its digits (`DecimalIsRead`): the digits end at
  the blank, also when the element begins with a digit. Hence a round of the loop
  takes one element (`ElementIsRead`), and the invariant `PackedInv` says that the
  elements taken are as many as have been packed before `start`. The column: an array of
  words is written without quotes, and no word has a comma or a brace, so that taking
  the braces off gives the elements with commas between, and each cut at a comma gives
  one more element (`PartsUpTo`, `ArrayComesBack`).
* `TableFormat_proofs`. What has been written after some items of a setup (`Reached`)
  either ends early, behind a comma, and has an even number of clauses and commas,
  which no server reads (`EndedIsRefused`), or it is all of these items, and then the
  clauses of each kind, in their order, are the fields, the uniques and the references
  of the setup unless one of them is bad (`WholeSays`, `TextSays`). So a text that the
  server reads makes the table that the setup asks for (`TableIs`). `CatalogInv` says
  that the columns of a table differ in their names, that its key and its uniques are
  made of them, and that references lead to columns that are there; a drop keeps this
  because it takes the references with it or is refused. With different names a number
  of a column leads back to its name (`ConstrainedIs`), also where the application does
  not know the column, hence `ReadInv`: what was read is in the catalog. A change of the
  catalog or of the design begins anew.
* `WhereTree_proofs`. `Subtree`, `Text` and `Reading` are recursive, and that they have
  the values which their equations say is itself a theorem: the first two because
  children have smaller numbers than the nodes above them, the last because each part
  of a text is shorter. So `TypeInv` first (the heap; `Linked`: no child is without a
  parent; `Rooted`: a condition in use is no part of a BETWEEN). With it a step leaves
  what is below an old node as it was (`Stays`, `ShapeKeeps`).
  - The row that meets no condition is in the reading of no text, `<<>>` and syntax
    errors included (`StatementRows`); it is in the table. Hence `NeverWhole`.
  - The depth of parentheses of a text that `GetString` writes returns to zero and is
    at least one inside a bracketed operator (`DepthInBraces`, `BracedBeside`), so that
    a joined text splits where it was joined and nowhere else (`JointSplits`), and is
    read as what both sides are read as (`JointReading`). `MeaningInv` says that a
    condition in use reads as it is meant, both as a root and below another operator,
    where `GetString` writes it between parentheses; a join keeps it (`JoinMeans`).
  - Parents: of a caller that keeps everything every node ever made lives (`KeptInv`).
    For the others `OwnInv`: but for what was lent, each condition belongs to one
    holder (`Apart`), the parent of a child is the node that has it (`Owned`), and the
    root of a condition in use has none (`Orphans`). So there is one way to each node
    that was never lent, and its parent is on it.

Only model-checked:

* liveness under fairness (`EveryCallEnds`, `EveryCallReturns`, `EveryTextEnds`),
  which is out of the prover's reach.

## 5. The plan

Done, in this order: `PgServer`, `QueryTransaction`, `AtomicCalls` and their proofs;
`ConnectionManager` and its proofs; `WhereTree`; `TableRows`, `FieldText` and
`PackedVector`; `TableFormat`; `FirebirdConnection` and its proofs;
the refinement of `AtomicCalls`; the manager while one thread has it; the proofs of
`FieldText`, `PackedVector`, `TableRows`, `TableFormat` and `WhereTree`. Every safety
property and action property that a passing run checks is now a theorem.

Left: the composition of manager and transaction, a thread's `Transact` being the
steps of one client of `QueryTransaction`. What they share is small: the manager
clones a connection object that the lock keeps in place
(`NoReplacementUnderTransaction`), and the transaction works on nothing but its
clone.

### Not modelled

* `CheckTableFormat`, `UpdateTableFormat`, `UpdateTable`: `assert(0)`.
* UPDATE: the constructor of its setup asserts, so that no statement of that kind is
  ever written; `UpdateRows` of the connections is the same `exec_wrap`.
* `Compare` and `IsSame` of table setups, and the comparison of fields and references
  behind them: nothing but two lengths is left of the answer, and the loop behind it is
  undefined for fields that were read (see the departures).
* `Like` for strings, which calls itself for ever.
* `InitInsertTree`: the clause it makes cannot be put into a `WhereTree`, which takes
  nodes only.
* The two threads that `GetString` starts: they read the same immutable tree and
  are joined before anything is used.
* The text of the Firebird statements, which differs from the other client's in
  types and dates; `DBConnectionFireBird` is built on Windows only.
* Logging, the texts of errors, the strings of parameters, pretty printing.
* Integers are not bounded: no arithmetic of the library comes near a limit but
  the buffer of `DateToPostgreDate`, whose only bad length (16 characters) nobody
  passes.
* A server that never answers, and a restart of the application: nothing is
  persisted on its side.
* The examples but for the tables of the library, and the tests: programs that
  call the library in one fixed order.
