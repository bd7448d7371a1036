--------------------------- MODULE QueryTransaction ---------------------------
(***************************************************************************)
(* A high-level database operation: the Transaction that a call of the     *)
(* manager builds out of DBQuery objects, run over a cloned                *)
(* DBConnectionPostgre against the server of PgServer.                     *)
(*                                                                         *)
(* One step is one query of the transaction (or one step of its rollback   *)
(* loop): each sends at most one statement.  An exception that leaves      *)
(* ExecuteQueries is caught by tryExecuteTransaction, which runs no        *)
(* rollback; the clone is destroyed at the end of the call, and its        *)
(* destructor closes the connection - with a "commit;".                    *)
(***************************************************************************)
EXTENDS PgServer, Sequences, FiniteSets

CONSTANTS
  Op,         \* the operations a caller may ask for
  Plan,       \* the queries that each operation adds to its Transaction
  DryModes,   \* the values of db_parameters::is_dry_run
  Throws,     \* exceptions of the client's own code: "build", "convert"
  MaxCalls    \* bound: calls per client

VARIABLES
  alive,      \* FALSE once std::terminate has ended the process
  calls,      \* calls made so far by each client
  op,         \* operation of the current or last call
  dry,        \* is_dry_run of the parameters the clone was made with
  pc,         \* where the call stands
  at,         \* the loop iterator: index into Plan, backwards in the rollback
  performed,  \* indices of the queries whose is_performed_ is set
  trStatus,   \* Transaction::status_
  result,     \* what tryExecuteTransaction returned, or "EXCEPTION"
  reported,   \* what the last finished call gave to its caller
  status,     \* DBConnection::status_ of the clone
  error,      \* does the clone's error_ hold an error
  connected,  \* DBConnection::is_connected_ of the clone
  link        \* pqxx_work: "none", "socket" (pconnect_ only), "work" (both)

callVars == <<alive, calls, op, dry, reported>>
loopVars == <<pc, at, performed, trStatus, result>>
connVars == <<status, error, connected, link>>
vars == <<serverVars, callVars, loopVars, connVars>>

-----------------------------------------------------------------------------
Status == {"DEFAULT", "OK", "HAVE_ERROR", "NOT"}

AnyButNot(st) == st # "NOT"                    \* mutant of is_status_ok
is_status_ok(st) == st = "OK"

WritingQuery == {"insert", "modify"}
DataQuery == WritingQuery \cup {"select", "exists"}
Query == DataQuery \cup {"setup", "savepoint", "close"}

\* The transactions that DBConnectionManager assembles: CheckConnection,
\* IsTableExists, SelectRows, Save*Rows, and CreateTable or DeleteRows.
ManagerPlan ==
  [check  |-> <<"setup", "close">>,
   exist  |-> <<"setup", "exists", "close">>,
   read   |-> <<"setup", "select", "close">>,
   save   |-> <<"setup", "savepoint", "insert", "close">>,
   change |-> <<"setup", "savepoint", "modify", "close">>]

\* Every transaction opens the connection first, closes it last, and sets a
\* save point before it writes.
WellFormed(p) ==
  /\ Len(p) >= 2
  /\ \A i \in 1..Len(p) : /\ p[i] \in Query
                          /\ p[i] = "setup" <=> i = 1
                          /\ p[i] = "close" <=> i = Len(p)
                          /\ p[i] = "savepoint" => i = 2
                          /\ p[i] \in WritingQuery => p[2] = "savepoint"

ASSUME PlanAssumption ==
  Plan \in [Op -> Seq(Query)] /\ \A o \in Op : WellFormed(Plan[o])
ASSUME ModeAssumption ==
  /\ Op # {}
  /\ DryModes \subseteq BOOLEAN
  /\ Throws \subseteq {"build", "convert"}
  /\ MaxCalls \in Nat

-----------------------------------------------------------------------------
Current(c) == Plan[op[c]][at[c]]
Last(c) == Len(Plan[op[c]])
IsCheck(c) == Plan[op[c]] = <<"setup", "close">>
Writes(c, i) == ~dry[c] /\ Plan[op[c]][i] \in WritingQuery

\* The row that query i of the current call writes, and those of queries
\* before the k-th.
RowOf(c, i) == <<c, calls[c], i>>
RowsBefore(c, k) == {RowOf(c, i) : i \in {j \in 1..(k - 1) : Writes(c, j)}}
CallRows(c) == RowsBefore(c, Last(c))

\* The iterator stays inside the transaction, at either end.
ControlOK ==
  \A c \in Client : /\ pc[c] = "run" => at[c] \in 1..Last(c)
                    /\ pc[c] = "undo" => at[c] \in 0..Last(c)

TypeOK ==
  /\ ServerTypeOK
  /\ alive \in BOOLEAN
  /\ calls \in [Client -> 0..MaxCalls]
  /\ op \in [Client -> Op]
  /\ dry \in [Client -> BOOLEAN]
  /\ pc \in [Client -> {"idle", "run", "undo", "check", "destroy"}]
  /\ at \in [Client -> Nat]
  /\ performed \in [Client -> SUBSET Nat]
  /\ trStatus \in [Client -> Status]
  /\ result \in [Client -> Status \cup {"EXCEPTION"}]
  /\ reported \in [Client -> Status \cup {"EXCEPTION"}]
  /\ status \in [Client -> Status]
  /\ error \in [Client -> BOOLEAN]
  /\ connected \in [Client -> BOOLEAN]
  /\ link \in [Client -> {"none", "socket", "work"}]
  /\ ControlOK

Init ==
  /\ ServerInit
  /\ alive = TRUE
  /\ calls = [c \in Client |-> 0]
  /\ op = [c \in Client |-> CHOOSE o \in Op : TRUE]
  /\ dry = [c \in Client |-> FALSE]
  /\ pc = [c \in Client |-> "idle"]
  /\ at = [c \in Client |-> 1]
  /\ performed = [c \in Client |-> {}]
  /\ trStatus = [c \in Client |-> "DEFAULT"]
  /\ result = [c \in Client |-> "DEFAULT"]
  /\ reported = [c \in Client |-> "DEFAULT"]
  /\ status = [c \in Client |-> "DEFAULT"]
  /\ error = [c \in Client |-> FALSE]
  /\ connected = [c \in Client |-> FALSE]
  /\ link = [c \in Client |-> "none"]

-----------------------------------------------------------------------------
\* A call begins: the manager clones its connection and assembles the
\* transaction (Transaction, DBQuery and the copy of DBConnectionPostgre are
\* new objects).
StartCall(c) ==
  /\ pc[c] = "idle"
  /\ calls[c] < MaxCalls
  /\ calls' = [calls EXCEPT ![c] = @ + 1]
  /\ \E o \in Op : op' = [op EXCEPT ![c] = o]
  /\ \E d \in DryModes : dry' = [dry EXCEPT ![c] = d]
  /\ pc' = [pc EXCEPT ![c] = "run"]
  /\ at' = [at EXCEPT ![c] = 1]
  /\ performed' = [performed EXCEPT ![c] = {}]
  /\ trStatus' = [trStatus EXCEPT ![c] = "DEFAULT"]
  /\ result' = [result EXCEPT ![c] = "DEFAULT"]
  /\ status' = [status EXCEPT ![c] = "DEFAULT"]
  /\ error' = [error EXCEPT ![c] = FALSE]
  /\ connected' = [connected EXCEPT ![c] = FALSE]
  /\ link' = [link EXCEPT ![c] = "none"]
  /\ UNCHANGED <<serverVars, alive, reported>>

-----------------------------------------------------------------------------
(* The loops of Transaction::ExecuteQueries                                *)

\* The call goes on after tryExecuteTransaction has returned st.
EndTransaction(c, st) ==
  /\ result' = [result EXCEPT ![c] = st]
  /\ pc' = [pc EXCEPT ![c] = IF IsCheck(c) THEN "check" ELSE "destroy"]

\* Mutants of Executed: the rollback loop starts at the query that failed;
\* the loop stops one query early.
ExecutedUndoesItself(c, st) ==
  /\ trStatus' = [trStatus EXCEPT ![c] = st]
  /\ performed' = [performed EXCEPT ![c] = @ \cup {at[c]}]
  /\ \/ /\ is_status_ok(st) /\ at[c] < Last(c)
        /\ at' = [at EXCEPT ![c] = @ + 1]
        /\ UNCHANGED <<pc, result>>
     \/ /\ is_status_ok(st) /\ at[c] = Last(c)
        /\ EndTransaction(c, st)
        /\ UNCHANGED at
     \/ /\ ~is_status_ok(st)
        /\ pc' = [pc EXCEPT ![c] = "undo"]
        /\ UNCHANGED <<at, result>>
ExecutedShort(c, st) ==
  /\ trStatus' = [trStatus EXCEPT ![c] = st]
  /\ performed' = [performed EXCEPT ![c] = @ \cup {at[c]}]
  /\ \/ /\ is_status_ok(st) /\ at[c] < Last(c) - 1
        /\ at' = [at EXCEPT ![c] = @ + 1]
        /\ UNCHANGED <<pc, result>>
     \/ /\ is_status_ok(st) /\ at[c] >= Last(c) - 1
        /\ EndTransaction(c, st)
        /\ UNCHANGED at
     \/ /\ ~is_status_ok(st)
        /\ at' = [at EXCEPT ![c] = @ - 1]
        /\ pc' = [pc EXCEPT ![c] = "undo"]
        /\ UNCHANGED result

\* The current query has answered st: go on to the next one, end the loop,
\* or start the rollback loop at the query before it.
Executed(c, st) ==
  /\ trStatus' = [trStatus EXCEPT ![c] = st]
  /\ performed' = [performed EXCEPT ![c] =
                     IF Current(c) = "close" THEN @ ELSE @ \cup {at[c]}]
  /\ \/ /\ is_status_ok(st) /\ at[c] < Last(c)
        /\ at' = [at EXCEPT ![c] = @ + 1]
        /\ UNCHANGED <<pc, result>>
     \/ /\ is_status_ok(st) /\ at[c] = Last(c)
        /\ EndTransaction(c, st)
        /\ UNCHANGED at
     \/ /\ ~is_status_ok(st)
        /\ at' = [at EXCEPT ![c] = @ - 1]
        /\ pc' = [pc EXCEPT ![c] = "undo"]
        /\ UNCHANGED result

\* Mutant of Raised: trans_st keeps its good value.
RaisedSilently(c) ==
  /\ EndTransaction(c, "OK")
  /\ UNCHANGED <<at, performed, trStatus>>

\* An exception leaves ExecuteQueries; tryExecuteTransaction turns it into
\* STATUS_HAVE_ERROR, and nothing is rolled back.
Raised(c) ==
  /\ EndTransaction(c, "HAVE_ERROR")
  /\ UNCHANGED <<at, performed, trStatus>>

Running(c, kinds) == pc[c] = "run" /\ Current(c) \in kinds

-----------------------------------------------------------------------------
(* DBConnectionPostgre                                                     *)

SetConn(c, st, err, open, l) ==
  /\ status' = [status EXCEPT ![c] = st]
  /\ error' = [error EXCEPT ![c] = err]
  /\ connected' = [connected EXCEPT ![c] = open]
  /\ link' = [link EXCEPT ![c] = l]

\* Mutant of StatusAfter: the catch block forgets status_.
StatusKept(c, reply) == status[c]

\* exec_wrap: an exception of the statement sets the status, which sticks;
\* success leaves the status as it was.
StatusAfter(c, reply) == IF reply = "ok" THEN status[c] ELSE "HAVE_ERROR"

Answered(c, reply) ==
  SetConn(c, StatusAfter(c, reply), error[c] \/ reply # "ok",
          connected[c], link[c])

\* Mutant of UnsentStatus: isDryRun is not asked.
UnsentIsNot(c) == "NOT"

\* exec_wrap with nothing to send it on, or nothing to send.
UnsentStatus(c) == IF dry[c] THEN "OK" ELSE "NOT"

Unsent(c, empty) ==
  /\ SetConn(c, UnsentStatus(c), error[c] \/ empty \/ ~dry[c],
             connected[c], link[c])
  /\ UNCHANGED serverVars

\* SetupConnection: the link is made, is_connected_ and status_ are set,
\* and only then "begin;" is sent.
SetupConnection(c) ==
  /\ Running(c, {"setup"})
  /\ \/ /\ dry[c]
        /\ SetConn(c, "OK", error[c], connected[c], link[c])
        /\ UNCHANGED serverVars
        /\ Executed(c, "OK")
     \/ /\ ~dry[c]
        /\ ConnectAndBegin(c, "ok")
        /\ SetConn(c, "OK", error[c], TRUE, "work")
        /\ Executed(c, "OK")
     \/ /\ ~dry[c]
        /\ \E reply \in Reply \ {"ok"} : ConnectAndBegin(c, reply)
        /\ SetConn(c, "HAVE_ERROR", TRUE, TRUE, "work")
        /\ Executed(c, "HAVE_ERROR")
     \/ /\ ~dry[c]
        /\ \E l \in {"none", "socket"} :
             SetConn(c, "HAVE_ERROR", TRUE, connected[c], l)
        /\ UNCHANGED serverVars
        /\ Executed(c, "HAVE_ERROR")

AddSavePoint(c) ==
  /\ Running(c, {"savepoint"})
  /\ \/ /\ link[c] = "work"
        /\ \E reply \in Reply : /\ SavePoint(c, reply)
                                /\ Answered(c, reply)
                                /\ Executed(c, StatusAfter(c, reply))
     \/ /\ link[c] # "work"
        /\ Unsent(c, FALSE)
        /\ Executed(c, UnsentStatus(c))

\* InsertRows, DeleteRows, CreateTable, SelectRows, IsTableExists.
RunQuery(c) ==
  LET rows == IF Writes(c, at[c]) THEN {RowOf(c, at[c])} ELSE {}
  IN
  /\ Running(c, DataQuery)
  /\ \/ \* the statement cannot be built (a date of the wrong form)
        /\ "build" \in Throws /\ Current(c) # "exists"
        /\ UNCHANGED <<serverVars, connVars>>
        /\ Raised(c)
     \/ \* no connection (a dry run), or an insert of no rows
        /\ \E empty \in BOOLEAN : /\ empty => Current(c) = "insert"
                                  /\ link[c] = "work" => empty
                                  /\ Unsent(c, empty)
        /\ Executed(c, UnsentStatus(c))
     \/ /\ link[c] = "work"
        /\ \E reply \in Reply : /\ Statement(c, rows, reply)
                                /\ Answered(c, reply)
                                /\ Executed(c, StatusAfter(c, reply))
     \/ \* the statement succeeds and its result cannot be converted
        /\ "convert" \in Throws /\ Current(c) \in {"insert", "select"}
        /\ link[c] = "work"
        /\ Statement(c, rows, "ok")
        /\ UNCHANGED connVars
        /\ Raised(c)

\* CloseConnection returns.
CloseReturns(c) ==
  /\ IF link[c] = "work" THEN CommitAndDisconnect(c) ELSE UNCHANGED serverVars
  /\ SetConn(c, IF dry[c] THEN "OK" ELSE status[c],
             error[c] /\ link[c] = "none",
             connected[c] /\ link[c] = "none", "none")

\* Mutant of CloseThrows: pconnect_ is not checked for null.
CloseUnchecked(c) ==
  /\ \/ link[c] = "work" /\ \E reply \in Reply : CommitFails(c, reply)
     \/ link[c] # "work" /\ UNCHANGED serverVars
  /\ UNCHANGED connVars

\* CloseConnection throws: "commit;" has failed and nothing is released.
CloseThrows(c) ==
  /\ link[c] = "work"
  /\ \E reply \in Reply : CommitFails(c, reply)
  /\ UNCHANGED connVars

CloseQuery(c) ==
  /\ Running(c, {"close"})
  /\ \/ CloseReturns(c) /\ Executed(c, "OK")
     \/ CloseThrows(c) /\ Raised(c)

-----------------------------------------------------------------------------
(* The rollback loop, and the end of a call                                *)

\* Mutants of MoveBack: the iterator skips a query, or is never moved.
MoveBackTwice(c) ==
  /\ at' = [at EXCEPT ![c] = @ - 2]
  /\ UNCHANGED <<pc, performed, trStatus, result>>
MoveBackNever(c) == UNCHANGED <<at, pc, performed, trStatus, result>>

MoveBack(c) ==
  /\ at' = [at EXCEPT ![c] = @ - 1]
  /\ UNCHANGED <<pc, performed, trStatus, result>>

Undoing(c, kinds) ==
  pc[c] = "undo" /\ at[c] > 0 /\ at[c] \in performed[c] /\ Current(c) \in kinds

\* unExecute of DBQuerySetupConnection
UndoSetup(c) ==
  /\ Undoing(c, {"setup"})
  /\ \/ CloseReturns(c) /\ MoveBack(c)
     \/ CloseThrows(c) /\ Raised(c)

\* unExecute of DBQueryAddSavePoint: RollbackToSavePoint.  Its transaction
\* is connected: in a dry run no query fails after the save point.
UndoSavePoint(c) ==
  /\ Undoing(c, {"savepoint"})
  /\ link[c] = "work"
  /\ \E reply \in Reply : RollbackTo(c, reply) /\ Answered(c, reply)
  /\ MoveBack(c)

\* The other queries have nothing to undo.
UndoNothing(c) ==
  /\ pc[c] = "undo" /\ at[c] > 0
  /\ at[c] \in performed[c] => Current(c) \in DataQuery
  /\ UNCHANGED <<serverVars, connVars>>
  /\ MoveBack(c)

UndoDone(c) ==
  /\ pc[c] = "undo" /\ at[c] = 0
  /\ EndTransaction(c, trStatus[c])
  /\ UNCHANGED <<serverVars, connVars, at, performed, trStatus>>

\* What CheckConnection does after the transaction: close a connection that
\* is still open, outside any try.
CheckTail(c) ==
  /\ pc[c] = "check"
  /\ pc' = [pc EXCEPT ![c] = "destroy"]
  /\ \/ ~connected[c] /\ UNCHANGED <<serverVars, connVars, result>>
     \/ connected[c] /\ CloseReturns(c) /\ UNCHANGED result
     \/ /\ connected[c] /\ CloseThrows(c)
        /\ result' = [result EXCEPT ![c] = "EXCEPTION"]
  /\ UNCHANGED <<at, performed, trStatus>>

\* Mutant of DestroyClone: the destructor leaves the connection alone.
DestroyWithoutClose(c) ==
  /\ pc[c] = "destroy"
  /\ pc' = [pc EXCEPT ![c] = "idle"]
  /\ reported' = [reported EXCEPT ![c] = result[c]]
  /\ UNCHANGED <<serverVars, connVars, alive, calls, op, dry, at, performed,
                 trStatus, result>>

\* The clone's destructor closes the connection; an exception there ends
\* the process.  The server then rolls the blocks of a dead process back, so
\* they may as well stay as they are.
DestroyClone(c) ==
  /\ pc[c] = "destroy"
  /\ \/ /\ CloseReturns(c)
        /\ pc' = [pc EXCEPT ![c] = "idle"]
        /\ reported' = [reported EXCEPT ![c] = result[c]]
        /\ UNCHANGED alive
     \/ /\ CloseThrows(c)
        /\ alive' = FALSE
        /\ UNCHANGED <<pc, reported>>
  /\ UNCHANGED <<calls, op, dry, at, performed, trStatus, result>>

-----------------------------------------------------------------------------
InCall(c) ==
  \/ /\ \/ SetupConnection(c) \/ AddSavePoint(c) \/ RunQuery(c)
        \/ CloseQuery(c)
        \/ UndoSetup(c) \/ UndoSavePoint(c) \/ UndoNothing(c) \/ UndoDone(c)
        \/ CheckTail(c)
     /\ UNCHANGED callVars
  \/ DestroyClone(c)

Next == alive /\ \E c \in Client : StartCall(c) \/ InCall(c)

SafeSpec == Init /\ [][Next]_vars

\* A thread inside a call keeps running: nothing in a call waits for another
\* client.  Nobody has to make a call.
Spec == SafeSpec /\ \A c \in Client : WF_vars(alive /\ InCall(c))

-----------------------------------------------------------------------------
(* Properties                                                              *)

Returned(c) == pc[c] = "idle" /\ calls[c] > 0

\* What a caller is told is what happened to its rows: STATUS_OK means that
\* every row of the call is committed (the contract of InsertRows in
\* db_connection.h), anything else that none is, unless the answer to the
\* commit itself was lost.
ReportIsTruthful ==
  \A c \in Client : Returned(c) =>
    IF is_status_ok(reported[c])
    THEN CallRows(c) \subseteq table
    ELSE \/ CallRows(c) \cap table = {}
         \/ CallRows(c) \subseteq table \cap unacked

\* Rows become visible only through the commit of a transaction none of
\* whose queries has failed - never through the commits that the rollback
\* loop, CheckConnection and the clone's destructor send - and then all
\* together.
CommitOnlyAfterSuccess ==
  [][\A c \in Client :
       LET new == (table' \ table) \cap ({c} \X Nat \X Nat)
       IN  new # {} => /\ pc[c] = "run" /\ Current(c) = "close"
                       /\ new = CallRows(c)]_vars

\* A call keeps nothing behind: the clone's session is closed when the
\* caller has its answer, whatever failed on the way.
NoSessionOutlivesItsCall ==
  \A c \in Client : pc[c] = "idle" => session[c] = "none" /\ link[c] = "none"

\* A writing statement takes effect only inside a block that has a save
\* point: no step that failed before it (begin or save point refused, a
\* connection reopened under the transaction) lets it run in autocommit mode.
WritesAreGuarded ==
  [][\A c \in Client :
       /\ pc[c] = "run" /\ Current(c) \in WritingQuery
       /\ pending'[c] # pending[c] \/ RowOf(c, at[c]) \in table' \ table
       => session[c] = "block" /\ mark[c] # {}]_vars

\* std::terminate is reached only when the connection is lost under a clone
\* that its destructor tries to commit, before that commit or at it: the
\* server never refuses what a destructor sends.
DiesOnlyOfLostConnection ==
  ~alive => \E c \in Client : /\ pc[c] = "destroy" /\ link[c] = "work"
                              /\ session[c] = "broken"

\* is_dry_run blocks the physical connection (db_connection.h): no session,
\* no row, and the call succeeds unless a statement cannot be built.
DryRunStaysLocal ==
  \A c \in Client : dry[c] =>
    /\ session[c] = "none" /\ link[c] = "none"
    /\ Returned(c) => \/ is_status_ok(reported[c])
                      \/ "build" \in Throws /\ reported[c] = "HAVE_ERROR"

\* What db_connection.h says of InsertRows: STATUS_OK if the rows have been
\* added.
AddedMeansOk ==
  \A c \in Client :
    Returned(c) /\ CallRows(c) # {} /\ CallRows(c) \subseteq table \ unacked
      => is_status_ok(reported[c])

\* A call always comes to an end: it returns, or the process dies.
EveryCallEnds ==
  \A c \in Client : pc[c] # "idle" ~> (pc[c] = "idle" \/ ~alive)

\* The promise of a call: it takes effect at most once, all or nothing, and
\* reports which.
Atomic == INSTANCE AtomicCalls WITH
            busy <- [c \in Client |-> pc[c] # "idle"],
            target <- [c \in Client |-> CallRows(c)]
ImplementsAtomicCalls == Atomic!Spec
=============================================================================
