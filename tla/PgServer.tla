------------------------------ MODULE PgServer ------------------------------
(***************************************************************************)
(* The PostgreSQL server behind DBConnectionPostgre, and libpqxx in front  *)
(* of it: external code, modelled from the statements that                 *)
(* source/db_connection_postgre.cpp sends ("begin;", SAVEPOINT, the data   *)
(* statement, ROLLBACK TO SAVEPOINT, "commit;") and from the ways pqxx     *)
(* answers them: with a result, with an SQL error, or with a lost          *)
(* connection.  Every client owns at most one session, since every         *)
(* DBConnectionPostgre owns at most one pqxx::connection.                  *)
(***************************************************************************)
EXTENDS Naturals

CONSTANT Client         \* the callers; each runs one transaction at a time

VARIABLES
  table,      \* the rows that are committed
  session,    \* the state of each client's session
  pending,    \* the rows written in each open transaction block
  mark,       \* {} or {the rows that were pending at the SAVEPOINT}
  unacked     \* rows whose commit was applied while its answer was lost

serverVars == <<table, session, pending, mark, unacked>>

\* A row is named after the call that writes it: client, number of the call
\* and position of the query in that call.
Row == Client \X Nat \X Nat

\* "none"   no session            "idle"    connected, no transaction block
\* "block"  inside begin..commit  "failed"  inside a block that had an error
\* "broken" the connection is gone and pqxx has noticed it
SessionState == {"none", "idle", "block", "failed", "broken"}

\* How pqxx answers a statement: the last two are exceptions.
Reply == {"ok", "sql_error", "lost"}

ServerTypeOK ==
  /\ table \in SUBSET Row
  /\ session \in [Client -> SessionState]
  /\ pending \in [Client -> SUBSET Row]
  /\ mark \in [Client -> SUBSET SUBSET Row]
  /\ unacked \in SUBSET Row

ServerInit ==
  /\ table = {}
  /\ session = [c \in Client |-> "none"]
  /\ pending = [c \in Client |-> {}]
  /\ mark = [c \in Client |-> {}]
  /\ unacked = {}

-----------------------------------------------------------------------------
\* A statement on a broken connection reaches a fresh session when pqxx can
\* reactivate the connection (lazily, as its 6.x series does).
Reached(c) == IF session[c] = "broken" THEN "idle" ELSE session[c]

InBlock(c) == session[c] \in {"block", "failed"}

Becomes(c, s, rows, m) ==
  /\ session' = [session EXCEPT ![c] = s]
  /\ pending' = [pending EXCEPT ![c] = rows]
  /\ mark' = [mark EXCEPT ![c] = m]

\* The connection is lost before the statement takes effect: the server
\* rolls the open block back.
Lost(c) ==
  /\ Becomes(c, "broken", {}, {})
  /\ UNCHANGED <<table, unacked>>

\* The statement is refused: an open block turns into a failed one.
Refused(c) ==
  /\ Becomes(c, IF InBlock(c) THEN "failed" ELSE "idle", pending[c], mark[c])
  /\ UNCHANGED <<table, unacked>>

Fails(c, reply) ==
  \/ reply = "sql_error" /\ Refused(c)
  \/ reply = "lost" /\ Lost(c)

-----------------------------------------------------------------------------
\* A new connection followed by "begin;".
ConnectAndBegin(c, reply) ==
  /\ session[c] = "none"
  /\ \/ /\ reply = "ok"
        /\ Becomes(c, "block", {}, {})
        /\ UNCHANGED <<table, unacked>>
     \/ Fails(c, reply)

\* SAVEPOINT name
SavePoint(c, reply) ==
  \/ /\ reply = "ok"
     /\ session[c] = "block"
     /\ Becomes(c, "block", pending[c], {pending[c]})
     /\ UNCHANGED <<table, unacked>>
  \/ Fails(c, reply)

\* INSERT, DELETE, CREATE TABLE (rows # {}) or SELECT (rows = {}); outside a
\* block the statement commits by itself.
Statement(c, rows, reply) ==
  \/ /\ reply = "ok"
     /\ session[c] = "block"
     /\ Becomes(c, "block", pending[c] \cup rows, mark[c])
     /\ UNCHANGED <<table, unacked>>
  \/ /\ reply = "ok"
     /\ Reached(c) = "idle"
     /\ Becomes(c, "idle", {}, {})
     /\ table' = table \cup rows
     /\ UNCHANGED unacked
  \/ Fails(c, reply)

\* ROLLBACK TO SAVEPOINT name
RollbackTo(c, reply) ==
  \/ /\ reply = "ok"
     /\ InBlock(c)
     /\ mark[c] # {}
     /\ Becomes(c, "block", UNION mark[c], mark[c])
     /\ UNCHANGED <<table, unacked>>
  \/ Fails(c, reply)

\* The rows that "commit;" publishes: none when the block has failed, where
\* the server answers a commit with a rollback and no error.
Publishes(c) == IF session[c] = "block" THEN pending[c] ELSE {}

\* "commit;" answered without an error, then the end of the connection.
CommitAndDisconnect(c) ==
  /\ Becomes(c, "none", {}, {})
  /\ table' = table \cup Publishes(c)
  /\ UNCHANGED unacked

\* "commit;" that ends in an exception.  An SQL error (a deferred check)
\* needs rows to commit and rolls them back; a lost connection may hide a
\* commit that was applied.
CommitFails(c, reply) ==
  \/ /\ reply = "sql_error"
     /\ Publishes(c) # {}
     /\ Becomes(c, "idle", {}, {})
     /\ UNCHANGED <<table, unacked>>
  \/ reply = "lost" /\ Lost(c)
  \/ /\ reply = "lost"
     /\ Publishes(c) # {}
     /\ Becomes(c, "broken", {}, {})
     /\ table' = table \cup Publishes(c)
     /\ unacked' = unacked \cup Publishes(c)
=============================================================================
