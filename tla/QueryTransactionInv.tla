-------------------------- MODULE QueryTransactionInv --------------------------
(***************************************************************************)
(* The inductive invariant of QueryTransaction: what is true between any   *)
(* two steps of a call, and why the commits that do not end a good         *)
(* transaction have nothing to publish.                                    *)
(***************************************************************************)
EXTENDS QueryTransaction

\* Where no session is left behind, whatever fails: the clone has a session
\* exactly when it has a pqxx_work, and none before "setup" and after a call.
LinkInv(c) ==
  /\ link[c] = "work" <=> session[c] # "none"
  /\ pc[c] = "run" /\ at[c] = 1 => link[c] # "work"
  /\ pc[c] = "idle" => link[c] = "none"

-----------------------------------------------------------------------------
\* Exceptions of the client's own code under which a call is atomic: results
\* convert, and a statement that may fail to build follows no written row.
SafeThrows ==
  /\ "convert" \notin Throws
  /\ "build" \in Throws =>
       \A o \in Op : \A j \in 1..Len(Plan[o]) : \A i \in 1..(j - 1) :
         Plan[o][j] \in DataQuery => Plan[o][i] \notin WritingQuery

NothingYet(c) == CallRows(c) \cap table = {}
NothingOpen(c) == session[c] = "block" => pending[c] = {}
HasSavePoint(c) == Plan[op[c]][2] = "savepoint"

\* What an answer st says of the rows of the call.
Verdict(c, st) ==
  IF is_status_ok(st)
  THEN CallRows(c) \subseteq table
  ELSE NothingYet(c) \/ CallRows(c) \subseteq table \cap unacked

\* Rows are pending only in a block, and they are the call's own.
Block(c) ==
  /\ dry[c] => link[c] = "none"
  /\ ~InBlock(c) => pending[c] = {} /\ mark[c] = {}
  /\ pending[c] \subseteq CallRows(c)

\* No row of a call that is still to come.
Fresh(c) == \A r \in table : r[1] = c => r[2] <= calls[c]

AtRest(c) == pc[c] = "idle" => Verdict(c, reported[c])

\* The transaction runs: everything so far has succeeded.
Advancing(c) ==
  pc[c] = "run" =>
    /\ NothingYet(c)
    /\ \A i \in 1..Last(c) : i < at[c] => i \in performed[c]
    /\ at[c] > 1 /\ ~dry[c] =>
         /\ session[c] = "block"
         /\ pending[c] = RowsBefore(c, at[c])
         /\ at[c] > 2 /\ HasSavePoint(c) => mark[c] = {{}}

\* The rollback loop: an open block is empty once the save point is behind.
Retreating(c) ==
  pc[c] = "undo" =>
    /\ NothingYet(c)
    /\ ~is_status_ok(trStatus[c])
    /\ \A i \in 1..Last(c) : i <= at[c] => i \in performed[c]
    /\ at[c] < 2 => NothingOpen(c)
    /\ at[c] >= 2 /\ HasSavePoint(c) /\ InBlock(c) => mark[c] = {{}}

\* The answer is known, and nothing is left for a later commit to publish.
Finishing(c) ==
  pc[c] \in {"check", "destroy"} =>
    /\ NothingOpen(c)
    /\ Verdict(c, result[c])
    /\ pc[c] = "check" => CallRows(c) = {}

CallInv(c) ==
  /\ LinkInv(c) /\ Block(c) /\ Fresh(c) /\ AtRest(c)
  /\ Advancing(c) /\ Retreating(c) /\ Finishing(c)

IInv == ControlOK /\ \A c \in Client : CallInv(c)
=============================================================================
