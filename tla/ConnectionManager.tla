-------------------------- MODULE ConnectionManager --------------------------
(***************************************************************************)
(* DBConnectionManager shared by threads: the lazily made connection       *)
(* object, the status and the error that decide whether an operation is    *)
(* tried at all, and the lock around making the object and around          *)
(* transactions.  A transaction is one step here, with the outcomes that   *)
(* QueryTransaction gives it.                                              *)
(*                                                                         *)
(* parameters_, status_, error_ and db_connection_ are read and written    *)
(* without the lock almost everywhere: a step is one condition or one      *)
(* group of assignments of the code, and those of threads interleave.      *)
(* That the clone's destructor may end the process is left to              *)
(* QueryTransaction.  Parameters of a dry run behave like reachable ones.  *)
(***************************************************************************)
EXTENDS Naturals

CONSTANTS
  Thread,     \* the threads that call the manager
  Params,     \* the parameters a caller may pass
  Backed,     \* those whose supplier this build can make a connection for
  Reachable,  \* those whose server accepts connections
  Unset,      \* the parameters of a new manager (supplier NOONE)
  NoThread,   \* nobody holds the lock exclusively
  Call,       \* the calls made: "check", "reset", "exec"
  Flaky,      \* may a transaction fail though the server is reachable?
  Connected,  \* does the history begin after a successful reset?
  MaxCalls    \* bound: calls of all threads together

VARIABLES
  parameters, \* parameters_
  status,     \* status_
  error,      \* does error_ hold an error
  connection, \* db_connection_: Null or <<number, its parameters>>
  made,       \* connection objects made so far
  writer,     \* who holds connect_init_lock_ exclusively
  readers,    \* who holds it shared
  pc,         \* where each thread is
  stage,      \* in which function: "check" CheckConnection, "exec" exec_wrap
  call,       \* the current or last call
  calls,      \* calls made so far
  pointer,    \* the raw pointer taken from db_connection_
  clone,      \* the parameters of the clone
  outcome,    \* what the last transaction or check returned
  answer,     \* what the last call gave to its caller
  probed      \* history, read by a property only: the connection object whose
              \* clone was the last to be probed with success, Null since
              \* the last reset

managerVars == <<parameters, status, error, connection, made>>
lockVars == <<writer, readers>>
localVars == <<calls, stage, call, pointer, clone, outcome, answer, probed>>
vars == <<managerVars, lockVars, pc, localVars>>

ASSUME ParamsAssumption ==
  /\ Unset \notin Backed /\ Reachable \subseteq Backed
  /\ Backed \subseteq Params
  /\ Connected => Reachable # {}
ASSUME CallAssumption ==
  /\ Call \subseteq {"check", "reset", "exec"}
  /\ Flaky \in BOOLEAN /\ Connected \in BOOLEAN
  /\ MaxCalls \in Nat
  /\ NoThread \notin Thread

-----------------------------------------------------------------------------
Status == {"DEFAULT", "OK", "HAVE_ERROR", "NOT"}
is_status_aval(st) == st \in {"DEFAULT", "OK"}

Null == <<0, Unset>>
IsNull(object) == object[1] = 0
Object == {Null} \cup ((Nat \ {0}) \X Backed)

Place == {"idle", "reset", "check", "init", "make", "usable", "get", "clone",
          "enter", "transact", "store", "close", "checked", "assign"}

TypeOK ==
  /\ parameters \in Params \cup {Unset}
  /\ status \in Status /\ error \in BOOLEAN
  /\ connection \in Object /\ made \in Nat
  /\ writer \in Thread \cup {NoThread} /\ readers \in SUBSET Thread
  /\ pc \in [Thread -> Place]
  /\ stage \in [Thread -> {"check", "exec"}]
  /\ call \in [Thread -> Call \cup {"none"}]
  /\ calls \in 0..MaxCalls
  /\ pointer \in [Thread -> Object]
  /\ clone \in [Thread -> Params \cup {Unset}]
  /\ outcome \in [Thread -> Status]
  /\ answer \in [Thread -> Status \cup {"EXCEPTION"}]
  /\ probed \in Object

Init ==
  /\ \/ /\ ~Connected
        /\ parameters = Unset /\ status = "DEFAULT"
        /\ connection = Null /\ made = 0
     \/ /\ Connected
        /\ parameters \in Reachable /\ status = "OK"
        /\ connection = <<1, parameters>> /\ made = 1
  /\ error = FALSE
  /\ writer = NoThread /\ readers = {}
  /\ pc = [t \in Thread |-> "idle"]
  /\ stage = [t \in Thread |-> "check"]
  /\ call = [t \in Thread |-> "none"]
  /\ calls = 0
  /\ pointer = [t \in Thread |-> Null]
  /\ clone = [t \in Thread |-> Unset]
  /\ outcome = [t \in Thread |-> "DEFAULT"]
  /\ answer = [t \in Thread |-> "DEFAULT"]
  /\ probed = connection

Go(t, place) == pc' = [pc EXCEPT ![t] = place]

\* The call returns to its caller.
Return(t, st) ==
  /\ Go(t, "idle")
  /\ answer' = [answer EXCEPT ![t] = st]

-----------------------------------------------------------------------------
(* The calls                                                               *)

Begin(t, kind) ==
  /\ pc[t] = "idle" /\ kind \in Call /\ calls < MaxCalls
  /\ calls' = calls + 1
  /\ call' = [call EXCEPT ![t] = kind]
  /\ stage' = [stage EXCEPT ![t] = "check"]
  /\ UNCHANGED <<status, error, connection, made, lockVars, pointer, clone,
                 outcome, probed, answer>>

CheckConnection(t) ==
  /\ Begin(t, "check")
  /\ Go(t, "check")
  /\ UNCHANGED parameters

\* ResetConnectionParameters stores the parameters first, ...
ResetConnectionParameters(t) ==
  /\ Begin(t, "reset")
  /\ \E p \in Params : parameters' = p
  /\ Go(t, "reset")

\* ... then forgets the status and the error.  The object stays.
ResetStatus(t) ==
  /\ pc[t] = "reset"
  /\ status' = "DEFAULT" /\ error' = FALSE
  /\ probed' = Null
  /\ Go(t, "check")
  /\ UNCHANGED <<parameters, connection, made, lockVars, calls, stage, call,
                 pointer, clone, outcome, answer>>

\* exec_wrap checks the connection only while the status is the default one.
exec_wrap(t) ==
  /\ pc[t] = "idle" /\ "exec" \in Call /\ calls < MaxCalls
  /\ calls' = calls + 1
  /\ call' = [call EXCEPT ![t] = "exec"]
  /\ \/ /\ status = "DEFAULT"
        /\ stage' = [stage EXCEPT ![t] = "check"] /\ Go(t, "check")
     \/ /\ status # "DEFAULT"
        /\ stage' = [stage EXCEPT ![t] = "exec"] /\ Go(t, "usable")
  /\ UNCHANGED <<managerVars, lockVars, pointer, clone, outcome, probed,
                 answer>>

-----------------------------------------------------------------------------
(* Making the connection object                                            *)

\* Mutant of NeedsInit: the old failure is not looked at.
InitAgain == IsNull(connection)

NeedsInit == ~(error /\ status = "HAVE_ERROR") /\ IsNull(connection)

Check(t) ==
  /\ pc[t] = "check"
  /\ Go(t, IF NeedsInit THEN "init" ELSE "usable")
  /\ UNCHANGED <<managerVars, lockVars, localVars>>

\* Mutant of InitBegin: the lock is taken shared, so it waits for no
\* transaction.
InitBeginUnlocked(t) ==
  /\ pc[t] = "init"
  /\ writer = NoThread
  /\ writer' = t
  /\ status' = "OK"
  /\ Go(t, "make")
  /\ UNCHANGED <<parameters, error, connection, made, readers, localVars>>

\* initDBConnection: the lock, and a good status before there is an object
InitBegin(t) ==
  /\ pc[t] = "init"
  /\ writer = NoThread /\ readers = {}
  /\ writer' = t
  /\ status' = "OK"
  /\ Go(t, "make")
  /\ UNCHANGED <<parameters, error, connection, made, readers, localVars>>

\* Mutants of InitEnd: the supplier is not asked for, or the lock is kept
\* until CheckConnection returns.
InitEndAnySupplier(t) ==
  /\ pc[t] = "make"
  /\ writer' = NoThread
  /\ connection' = <<made + 1, parameters>> /\ made' = made + 1
  /\ Go(t, "usable")
  /\ UNCHANGED <<parameters, status, error, readers, localVars>>
InitEndLocked(t) ==
  /\ pc[t] = "make"
  /\ connection' = <<made + 1, parameters>> /\ made' = made + 1
  /\ Go(t, "usable")
  /\ UNCHANGED <<parameters, status, error, lockVars, localVars>>

\* The object is replaced (an old one is destroyed) and the lock released.
InitEnd(t) ==
  /\ pc[t] = "make"
  /\ writer' = NoThread
  /\ \/ /\ parameters \in Backed
        /\ connection' = <<made + 1, parameters>>
        /\ made' = made + 1
        /\ UNCHANGED <<status, error>>
     \/ /\ parameters \notin Backed
        /\ connection' = Null
        /\ status' = "HAVE_ERROR" /\ error' = TRUE
        /\ UNCHANGED made
  /\ Go(t, "usable")
  /\ UNCHANGED <<parameters, readers, localVars>>

-----------------------------------------------------------------------------
(* The clone and its transaction                                           *)

\* Mutant of Usable: the status is not asked.
UsableIfMade == ~IsNull(connection)

Usable == ~IsNull(connection) /\ is_status_aval(status)

\* CheckConnection goes on to its return, exec_wrap returns at once.
GiveUp(t, st) ==
  \/ stage[t] = "check" /\ Go(t, "checked") /\ UNCHANGED answer
  \/ stage[t] = "exec" /\ Return(t, st)

TestUsable(t) ==
  /\ pc[t] = "usable"
  /\ \/ /\ Usable
        /\ Go(t, "get")
        /\ UNCHANGED <<status, error, answer>>
     \/ /\ ~Usable
        /\ status' = "HAVE_ERROR" /\ error' = TRUE
        /\ GiveUp(t, "HAVE_ERROR")
  /\ UNCHANGED <<parameters, connection, made, lockVars, stage, call, calls,
                 pointer, clone, outcome, probed>>

\* db_connection_.get(), outside the lock
GetPointer(t) ==
  /\ pc[t] = "get"
  /\ pointer' = [pointer EXCEPT ![t] = connection]
  /\ Go(t, "clone")
  /\ UNCHANGED <<managerVars, lockVars, stage, call, calls, clone, outcome,
                 probed, answer>>

\* The object behind a pointer lives as long as db_connection_ owns it.
Dangling(t) == ~IsNull(pointer[t]) /\ pointer[t] # connection

\* cloneConnection: a copy of the parameters.  No pointer, no clone; from a
\* destroyed object anything may be copied.
CloneConnection(t) ==
  /\ pc[t] = "clone"
  /\ \/ /\ IsNull(pointer[t])
        /\ \/ /\ stage[t] = "check"
              /\ status' = "HAVE_ERROR" /\ error' = TRUE
           \/ stage[t] = "exec" /\ UNCHANGED <<status, error>>
        /\ GiveUp(t, "NOT")
        /\ UNCHANGED clone
     \/ /\ ~IsNull(pointer[t])
        /\ \/ Dangling(t) /\ \E p \in Params : clone' = [clone EXCEPT ![t] = p]
           \/ ~Dangling(t) /\ clone' = [clone EXCEPT ![t] = pointer[t][2]]
        /\ Go(t, "enter")
        /\ UNCHANGED <<status, error, answer>>
  /\ UNCHANGED <<parameters, connection, made, lockVars, stage, call, calls,
                 pointer, outcome, probed>>

\* tryExecuteTransaction takes the lock shared ...
Enter(t) ==
  /\ pc[t] = "enter"
  /\ writer = NoThread
  /\ readers' = readers \cup {t}
  /\ Go(t, "transact")
  /\ UNCHANGED <<managerVars, writer, localVars>>

\* ... and runs the transaction: it succeeds, it answers with an error
\* status, or an exception leaves it.
Transact(t) ==
  /\ pc[t] = "transact"
  /\ readers' = readers \ {t}
  /\ \E st \in {"OK", "NOT", "HAVE_ERROR"}, thrown \in BOOLEAN :
       /\ thrown => st = "HAVE_ERROR" /\ clone[t] \in Reachable
       /\ clone[t] \notin Reachable => st = "HAVE_ERROR"
       /\ st # "OK" /\ clone[t] \in Reachable => Flaky
       /\ st = "NOT" => stage[t] = "exec"
       /\ outcome' = [outcome EXCEPT ![t] = st]
       /\ probed' = IF stage[t] = "check" /\ st = "OK" THEN pointer[t] ELSE probed
       /\ error' = (error \/ thrown)
       /\ \/ stage[t] = "check" /\ Go(t, "store") /\ UNCHANGED answer
          \/ stage[t] = "exec" /\ Return(t, st)
  /\ UNCHANGED <<parameters, status, connection, made, writer, stage, call,
                 calls, pointer, clone>>

-----------------------------------------------------------------------------
(* The end of CheckConnection                                              *)

\* Mutant of Store: the old error stays.
StoreKeepingError(t) ==
  /\ pc[t] = "store"
  /\ status' = outcome[t]
  /\ Go(t, "close")
  /\ UNCHANGED <<parameters, error, connection, made, lockVars, localVars>>

Store(t) ==
  /\ pc[t] = "store"
  /\ status' = outcome[t]
  /\ error' = (error /\ ~is_status_aval(outcome[t]))
  /\ Go(t, "close")
  /\ UNCHANGED <<parameters, connection, made, lockVars, localVars>>

\* A connection that the transaction left open is closed outside any try:
\* its exception leaves CheckConnection, and exec_wrap as well.  It is left
\* open by an exception, and by a begin that failed over a connection that
\* was made and lost: that one is answered by the status alone.
CloseProbe(t) ==
  /\ pc[t] = "close"
  /\ \/ Go(t, "checked") /\ UNCHANGED answer
     \/ /\ outcome[t] = "HAVE_ERROR" /\ clone[t] \in Reachable
        /\ Return(t, "EXCEPTION")
  /\ UNCHANGED <<managerVars, lockVars, stage, call, calls, pointer, clone,
                 outcome, probed>>

\* return status_: whatever it is by now
Checked(t) ==
  /\ pc[t] = "checked"
  /\ \/ /\ call[t] # "exec"
        /\ Return(t, status)
        /\ UNCHANGED outcome
     \/ /\ call[t] = "exec"
        /\ outcome' = [outcome EXCEPT ![t] = status]
        /\ Go(t, "assign")
        /\ UNCHANGED answer
  /\ UNCHANGED <<managerVars, lockVars, stage, call, calls, pointer, clone,
                 probed>>

\* status_ = CheckConnection() in exec_wrap
Assign(t) ==
  /\ pc[t] = "assign"
  /\ status' = outcome[t]
  /\ stage' = [stage EXCEPT ![t] = "exec"]
  /\ Go(t, "usable")
  /\ UNCHANGED <<parameters, error, connection, made, lockVars, call, calls,
                 pointer, clone, outcome, probed, answer>>

-----------------------------------------------------------------------------
Step(t) ==
  \/ ResetStatus(t) \/ Check(t) \/ InitBegin(t) \/ InitEnd(t)
  \/ TestUsable(t) \/ GetPointer(t) \/ CloneConnection(t) \/ Enter(t)
  \/ Transact(t) \/ Store(t) \/ CloseProbe(t) \/ Checked(t) \/ Assign(t)

Next ==
  \E t \in Thread : \/ CheckConnection(t) \/ ResetConnectionParameters(t)
                    \/ exec_wrap(t) \/ Step(t)

SafeSpec == Init /\ [][Next]_vars

\* A thread inside a call keeps running, and a thread that waits for the
\* lock gets it when it stays free.  Calls are few, so that it does.
Spec == SafeSpec /\ \A t \in Thread : WF_vars(Step(t))

-----------------------------------------------------------------------------
(* Properties                                                              *)

Returned(t) == pc[t] = "idle" /\ call[t] # "none"

\* A clone is never made of a connection object that another thread has
\* replaced and so destroyed meanwhile (DBConnectionCreator::cloneConnection
\* copies through a raw pointer, outside the lock).
NoDanglingClone == \A t \in Thread : pc[t] = "clone" => ~Dangling(t)

\* No other thread has called the manager so far.
Alone(t) == \A u \in Thread \ {t} : call[u] = "none"

\* While one thread calls the manager: once it has failed, no later check or
\* operation brings it back; it takes new parameters, even where the failure
\* was a lost connection.
OnlyResetRecovers ==
  [][(\E t \in Thread : Alone(t)') /\ status = "HAVE_ERROR"
       /\ status' # "HAVE_ERROR"
       => \E t \in Thread : pc[t] = "reset"]_vars

\* A thread that has the manager to itself runs the transaction of an
\* operation over the connection object that CheckConnection was the last to
\* probe with success, and there has been no reset since: neither a status
\* that is good because an object is being made, nor an answer to the probe of
\* another object, lets an operation in.
OnlyProbedConnections ==
  \A t \in Thread :
    Alone(t) /\ pc[t] = "transact" /\ stage[t] = "exec" =>
      ~IsNull(probed) /\ pointer[t] = probed

\* A thread that has the manager to itself: a check that answers STATUS_OK
\* leaves a manager that can be used, with no old error; any other answer
\* leaves one that refuses to work.
CheckAnswerIsKept ==
  \A t \in Thread :
    Alone(t) /\ Returned(t) /\ call[t] \in {"check", "reset"} =>
      IF answer[t] = "OK"
      THEN Usable /\ ~error
      ELSE status = "HAVE_ERROR"

\* The parameters of the manager are those of its connection, as the comment
\* on parameters_ says.
ParametersInForce ==
  \A t \in Thread : pc[t] = "transact" => clone[t] = parameters

\* While a transaction runs, nobody replaces the connection it was cloned
\* from: that is what connect_init_lock_ is for.
NoReplacementUnderTransaction ==
  [][(\E t \in Thread : pc[t] = "transact") => connection' = connection]_vars

\* No thread waits for ever: not for the lock it holds, not for the others.
EveryCallReturns == \A t \in Thread : pc[t] # "idle" ~> pc[t] = "idle"
=============================================================================
