---------------------- MODULE QueryTransactionInv_proofs ----------------------
(***************************************************************************)
(* Types: every variable keeps its type and the iterator of ExecuteQueries *)
(* stays inside the transaction, for any number of clients and calls and   *)
(* for any well-formed set of transactions.                                *)
(*                                                                         *)
(* Then: IInv is inductive, and what follows from it: no call leaves a     *)
(* session behind, and the report of a call is truthful.                   *)
(*                                                                         *)
(* A step of one client changes the state of that client only, and the     *)
(* table only by rows of its own pending ones; so the invariant of the     *)
(* others is framed, and that of the client is proved action by action.    *)
(*                                                                         *)
(* Last, what a call promises: that the transactions of any set of clients *)
(* implement AtomicCalls, that a write needs a block with a save point,    *)
(* that a dry run touches nothing, and when the process may die.           *)
(***************************************************************************)
EXTENDS QueryTransactionInv, TLAPS

-----------------------------------------------------------------------------
(* The server                                                              *)

\* Changing one session keeps the server's types.
LEMMA BecomesType ==
  ASSUME ServerTypeOK, NEW c \in Client, NEW s \in SessionState,
         NEW rows \in SUBSET Row, NEW m \in SUBSET SUBSET Row,
         Becomes(c, s, rows, m)
  PROVE  /\ session' \in [Client -> SessionState]
         /\ pending' \in [Client -> SUBSET Row]
         /\ mark' \in [Client -> SUBSET SUBSET Row]
  BY DEF ServerTypeOK, Becomes

\* A failed statement keeps the server's types.
LEMMA FailsType ==
  ASSUME ServerTypeOK, NEW c \in Client, NEW reply, Fails(c, reply)
  PROVE  ServerTypeOK'
<1>1. CASE Refused(c)
  <2>1. (IF InBlock(c) THEN "failed" ELSE "idle") \in SessionState
    BY DEF SessionState
  <2>2. pending[c] \in SUBSET Row /\ mark[c] \in SUBSET SUBSET Row
    BY DEF ServerTypeOK
  <2>. QED  BY <1>1, <2>1, <2>2, BecomesType DEF Refused, ServerTypeOK
<1>2. CASE Lost(c)
  BY <1>2 DEF Lost, Becomes, ServerTypeOK, SessionState
<1>. QED  BY <1>1, <1>2 DEF Fails

\* ConnectAndBegin keeps the server's types.
LEMMA ConnectType ==
  ASSUME ServerTypeOK, NEW c \in Client, NEW reply, ConnectAndBegin(c, reply)
  PROVE  ServerTypeOK'
<1>1. CASE Fails(c, reply)
  BY <1>1, FailsType
<1>2. CASE ~Fails(c, reply)
  BY <1>2 DEF ConnectAndBegin, Becomes, ServerTypeOK, SessionState
<1>. QED  BY <1>1, <1>2

\* SavePoint keeps the server's types.
LEMMA SavePointType ==
  ASSUME ServerTypeOK, NEW c \in Client, NEW reply, SavePoint(c, reply)
  PROVE  ServerTypeOK'
<1>1. CASE Fails(c, reply)
  BY <1>1, FailsType
<1>2. CASE ~Fails(c, reply)
  <2>1. pending[c] \in SUBSET Row /\ {pending[c]} \in SUBSET SUBSET Row
    BY DEF ServerTypeOK
  <2>. QED  BY <1>2, <2>1, BecomesType DEF SavePoint, ServerTypeOK, SessionState
<1>. QED  BY <1>1, <1>2

\* A statement whose rows are rows keeps the server's types.
LEMMA StatementType ==
  ASSUME ServerTypeOK, NEW c \in Client, NEW reply, NEW rows \in SUBSET Row,
         Statement(c, rows, reply)
  PROVE  ServerTypeOK'
<1>1. CASE Fails(c, reply)
  BY <1>1, FailsType
<1>2. CASE ~Fails(c, reply)
  <2>1. pending[c] \cup rows \in SUBSET Row /\ mark[c] \in SUBSET SUBSET Row
    BY DEF ServerTypeOK
  <2>2. table \cup rows \in SUBSET Row
    BY DEF ServerTypeOK
  <2>3. CASE Becomes(c, "block", pending[c] \cup rows, mark[c])
             /\ UNCHANGED <<table, unacked>>
    BY <2>1, <2>3 DEF Becomes, ServerTypeOK, SessionState
  <2>4. CASE /\ Becomes(c, "idle", {}, {})
             /\ table' = table \cup rows
             /\ UNCHANGED unacked
    BY <2>2, <2>4 DEF Becomes, ServerTypeOK, SessionState
  <2>. QED  BY <1>2, <2>3, <2>4 DEF Statement
<1>. QED  BY <1>1, <1>2

\* RollbackTo keeps the server's types.
LEMMA RollbackType ==
  ASSUME ServerTypeOK, NEW c \in Client, NEW reply, RollbackTo(c, reply)
  PROVE  ServerTypeOK'
<1>1. CASE Fails(c, reply)
  BY <1>1, FailsType
<1>2. CASE ~Fails(c, reply)
  <2>1. UNION mark[c] \in SUBSET Row /\ mark[c] \in SUBSET SUBSET Row
    BY DEF ServerTypeOK
  <2>. QED  BY <1>2, <2>1, BecomesType DEF RollbackTo, ServerTypeOK, SessionState
<1>. QED  BY <1>1, <1>2

\* Both ends of a commit keep the server's types.
LEMMA CommitType ==
  ASSUME ServerTypeOK, NEW c \in Client,
         CommitAndDisconnect(c) \/ \E reply \in Reply : CommitFails(c, reply)
  PROVE  ServerTypeOK'
<1>1. Publishes(c) \in SUBSET Row
  BY DEF ServerTypeOK, Publishes
<1>2. table \cup Publishes(c) \in SUBSET Row
      /\ unacked \cup Publishes(c) \in SUBSET Row
  BY <1>1 DEF ServerTypeOK
<1>3. CASE CommitAndDisconnect(c)
  BY <1>2, <1>3 DEF CommitAndDisconnect, Becomes, ServerTypeOK, SessionState
<1>4. ASSUME NEW reply \in Reply, CommitFails(c, reply)
      PROVE  ServerTypeOK'
  <2>1. \/ Becomes(c, "idle", {}, {}) \/ Becomes(c, "broken", {}, {})
    BY <1>4 DEF CommitFails, Lost
  <2>2. table' \in SUBSET Row /\ unacked' \in SUBSET Row
    BY <1>2, <1>4 DEF CommitFails, Lost, ServerTypeOK
  <2>. QED  BY <2>1, <2>2 DEF Becomes, ServerTypeOK, SessionState
<1>. QED  BY <1>3, <1>4

-----------------------------------------------------------------------------
(* The client                                                              *)

ConnTypeOK ==
  /\ status \in [Client -> Status]
  /\ error \in [Client -> BOOLEAN]
  /\ connected \in [Client -> BOOLEAN]
  /\ link \in [Client -> {"none", "socket", "work"}]

LoopTypeOK ==
  /\ pc \in [Client -> {"idle", "run", "undo", "check", "destroy"}]
  /\ at \in [Client -> Nat]
  /\ performed \in [Client -> SUBSET Nat]
  /\ trStatus \in [Client -> Status]
  /\ result \in [Client -> Status \cup {"EXCEPTION"}]

\* What a well-formed transaction looks like.
LEMMA PlanFacts ==
  ASSUME NEW c \in Client, op[c] \in Op
  PROVE  /\ Plan[op[c]] \in Seq(Query)
         /\ Last(c) \in Nat /\ Last(c) >= 2
         /\ \A i \in 1..Last(c) :
              /\ Plan[op[c]][i] \in Query
              /\ Plan[op[c]][i] = "setup" <=> i = 1
              /\ Plan[op[c]][i] = "close" <=> i = Last(c)
              /\ Plan[op[c]][i] = "savepoint" => i = 2
              /\ Plan[op[c]][i] \in WritingQuery => Plan[op[c]][2] = "savepoint"
<1>1. Plan[op[c]] \in Seq(Query) /\ WellFormed(Plan[op[c]])
  BY PlanAssumption
<1>2. Len(Plan[op[c]]) \in Nat
  BY <1>1
<1>. QED  BY <1>1, <1>2 DEF WellFormed, Last

\* Setting a clone's state to values of its types keeps them.
LEMMA SetConnType ==
  ASSUME ConnTypeOK, NEW c \in Client, NEW st \in Status, NEW err \in BOOLEAN,
         NEW open \in BOOLEAN, NEW l \in {"none", "socket", "work"},
         SetConn(c, st, err, open, l)
  PROVE  ConnTypeOK'
  BY DEF ConnTypeOK, SetConn

\* exec_wrap with an answer keeps the clone's types.
LEMMA AnsweredType ==
  ASSUME ConnTypeOK, NEW c \in Client, NEW reply \in Reply, Answered(c, reply)
  PROVE  ConnTypeOK' /\ StatusAfter(c, reply) \in Status
<1>1. /\ StatusAfter(c, reply) \in Status
      /\ (error[c] \/ reply # "ok") \in BOOLEAN
      /\ connected[c] \in BOOLEAN
      /\ link[c] \in {"none", "socket", "work"}
  BY DEF StatusAfter, Status, ConnTypeOK
<1>. QED  BY <1>1, SetConnType DEF Answered

\* exec_wrap without a statement keeps the clone's types.
LEMMA UnsentType ==
  ASSUME ConnTypeOK, ServerTypeOK, NEW c \in Client, NEW empty \in BOOLEAN,
         Unsent(c, empty)
  PROVE  ConnTypeOK' /\ UnsentStatus(c) \in Status /\ ServerTypeOK'
<1>1. /\ UnsentStatus(c) \in Status
      /\ (error[c] \/ empty \/ ~dry[c]) \in BOOLEAN
      /\ connected[c] \in BOOLEAN
      /\ link[c] \in {"none", "socket", "work"}
  BY DEF UnsentStatus, Status, ConnTypeOK
<1>2. ServerTypeOK'
  BY DEF Unsent, serverVars, ServerTypeOK
<1>. QED  BY <1>1, <1>2, SetConnType DEF Unsent

\* CloseConnection keeps all types when it returns.
LEMMA CloseReturnsType ==
  ASSUME ConnTypeOK, ServerTypeOK, NEW c \in Client, CloseReturns(c)
  PROVE  ConnTypeOK' /\ ServerTypeOK'
<1>1. /\ (IF dry[c] THEN "OK" ELSE status[c]) \in Status
      /\ (error[c] /\ link[c] = "none") \in BOOLEAN
      /\ (connected[c] /\ link[c] = "none") \in BOOLEAN
  BY DEF Status, ConnTypeOK
<1>2. ConnTypeOK'
  BY <1>1, SetConnType DEF CloseReturns
<1>3. CASE link[c] = "work"
  BY <1>2, <1>3, CommitType DEF CloseReturns
<1>4. CASE link[c] # "work"
  BY <1>2, <1>4 DEF CloseReturns, serverVars, ServerTypeOK
<1>. QED  BY <1>3, <1>4

\* CloseConnection keeps all types when it throws.
LEMMA CloseThrowsType ==
  ASSUME ConnTypeOK, ServerTypeOK, NEW c \in Client, CloseThrows(c)
  PROVE  ConnTypeOK' /\ ServerTypeOK'
  BY CommitType DEF CloseThrows, connVars, ConnTypeOK

\* The end of a transaction keeps the loop's types.
LEMMA EndType ==
  ASSUME LoopTypeOK, NEW c \in Client, NEW st \in Status,
         EndTransaction(c, st)
  PROVE  /\ pc' \in [Client -> {"idle", "run", "undo", "check", "destroy"}]
         /\ result' \in [Client -> Status \cup {"EXCEPTION"}]
         /\ pc'[c] \in {"check", "destroy"}
         /\ \A d \in Client \ {c} : pc'[d] = pc[d]
  BY DEF LoopTypeOK, EndTransaction

\* An exception keeps the loop's types.
LEMMA RaisedType ==
  ASSUME LoopTypeOK, ControlOK, NEW c \in Client, Raised(c),
         UNCHANGED op, op[c] \in Op
  PROVE  LoopTypeOK' /\ ControlOK'
<1>1. "HAVE_ERROR" \in Status
  BY DEF Status
<1>. QED  BY <1>1, EndType DEF Raised, LoopTypeOK, ControlOK, Last

\* The iterator moves on only while there is a query left, and back only
\* from a query.
LEMMA ExecutedType ==
  ASSUME LoopTypeOK, ControlOK, NEW c \in Client, NEW st \in Status,
         pc[c] = "run", Executed(c, st), UNCHANGED op, op[c] \in Op
  PROVE  LoopTypeOK' /\ ControlOK'
<1>1. Last(c) \in Nat /\ at[c] \in 1..Last(c) /\ at[c] \in Nat
  BY PlanFacts DEF ControlOK, LoopTypeOK
<1>2. /\ trStatus' \in [Client -> Status]
      /\ performed' \in [Client -> SUBSET Nat]
  BY <1>1 DEF Executed, LoopTypeOK
<1>3. CASE is_status_ok(st) /\ at[c] < Last(c)
  <2>1. at' = [at EXCEPT ![c] = @ + 1] /\ UNCHANGED <<pc, result>>
    BY <1>3, <1>1 DEF Executed
  <2>2. at[c] + 1 \in 1..Last(c) /\ at[c] + 1 \in Nat
    BY <1>1, <1>3
  <2>. QED  BY <1>2, <2>1, <2>2 DEF LoopTypeOK, ControlOK, Last
<1>4. CASE is_status_ok(st) /\ at[c] = Last(c)
  <2>1. EndTransaction(c, st) /\ UNCHANGED at
    BY <1>4, <1>1 DEF Executed
  <2>. QED  BY <1>2, <2>1, EndType DEF LoopTypeOK, ControlOK, Last
<1>5. CASE ~is_status_ok(st)
  <2>1. /\ at' = [at EXCEPT ![c] = @ - 1]
        /\ pc' = [pc EXCEPT ![c] = "undo"]
        /\ UNCHANGED result
    BY <1>5 DEF Executed
  <2>2. at[c] - 1 \in 0..Last(c) /\ at[c] - 1 \in Nat
    BY <1>1
  <2>. QED  BY <1>2, <2>1, <2>2 DEF LoopTypeOK, ControlOK, Last
<1>6. at[c] < Last(c) \/ at[c] = Last(c)
  BY <1>1
<1>. QED  BY <1>3, <1>4, <1>5, <1>6

\* A step back keeps the loop's types and stays at or above the end.
LEMMA MoveBackType ==
  ASSUME LoopTypeOK, ControlOK, NEW c \in Client, pc[c] = "undo", at[c] > 0,
         MoveBack(c), UNCHANGED op, op[c] \in Op
  PROVE  LoopTypeOK' /\ ControlOK'
<1>1. at[c] - 1 \in 0..Last(c) /\ at[c] - 1 \in Nat
  BY PlanFacts DEF ControlOK, LoopTypeOK
<1>. QED  BY <1>1 DEF MoveBack, LoopTypeOK, ControlOK, Last

-----------------------------------------------------------------------------
(* Types                                                                   *)

CallTypeOK ==
  /\ alive \in BOOLEAN
  /\ calls \in [Client -> 0..MaxCalls]
  /\ op \in [Client -> Op]
  /\ dry \in [Client -> BOOLEAN]
  /\ reported \in [Client -> Status \cup {"EXCEPTION"}]

\* TypeOK falls into the types of the server, the call, the loop and the clone,
\* and the bounds of the iterator.
LEMMA TypeParts ==
  TypeOK <=> /\ ServerTypeOK /\ CallTypeOK /\ LoopTypeOK /\ ConnTypeOK
             /\ ControlOK
  BY DEF TypeOK, CallTypeOK, LoopTypeOK, ConnTypeOK

\* The same after a step.
LEMMA TypePartsNext ==
  /\ ServerTypeOK' /\ CallTypeOK' /\ LoopTypeOK' /\ ConnTypeOK'
  /\ ControlOK'
  => TypeOK'
  BY DEF TypeOK, CallTypeOK, LoopTypeOK, ConnTypeOK

\* The initial values have their types.
LEMMA InitType == Init => TypeOK /\ ControlOK
<1>. SUFFICES ASSUME Init PROVE TypeOK /\ ControlOK
  OBVIOUS
<1>1. ServerTypeOK
  BY DEF Init, ServerInit, ServerTypeOK, SessionState
<1>2. CallTypeOK
  <2>1. (CHOOSE o \in Op : TRUE) \in Op
    BY ModeAssumption
  <2>. QED  BY <2>1, ModeAssumption DEF Init, CallTypeOK, Status
<1>3. LoopTypeOK /\ ConnTypeOK /\ ControlOK
  BY DEF Init, LoopTypeOK, ConnTypeOK, ControlOK, Status
<1>. QED  BY <1>1, <1>2, <1>3, TypeParts

\* StartCall keeps all types.
LEMMA StartType ==
  ASSUME TypeOK, ControlOK, NEW c \in Client, StartCall(c)
  PROVE  TypeOK' /\ ControlOK'
<1>. USE TypeParts
<1>1. ServerTypeOK'
  BY DEF StartCall, serverVars, ServerTypeOK
<1>2. CallTypeOK'
  <2>1. calls[c] + 1 \in 0..MaxCalls
    BY ModeAssumption DEF StartCall, CallTypeOK
  <2>. QED  BY <2>1, ModeAssumption DEF StartCall, CallTypeOK
<1>3. LoopTypeOK'
  BY DEF StartCall, LoopTypeOK, Status
<1>4. ConnTypeOK'
  BY DEF StartCall, ConnTypeOK, Status
<1>5. ControlOK'
  <2>1. op'[c] \in Op /\ op' \in [Client -> Op]
    BY <1>2 DEF CallTypeOK
  <2>2. Last(c)' \in Nat /\ Last(c)' >= 2
    BY <2>1, PlanAssumption DEF WellFormed, Last
  <2>3. ASSUME NEW d \in Client, d # c
        PROVE  /\ pc'[d] = pc[d] /\ at'[d] = at[d] /\ op'[d] = op[d]
    BY <2>3 DEF StartCall, LoopTypeOK, CallTypeOK
  <2>4. pc'[c] = "run" /\ at'[c] = 1
    BY DEF StartCall, LoopTypeOK
  <2>. QED  BY <2>2, <2>3, <2>4 DEF ControlOK, Last
<1>. QED  BY <1>1, <1>2, <1>3, <1>4, <1>5, TypePartsNext

\* Every query keeps all types.
LEMMA QueryType ==
  ASSUME ServerTypeOK, CallTypeOK, LoopTypeOK, ConnTypeOK, ControlOK,
         NEW c \in Client, UNCHANGED op,
         SetupConnection(c) \/ AddSavePoint(c) \/ RunQuery(c) \/ CloseQuery(c)
  PROVE  ServerTypeOK' /\ LoopTypeOK' /\ ConnTypeOK' /\ ControlOK'
<1>. op[c] \in Op
  BY DEF CallTypeOK
<1>. /\ "OK" \in Status /\ "HAVE_ERROR" \in Status /\ "NOT" \in Status
     /\ status[c] \in Status /\ error[c] \in BOOLEAN
     /\ connected[c] \in BOOLEAN /\ link[c] \in {"none", "socket", "work"}
  BY DEF Status, ConnTypeOK
<1>1. CASE SetupConnection(c)
  <2>. pc[c] = "run"
    BY <1>1 DEF SetupConnection, Running
  <2>1. CASE /\ SetConn(c, "OK", error[c], connected[c], link[c])
             /\ UNCHANGED serverVars
             /\ Executed(c, "OK")
    BY <2>1, SetConnType, ExecutedType DEF serverVars, ServerTypeOK
  <2>2. CASE /\ ConnectAndBegin(c, "ok")
             /\ SetConn(c, "OK", error[c], TRUE, "work")
             /\ Executed(c, "OK")
    BY <2>2, SetConnType, ConnectType, ExecutedType
  <2>3. CASE /\ \E reply \in Reply \ {"ok"} : ConnectAndBegin(c, reply)
             /\ SetConn(c, "HAVE_ERROR", TRUE, TRUE, "work")
             /\ Executed(c, "HAVE_ERROR")
    BY <2>3, SetConnType, ConnectType, ExecutedType
  <2>4. CASE /\ \E l \in {"none", "socket"} :
                  SetConn(c, "HAVE_ERROR", TRUE, connected[c], l)
             /\ UNCHANGED serverVars
             /\ Executed(c, "HAVE_ERROR")
    <3>1. ConnTypeOK'
      BY <2>4, SetConnType
    <3>. QED  BY <2>4, <3>1, ExecutedType DEF serverVars, ServerTypeOK
  <2>. QED  BY <1>1, <2>1, <2>2, <2>3, <2>4 DEF SetupConnection
<1>2. CASE AddSavePoint(c)
  <2>. pc[c] = "run"
    BY <1>2 DEF AddSavePoint, Running
  <2>1. ASSUME NEW reply \in Reply, SavePoint(c, reply), Answered(c, reply),
               Executed(c, StatusAfter(c, reply))
        PROVE  ServerTypeOK' /\ LoopTypeOK' /\ ConnTypeOK' /\ ControlOK'
    BY <2>1, AnsweredType, SavePointType, ExecutedType
  <2>2. CASE Unsent(c, FALSE) /\ Executed(c, UnsentStatus(c))
    BY <2>2, UnsentType, ExecutedType
  <2>. QED  BY <1>2, <2>1, <2>2 DEF AddSavePoint
<1>3. CASE RunQuery(c)
  <2>. DEFINE rows == IF Writes(c, at[c]) THEN {RowOf(c, at[c])} ELSE {}
  <2>1. pc[c] = "run" /\ rows \in SUBSET Row
    BY <1>3 DEF RunQuery, Running, RowOf, Row, CallTypeOK, LoopTypeOK
  <2>. HIDE DEF rows
  <2>2. CASE UNCHANGED <<serverVars, connVars>> /\ Raised(c)
    BY <2>2, RaisedType DEF serverVars, connVars, ServerTypeOK, ConnTypeOK
  <2>3. ASSUME NEW empty \in BOOLEAN, Unsent(c, empty),
               Executed(c, UnsentStatus(c))
        PROVE  ServerTypeOK' /\ LoopTypeOK' /\ ConnTypeOK' /\ ControlOK'
    BY <2>1, <2>3, UnsentType, ExecutedType
  <2>4. ASSUME NEW reply \in Reply, Statement(c, rows, reply),
               Answered(c, reply), Executed(c, StatusAfter(c, reply))
        PROVE  ServerTypeOK' /\ LoopTypeOK' /\ ConnTypeOK' /\ ControlOK'
    BY <2>1, <2>4, AnsweredType, StatementType, ExecutedType
  <2>5. CASE Statement(c, rows, "ok") /\ UNCHANGED connVars /\ Raised(c)
    BY <2>1, <2>5, StatementType, RaisedType DEF connVars, ConnTypeOK
  <2>. QED  BY <1>3, <2>2, <2>3, <2>4, <2>5 DEF RunQuery, rows
<1>4. CASE CloseQuery(c)
  <2>. pc[c] = "run"
    BY <1>4 DEF CloseQuery, Running
  <2>1. CASE CloseReturns(c) /\ Executed(c, "OK")
    BY <2>1, CloseReturnsType, ExecutedType
  <2>2. CASE CloseThrows(c) /\ Raised(c)
    BY <2>2, CloseThrowsType, RaisedType
  <2>. QED  BY <1>4, <2>1, <2>2 DEF CloseQuery
<1>. QED  BY <1>1, <1>2, <1>3, <1>4

\* The rollback loop and CheckConnection's tail keep all types.
LEMMA EndingType ==
  ASSUME ServerTypeOK, CallTypeOK, LoopTypeOK, ConnTypeOK, ControlOK,
         NEW c \in Client, UNCHANGED op,
         \/ UndoSetup(c) \/ UndoSavePoint(c) \/ UndoNothing(c) \/ UndoDone(c)
         \/ CheckTail(c)
  PROVE  ServerTypeOK' /\ LoopTypeOK' /\ ConnTypeOK' /\ ControlOK'
<1>. op[c] \in Op /\ trStatus[c] \in Status
  BY DEF CallTypeOK, LoopTypeOK
<1>1. CASE UndoSetup(c)
  <2>. pc[c] = "undo" /\ at[c] > 0
    BY <1>1 DEF UndoSetup, Undoing
  <2>1. CASE CloseReturns(c) /\ MoveBack(c)
    BY <2>1, CloseReturnsType, MoveBackType
  <2>2. CASE CloseThrows(c) /\ Raised(c)
    BY <2>2, CloseThrowsType, RaisedType
  <2>. QED  BY <1>1, <2>1, <2>2 DEF UndoSetup
<1>2. CASE UndoSavePoint(c)
  <2>1. PICK reply \in Reply : RollbackTo(c, reply) /\ Answered(c, reply)
    BY <1>2 DEF UndoSavePoint
  <2>2. pc[c] = "undo" /\ at[c] > 0 /\ MoveBack(c)
    BY <1>2 DEF UndoSavePoint, Undoing
  <2>. QED  BY <2>1, <2>2, RollbackType, AnsweredType, MoveBackType
<1>3. CASE UndoNothing(c)
  <2>1. pc[c] = "undo" /\ at[c] > 0 /\ MoveBack(c)
    BY <1>3 DEF UndoNothing
  <2>2. ServerTypeOK' /\ ConnTypeOK'
    BY <1>3 DEF UndoNothing, serverVars, connVars, ServerTypeOK, ConnTypeOK
  <2>. QED  BY <2>1, <2>2, MoveBackType
<1>4. CASE UndoDone(c)
  <2>1. ServerTypeOK' /\ ConnTypeOK'
    BY <1>4 DEF UndoDone, serverVars, connVars, ServerTypeOK, ConnTypeOK
  <2>2. EndTransaction(c, trStatus[c]) /\ UNCHANGED <<at, performed, trStatus>>
    BY <1>4 DEF UndoDone
  <2>. QED  BY <2>1, <2>2, EndType DEF LoopTypeOK, ControlOK, Last
<1>5. CASE CheckTail(c)
  <2>1. LoopTypeOK' /\ ControlOK'
    BY <1>5 DEF CheckTail, LoopTypeOK, ControlOK, Last
  <2>2. CASE UNCHANGED <<serverVars, connVars>>
    BY <2>1, <2>2 DEF serverVars, connVars, ServerTypeOK, ConnTypeOK
  <2>3. CASE CloseReturns(c) \/ CloseThrows(c)
    BY <2>1, <2>3, CloseReturnsType, CloseThrowsType
  <2>. QED  BY <1>5, <2>2, <2>3 DEF CheckTail
<1>. QED  BY <1>1, <1>2, <1>3, <1>4, <1>5

\* DestroyClone keeps all types.
LEMMA DestroyType ==
  ASSUME TypeOK, ControlOK, NEW c \in Client, DestroyClone(c)
  PROVE  TypeOK' /\ ControlOK'
<1>1. ServerTypeOK' /\ ConnTypeOK'
  BY TypeParts, CloseReturnsType, CloseThrowsType DEF DestroyClone
<1>2. CallTypeOK' /\ LoopTypeOK' /\ ControlOK'
  BY TypeParts DEF DestroyClone, CallTypeOK, LoopTypeOK, ControlOK, Last
<1>. QED  BY <1>1, <1>2, TypePartsNext

\* Every step keeps all types.
LEMMA TypeStep == TypeOK /\ ControlOK /\ [Next]_vars => TypeOK' /\ ControlOK'
<1>. SUFFICES ASSUME TypeOK, ControlOK, [Next]_vars
              PROVE  TypeOK' /\ ControlOK'
  OBVIOUS
<1>1. ASSUME NEW c \in Client, StartCall(c) PROVE TypeOK' /\ ControlOK'
  BY <1>1, StartType
<1>2. ASSUME NEW c \in Client, InCall(c) PROVE TypeOK' /\ ControlOK'
  <2>1. CASE DestroyClone(c)
    BY <2>1, DestroyType
  <2>2. CASE UNCHANGED callVars /\ ~DestroyClone(c)
    <3>1. CallTypeOK' /\ UNCHANGED op
      BY <2>2, TypeParts DEF callVars, CallTypeOK
    <3>2. ServerTypeOK' /\ LoopTypeOK' /\ ConnTypeOK' /\ ControlOK'
      BY <1>2, <2>2, <3>1, TypeParts, QueryType, EndingType DEF InCall
    <3>. QED  BY <3>1, <3>2, TypePartsNext
  <2>. QED  BY <1>2, <2>1, <2>2 DEF InCall
<1>3. CASE UNCHANGED vars
  BY <1>3 DEF vars, serverVars, callVars, loopVars, connVars, TypeOK,
              ServerTypeOK, ControlOK, Last
<1>. QED  BY <1>1, <1>2, <1>3 DEF Next

\* Every value a variable takes is one that TypeOK allows: in particular the
\* iterator of ExecuteQueries never leaves the transaction at either end.
THEOREM TypeCorrect == SafeSpec => []TypeOK
<1>1. Init => TypeOK /\ ControlOK
  BY InitType
<1>2. TypeOK /\ ControlOK /\ [Next]_vars => (TypeOK /\ ControlOK)'
  BY TypeStep
<1>. QED  BY <1>1, <1>2, PTL DEF SafeSpec

-----------------------------------------------------------------------------
(* The rows of a call                                                      *)

\* Which rows a call can have: none before its first write, none in a dry
\* run, none without a save point.
LEMMA RowFacts ==
  ASSUME NEW c \in Client, op[c] \in Op
  PROVE  /\ RowsBefore(c, 1) = {} /\ RowsBefore(c, 2) = {}
         /\ dry[c] => CallRows(c) = {}
         /\ ~HasSavePoint(c) => CallRows(c) = {}
         /\ IsCheck(c) => CallRows(c) = {}
         /\ \A r \in CallRows(c) : r[1] = c /\ r[2] = calls[c]
<1>. DEFINE p == Plan[op[c]]
<1>1. Last(c) \in Nat /\ Last(c) >= 2
  BY PlanFacts
<1>2. p[1] = "setup" /\ "setup" \notin WritingQuery
  BY <1>1, PlanFacts DEF WritingQuery
<1>3. \A i \in 1..Last(c) : p[i] \in WritingQuery => p[2] = "savepoint"
  BY PlanFacts
<1>4. ~Writes(c, 1)
  BY <1>2 DEF Writes
<1>5. 1..(1 - 1) = {} /\ 1..(2 - 1) = {1}
  OBVIOUS
<1>6. RowsBefore(c, 1) = {} /\ RowsBefore(c, 2) = {}
  BY <1>4, <1>5 DEF RowsBefore
<1>7. dry[c] => CallRows(c) = {}
  BY DEF CallRows, RowsBefore, Writes
<1>8. ~HasSavePoint(c) => CallRows(c) = {}
  BY <1>1, <1>3 DEF CallRows, RowsBefore, Writes, HasSavePoint
<1>9. IsCheck(c) => CallRows(c) = {}
  <2>1. IsCheck(c) => Last(c) = 2
    BY DEF IsCheck, Last
  <2>. QED  BY <2>1, <1>6 DEF CallRows
<1>10. \A r \in CallRows(c) : r[1] = c /\ r[2] = calls[c]
  BY DEF CallRows, RowsBefore, RowOf
<1>. QED  BY <1>6, <1>7, <1>8, <1>9, <1>10

\* Passing one more query adds that query's row and no other.
LEMMA RowsGrow ==
  ASSUME NEW c \in Client, op[c] \in Op, NEW k \in 1..Last(c)
  PROVE  /\ RowsBefore(c, k) \subseteq CallRows(c)
         /\ k < Last(c) =>
              RowsBefore(c, k + 1) =
                RowsBefore(c, k)
                  \cup (IF Writes(c, k) THEN {RowOf(c, k)} ELSE {})
<1>1. Last(c) \in Nat /\ Last(c) >= 2
  BY PlanFacts
<1>2. 1..(k - 1) \subseteq 1..(Last(c) - 1)
  BY <1>1
<1>3. 1..((k + 1) - 1) = 1..(k - 1) \cup {k}
  BY <1>1
<1>4. RowsBefore(c, k) \subseteq CallRows(c)
  BY <1>2 DEF CallRows, RowsBefore
<1>5. RowsBefore(c, k + 1) = RowsBefore(c, k)
                       \cup (IF Writes(c, k) THEN {RowOf(c, k)} ELSE {})
  BY <1>3, Zenon DEF RowsBefore
<1>. QED  BY <1>4, <1>5

-----------------------------------------------------------------------------
(* What the server does to the session of the client and to the table      *)

ServerOthers(c) ==
  \A d \in Client \ {c} : /\ session'[d] = session[d]
                          /\ pending'[d] = pending[d]
                          /\ mark'[d] = mark[d]

\* Only an open block holds rows, before and after a step.
Held(c) == ~InBlock(c) => pending[c] = {} /\ mark[c] = {}

\* What Becomes leaves alone, and that it keeps Held.
LEMMA BecomesEffect ==
  ASSUME ServerTypeOK, NEW c \in Client, NEW s, NEW rows, NEW m,
         Becomes(c, s, rows, m)
  PROVE  /\ session'[c] = s /\ pending'[c] = rows /\ mark'[c] = m
         /\ ServerOthers(c)
  BY DEF Becomes, ServerTypeOK, ServerOthers

\* A failed statement publishes nothing and leaves no good block; a block
\* that stays open keeps what it holds.
FailEffect(c) ==
  /\ ServerOthers(c) /\ UNCHANGED <<table, unacked>>
  /\ session'[c] \in {"failed", "idle", "broken"}
  /\ session'[c] = "failed" => /\ InBlock(c)
                               /\ pending'[c] = pending[c]
                               /\ mark'[c] = mark[c]
  /\ session'[c] # "failed" => pending'[c] = {} /\ mark'[c] = {}

\* A failed statement publishes nothing, and loses or fails an open block.
LEMMA FailsEffect ==
  ASSUME ServerTypeOK, NEW c \in Client, NEW reply, Fails(c, reply), Held(c)
  PROVE  FailEffect(c) /\ reply # "ok"
<1>. reply # "ok"
  BY DEF Fails
<1>1. CASE Lost(c)
  BY <1>1, BecomesEffect DEF Lost, FailEffect
<1>2. CASE Refused(c)
  <2>1. /\ session'[c] = IF InBlock(c) THEN "failed" ELSE "idle"
        /\ pending'[c] = pending[c] /\ mark'[c] = mark[c]
        /\ ServerOthers(c)
    BY <1>2, BecomesEffect DEF Refused
  <2>. QED  BY <1>2, <2>1 DEF Refused, FailEffect, Held
<1>. QED  BY <1>1, <1>2 DEF Fails

\* A new connection has an empty block, or none.
LEMMA ConnectEffect ==
  ASSUME ServerTypeOK, NEW c \in Client, NEW reply, Held(c),
         ConnectAndBegin(c, reply)
  PROVE  /\ session[c] = "none"
         /\ \/ FailEffect(c) /\ reply # "ok"
            \/ /\ reply = "ok" /\ ServerOthers(c) /\ UNCHANGED <<table, unacked>>
               /\ session'[c] = "block" /\ pending'[c] = {} /\ mark'[c] = {}
  BY FailsEffect, BecomesEffect DEF ConnectAndBegin

\* A save point marks the rows that are pending.
LEMMA SavePointEffect ==
  ASSUME ServerTypeOK, NEW c \in Client, NEW reply, Held(c),
         SavePoint(c, reply)
  PROVE  \/ FailEffect(c) /\ reply # "ok"
         \/ /\ reply = "ok" /\ ServerOthers(c) /\ UNCHANGED <<table, unacked>>
            /\ session[c] = "block" /\ session'[c] = "block"
            /\ pending'[c] = pending[c] /\ mark'[c] = {pending[c]}
  BY FailsEffect, BecomesEffect DEF SavePoint

\* A statement in a block adds its rows to the pending ones.
LEMMA StatementEffect ==
  ASSUME ServerTypeOK, NEW c \in Client, NEW reply, NEW rows, Held(c),
         session[c] = "block", Statement(c, rows, reply)
  PROVE  \/ FailEffect(c) /\ reply # "ok"
         \/ /\ reply = "ok" /\ ServerOthers(c) /\ UNCHANGED <<table, unacked>>
            /\ session'[c] = "block"
            /\ pending'[c] = pending[c] \cup rows /\ mark'[c] = mark[c]
  BY FailsEffect, BecomesEffect DEF Statement, Reached

\* A rollback to the save point drops the rows that came after it.
LEMMA RollbackEffect ==
  ASSUME ServerTypeOK, NEW c \in Client, NEW reply, Held(c),
         RollbackTo(c, reply)
  PROVE  \/ FailEffect(c) /\ reply # "ok"
         \/ /\ reply = "ok" /\ ServerOthers(c) /\ UNCHANGED <<table, unacked>>
            /\ InBlock(c) /\ session'[c] = "block"
            /\ pending'[c] = UNION mark[c] /\ mark'[c] = mark[c]
  BY FailsEffect, BecomesEffect DEF RollbackTo

\* A commit that is answered publishes the pending rows of its own block.
LEMMA CommitEffect ==
  ASSUME ServerTypeOK, NEW c \in Client, CommitAndDisconnect(c)
  PROVE  /\ ServerOthers(c) /\ UNCHANGED unacked
         /\ session'[c] = "none" /\ pending'[c] = {} /\ mark'[c] = {}
         /\ table' = table \cup Publishes(c)
  BY BecomesEffect DEF CommitAndDisconnect

\* A commit that throws publishes all of the pending rows, unacknowledged, or
\* none of them.
LEMMA CommitFailsEffect ==
  ASSUME ServerTypeOK, NEW c \in Client, NEW reply, CommitFails(c, reply)
  PROVE  /\ ServerOthers(c)
         /\ session'[c] \in {"idle", "broken"}
         /\ pending'[c] = {} /\ mark'[c] = {}
         /\ \/ UNCHANGED <<table, unacked>>
            \/ /\ table' = table \cup Publishes(c)
               /\ unacked' = unacked \cup Publishes(c)
               /\ Publishes(c) # {}
<1>1. \/ Becomes(c, "idle", {}, {}) \/ Becomes(c, "broken", {}, {})
  BY DEF CommitFails, Lost
<1>2. /\ ServerOthers(c)
      /\ session'[c] \in {"idle", "broken"}
      /\ pending'[c] = {} /\ mark'[c] = {}
  BY <1>1, BecomesEffect
<1>. QED  BY <1>2 DEF CommitFails, Lost

-----------------------------------------------------------------------------
(* The frame: what a step of c leaves alone                                *)

LoopOthers(c) ==
  \A d \in Client \ {c} :
    /\ pc'[d] = pc[d] /\ at'[d] = at[d] /\ performed'[d] = performed[d]
    /\ trStatus'[d] = trStatus[d] /\ result'[d] = result[d]

CallOthers(c) ==
  \A d \in Client \ {c} :
    /\ calls'[d] = calls[d] /\ op'[d] = op[d] /\ dry'[d] = dry[d]
    /\ reported'[d] = reported[d]

LinkOthers(c) == \A d \in Client \ {c} : link'[d] = link[d]

\* The table grows by rows that c had pending.
Grows(c) ==
  /\ table \subseteq table' /\ unacked \subseteq unacked'
  /\ \A r \in table' \ table : r \in pending[c]

Frame(c) == /\ ServerOthers(c) /\ LoopOthers(c) /\ CallOthers(c)
            /\ LinkOthers(c) /\ Grows(c)

\* A client's step changes no row of another client's call.
LEMMA FrameRows ==
  ASSUME NEW d \in Client,
         calls'[d] = calls[d], op'[d] = op[d], dry'[d] = dry[d]
  PROVE  /\ \A k : RowsBefore(d, k)' = RowsBefore(d, k)
         /\ CallRows(d)' = CallRows(d) /\ Last(d)' = Last(d)
         /\ HasSavePoint(d)' = HasSavePoint(d) /\ IsCheck(d)' = IsCheck(d)
<1>1. ASSUME NEW k PROVE RowsBefore(d, k)' = RowsBefore(d, k)
  BY DEF RowsBefore, RowOf, Writes
<1>2. Last(d)' = Last(d) /\ HasSavePoint(d)' = HasSavePoint(d)
      /\ IsCheck(d)' = IsCheck(d)
  BY DEF Last, HasSavePoint, IsCheck
<1>3. CallRows(d)' = CallRows(d)
  BY <1>2 DEF CallRows, RowsBefore, RowOf, Writes
<1>. QED  BY <1>1, <1>2, <1>3

\* A client's step keeps the invariant of another client.
LEMMA FrameInv ==
  ASSUME NEW c \in Client, NEW d \in Client \ {c}, Frame(c),
         op \in [Client -> Op], Block(c), CallInv(d)
  PROVE  CallInv(d)'
<1>1. \A r \in table' \ table : r[1] # d
  BY RowFacts DEF Frame, Grows, Block
<1>2. /\ CallRows(d)' = CallRows(d) /\ Last(d)' = Last(d)
      /\ HasSavePoint(d)' = HasSavePoint(d)
      /\ \A k : RowsBefore(d, k)' = RowsBefore(d, k)
  BY FrameRows DEF Frame, CallOthers
<1>3. \A r \in CallRows(d) : r[1] = d
  BY RowFacts
<1>4. /\ session'[d] = session[d] /\ pending'[d] = pending[d]
      /\ mark'[d] = mark[d] /\ link'[d] = link[d]
      /\ pc'[d] = pc[d] /\ at'[d] = at[d] /\ performed'[d] = performed[d]
      /\ trStatus'[d] = trStatus[d] /\ result'[d] = result[d]
      /\ calls'[d] = calls[d] /\ dry'[d] = dry[d]
      /\ reported'[d] = reported[d]
  BY DEF Frame, ServerOthers, LoopOthers, CallOthers, LinkOthers
<1>5. LinkInv(d)' /\ Block(d)' /\ Fresh(d)'
  BY <1>1, <1>2, <1>4 DEF CallInv, LinkInv, Block, Fresh, InBlock
<1>6. /\ NothingYet(d)' <=> NothingYet(d)
      /\ \A st : Verdict(d, st) => Verdict(d, st)'
      /\ NothingOpen(d)' <=> NothingOpen(d)
      /\ InBlock(d)' <=> InBlock(d)
  BY <1>1, <1>2, <1>3, <1>4
     DEF NothingYet, Verdict, NothingOpen, InBlock, Frame, Grows
<1>7. AtRest(d)' /\ Finishing(d)'
  BY <1>1, <1>2, <1>3, <1>4
     DEF CallInv, AtRest, Finishing, Verdict, NothingYet, NothingOpen,
         Frame, Grows
<1>8. Advancing(d)'
  BY <1>2, <1>4, <1>6 DEF CallInv, Advancing
<1>9. Retreating(d)'
  BY <1>2, <1>4, <1>6 DEF CallInv, Retreating, is_status_ok
<1>. QED  BY <1>5, <1>7, <1>8, <1>9 DEF CallInv

\* The loops of ExecuteQueries change the loop variables of their own call.
LEMMA LoopFrame ==
  ASSUME LoopTypeOK, NEW c \in Client,
         \/ \E st \in Status : Executed(c, st)
         \/ Raised(c) \/ MoveBack(c)
         \/ \E st \in Status : EndTransaction(c, st)
                               /\ UNCHANGED <<at, performed, trStatus>>
  PROVE  LoopOthers(c)
  BY DEF LoopTypeOK, Executed, Raised, MoveBack, EndTransaction, LoopOthers

\* Setting a clone's state changes no other clone.
LEMMA SetConnLink ==
  ASSUME ConnTypeOK, NEW c \in Client, NEW st, NEW err, NEW open, NEW l,
         SetConn(c, st, err, open, l)
  PROVE  LinkOthers(c) /\ link'[c] = l
  BY DEF ConnTypeOK, SetConn, LinkOthers

\* Rows of a call that has begun are no rows of a call to come.
LEMMA FreshStays ==
  ASSUME NEW c \in Client, op[c] \in Op, Fresh(c), Block(c), Grows(c),
         calls[c] \in Nat, calls'[c] = calls[c]
  PROVE  Fresh(c)'
<1>1. \A r \in pending[c] : r[2] = calls[c]
  BY RowFacts DEF Block
<1>2. ASSUME NEW r \in table', r[1] = c PROVE r[2] <= calls'[c]
  <2>1. CASE r \in table
    BY <1>2, <2>1 DEF Fresh
  <2>2. CASE r \notin table
    <3>1. r[2] = calls[c]
      BY <1>1, <2>2 DEF Grows
    <3>. QED  BY <3>1
  <2>. QED  BY <2>1, <2>2
<1>. QED  BY <1>2 DEF Fresh

-----------------------------------------------------------------------------
(* The end of the transaction, and the loop                                *)

Solid(c) ==
  /\ link[c] = "work" <=> session[c] # "none"
  /\ Block(c) /\ Fresh(c)

\* A transaction that ends with a true verdict and nothing open may finish.
LEMMA EndInv ==
  ASSUME LoopTypeOK, NEW c \in Client, NEW st, EndTransaction(c, st),
         UNCHANGED callVars, op[c] \in Op,
         Solid(c)', NothingOpen(c)', Verdict(c, st)'
  PROVE  CallInv(c)'
<1>1. /\ pc'[c] = IF IsCheck(c) THEN "check" ELSE "destroy"
      /\ result'[c] = st
  BY DEF EndTransaction, LoopTypeOK
<1>2. CallRows(c)' = CallRows(c) /\ (IsCheck(c) => CallRows(c) = {})
  BY RowFacts, FrameRows DEF callVars
<1>3. Finishing(c)'
  BY <1>1, <1>2 DEF Finishing, Verdict, NothingYet, NothingOpen
<1>. QED  BY <1>1, <1>3 DEF CallInv, LinkInv, Solid, AtRest, Advancing, Retreating

\* What a query that has just answered must have left, for the loop to go on.
ReadyToAdvance(c, k) ==
  /\ NothingYet(c)
  /\ ~dry[c] => /\ session[c] = "block" /\ pending[c] = RowsBefore(c, k)
                /\ k > 2 /\ HasSavePoint(c) => mark[c] = {{}}

\* What a failed query must have left, for the rollback loop to begin at k.
ReadyToRetreat(c, k) ==
  /\ NothingYet(c)
  /\ k < 2 => NothingOpen(c)
  /\ k >= 2 /\ HasSavePoint(c) /\ InBlock(c) => mark[c] = {{}}

\* The three ways a query can end: the next one, the end, the rollback loop.
LEMMA ExecutedInv ==
  ASSUME LoopTypeOK, ControlOK, NEW c \in Client, NEW st \in Status,
         NEW k \in Nat, at[c] = k, pc[c] = "run", Advancing(c),
         Executed(c, st), UNCHANGED callVars, op[c] \in Op, Solid(c)',
         st = "OK" /\ k < Last(c) => ReadyToAdvance(c, k + 1)',
         st = "OK" /\ k = Last(c) => NothingOpen(c)' /\ Verdict(c, "OK")',
         st # "OK" => k < Last(c) /\ ReadyToRetreat(c, k - 1)'
  PROVE  CallInv(c)'
<1>1. Last(c) \in Nat /\ k \in 1..Last(c)
  BY PlanFacts DEF ControlOK
<1>2. Last(c)' = Last(c) /\ HasSavePoint(c)' = HasSavePoint(c)
  BY FrameRows DEF callVars
<1>3. \A i \in 1..Last(c) : i < k => i \in performed[c]
  BY DEF Advancing
<1>4. k < Last(c) => k \in performed'[c]
  <2>1. k < Last(c) => Current(c) # "close"
    BY <1>1, PlanFacts DEF Current
  <2>. QED  BY <2>1 DEF Executed, LoopTypeOK
<1>5. \A i \in 1..Last(c) : i \in performed[c] => i \in performed'[c]
  BY DEF Executed, LoopTypeOK
<1>6. CASE st = "OK" /\ k < Last(c)
  <2>1. pc'[c] = "run" /\ at'[c] = k + 1
    BY <1>1, <1>6 DEF Executed, is_status_ok, LoopTypeOK
  <2>2. \A i \in 1..Last(c) : i < k + 1 => i \in performed'[c]
    BY <1>1, <1>3, <1>4, <1>5, <1>6
  <2>3. Advancing(c)'
    BY <1>1, <1>2, <1>6, <2>1, <2>2 DEF Advancing, ReadyToAdvance
  <2>4. LinkInv(c)'
    BY <1>1, <2>1 DEF LinkInv, Solid
  <2>. QED  BY <2>1, <2>3, <2>4 DEF CallInv, Solid, AtRest, Retreating, Finishing
<1>7. CASE st = "OK" /\ k = Last(c)
  <2>1. EndTransaction(c, st)
    BY <1>1, <1>7 DEF Executed, is_status_ok
  <2>. QED  BY <1>7, <2>1, EndInv
<1>8. CASE st # "OK"
  <2>1. pc'[c] = "undo" /\ at'[c] = k - 1 /\ trStatus'[c] = st
    BY <1>8 DEF Executed, is_status_ok, LoopTypeOK
  <2>2. \A i \in 1..Last(c) : i <= k - 1 => i \in performed'[c]
    BY <1>1, <1>3, <1>5
  <2>3. Retreating(c)'
    BY <1>1, <1>2, <1>8, <2>1, <2>2 DEF Retreating, ReadyToRetreat, is_status_ok
  <2>. QED  BY <2>1, <2>3 DEF CallInv, LinkInv, Solid, AtRest, Advancing, Finishing
<1>. QED  BY <1>1, <1>6, <1>7, <1>8

\* One step of the rollback loop, at k.
LEMMA MoveBackInv ==
  ASSUME LoopTypeOK, ControlOK, NEW c \in Client, NEW k \in Nat \ {0},
         at[c] = k, pc[c] = "undo", Retreating(c), MoveBack(c),
         UNCHANGED callVars, op[c] \in Op, Solid(c)',
         ReadyToRetreat(c, k - 1)'
  PROVE  CallInv(c)'
<1>1. Last(c) \in Nat /\ k \in 1..Last(c)
  BY PlanFacts DEF ControlOK
<1>2. Last(c)' = Last(c) /\ HasSavePoint(c)' = HasSavePoint(c)
  BY FrameRows DEF callVars
<1>3. /\ pc'[c] = "undo" /\ at'[c] = k - 1
      /\ trStatus'[c] = trStatus[c] /\ performed'[c] = performed[c]
  BY DEF MoveBack, LoopTypeOK
<1>4. Retreating(c)'
  BY <1>1, <1>2, <1>3 DEF Retreating, ReadyToRetreat, is_status_ok
<1>. QED  BY <1>3, <1>4 DEF CallInv, LinkInv, Solid, AtRest, Advancing, Finishing

-----------------------------------------------------------------------------
(* The queries                                                             *)

\* Where a query or an undo step starts from.
Now(c) == /\ ServerTypeOK /\ CallTypeOK /\ LoopTypeOK /\ ConnTypeOK
          /\ ControlOK /\ CallInv(c) /\ op[c] \in Op /\ calls[c] \in Nat
          /\ Last(c) \in Nat /\ Last(c) >= 2 /\ at[c] \in Nat
          /\ UNCHANGED callVars

\* A step that commits nothing.
LEMMA QuietTable ==
  ASSUME NEW c \in Client, Now(c), UNCHANGED <<table, unacked>>
  PROVE  /\ Grows(c) /\ Fresh(c)'
         /\ NothingYet(c)' = NothingYet(c)
         /\ CallRows(c)' = CallRows(c) /\ HasSavePoint(c)' = HasSavePoint(c)
         /\ dry'[c] = dry[c]
<1>1. Grows(c)
  BY DEF Grows
<1>2. CallRows(c)' = CallRows(c) /\ HasSavePoint(c)' = HasSavePoint(c)
  BY FrameRows DEF Now, callVars
<1>3. NothingYet(c)' = NothingYet(c)
  BY <1>2 DEF NothingYet
<1>4. Fresh(c)'
  BY DEF Now, CallInv, Fresh, callVars
<1>. QED  BY <1>1, <1>2, <1>3, <1>4 DEF Now, callVars

\* A failed statement of a real run keeps the client's state solid.
LEMMA FailSolid ==
  ASSUME NEW c \in Client, Now(c), FailEffect(c), link'[c] = "work", ~dry[c]
  PROVE  Solid(c)'
<1>1. /\ Fresh(c)' /\ CallRows(c)' = CallRows(c) /\ dry'[c] = dry[c]
  BY QuietTable DEF FailEffect
<1>2. InBlock(c)' <=> session'[c] \in {"block", "failed"}
  BY DEF InBlock
<1>3. Block(c)'
  BY <1>1, <1>2 DEF Block, FailEffect, Now, CallInv
<1>. QED  BY <1>1, <1>3 DEF Solid, FailEffect

\* The steps inside a call have the frame that FrameInv asks for.
LEMMA FrameFrom ==
  ASSUME NEW c \in Client, Now(c), ServerOthers(c), LoopOthers(c),
         LinkOthers(c), Grows(c)
  PROVE  Frame(c)
  BY DEF Frame, CallOthers, Now, callVars

\* SetupConnection keeps the invariant.
LEMMA SetupInv ==
  ASSUME NEW c \in Client, Now(c), SetupConnection(c)
  PROVE  CallInv(c)' /\ Frame(c)
<1>. /\ "OK" \in Status /\ "HAVE_ERROR" \in Status
     /\ 1 \in Nat /\ 2 = 1 + 1 /\ 0 = 1 - 1
  BY DEF Status
<1>1. pc[c] = "run" /\ at[c] = 1
  <2>1. pc[c] = "run" /\ Current(c) = "setup" /\ at[c] \in 1..Last(c)
    BY DEF SetupConnection, Running, Now, ControlOK
  <2>. QED  BY <2>1, PlanFacts DEF Current, Now
<1>2. /\ Advancing(c) /\ LinkInv(c) /\ NothingYet(c) /\ Held(c)
      /\ link[c] # "work" /\ session[c] = "none"
      /\ pending[c] = {} /\ mark[c] = {}
  BY <1>1 DEF Now, CallInv, Advancing, LinkInv, Block, Held, InBlock
<1>3. RowsBefore(c, 2) = {} /\ RowsBefore(c, 2)' = {}
  <2>1. RowsBefore(c, 2)' = RowsBefore(c, 2)
    BY FrameRows DEF Now, callVars
  <2>. QED  BY <2>1, RowFacts DEF Now
<1>4. CASE /\ dry[c]
           /\ SetConn(c, "OK", error[c], connected[c], link[c])
           /\ UNCHANGED serverVars
           /\ Executed(c, "OK")
  <2>1. /\ link'[c] = link[c] /\ LinkOthers(c) /\ LoopOthers(c)
        /\ ServerOthers(c) /\ UNCHANGED <<table, unacked>>
        /\ session'[c] = session[c] /\ pending'[c] = {} /\ mark'[c] = {}
    BY <1>2, <1>4, SetConnLink, LoopFrame DEF Now, serverVars, ServerOthers
  <2>2. Solid(c)' /\ NothingYet(c)' /\ Grows(c) /\ dry'[c]
    BY <1>2, <1>4, <2>1, QuietTable DEF Solid, Block, Now, CallInv
  <2>3. CallInv(c)'
    BY <1>1, <1>2, <1>4, <2>2, ExecutedInv DEF Now, ReadyToAdvance
  <2>. QED  BY <2>1, <2>2, <2>3, FrameFrom
<1>5. CASE /\ ~dry[c]
           /\ ConnectAndBegin(c, "ok")
           /\ SetConn(c, "OK", error[c], TRUE, "work")
           /\ Executed(c, "OK")
  <2>1. /\ link'[c] = "work" /\ LinkOthers(c) /\ LoopOthers(c)
        /\ ServerOthers(c) /\ UNCHANGED <<table, unacked>>
        /\ session'[c] = "block" /\ pending'[c] = {} /\ mark'[c] = {}
    <3>1. link'[c] = "work" /\ LinkOthers(c)
      BY <1>5 DEF Now, SetConn, ConnTypeOK, LinkOthers
    <3>. QED  BY <1>2, <1>5, <3>1, LoopFrame, ConnectEffect DEF Now
  <2>2. Solid(c)' /\ NothingYet(c)' /\ Grows(c)
    BY <1>2, <1>5, <2>1, QuietTable DEF Solid, Block, InBlock
  <2>3. ReadyToAdvance(c, 2)'
    BY <1>3, <2>1, <2>2 DEF ReadyToAdvance
  <2>4. CallInv(c)'
    BY <1>1, <1>2, <1>5, <2>2, <2>3, ExecutedInv DEF Now
  <2>. QED  BY <2>1, <2>2, <2>4, FrameFrom
<1>6. CASE /\ ~dry[c]
           /\ \E reply \in Reply \ {"ok"} : ConnectAndBegin(c, reply)
           /\ SetConn(c, "HAVE_ERROR", TRUE, TRUE, "work")
           /\ Executed(c, "HAVE_ERROR")
  <2>1. /\ link'[c] = "work" /\ LinkOthers(c) /\ LoopOthers(c) /\ FailEffect(c)
    <3>1. link'[c] = "work" /\ LinkOthers(c)
      BY <1>6 DEF Now, SetConn, ConnTypeOK, LinkOthers
    <3>. QED  BY <1>2, <1>6, <3>1, LoopFrame, ConnectEffect DEF Now
  <2>2. Solid(c)' /\ NothingYet(c)' /\ Grows(c) /\ session'[c] # "block"
    BY <1>2, <1>6, <2>1, FailSolid, QuietTable DEF FailEffect
  <2>3. ReadyToRetreat(c, 0)'
    BY <2>2 DEF ReadyToRetreat, NothingOpen
  <2>4. CallInv(c)'
    BY <1>1, <1>2, <1>6, <2>2, <2>3, ExecutedInv DEF Now
  <2>. QED  BY <2>1, <2>2, <2>4, FrameFrom DEF FailEffect
<1>7. CASE /\ ~dry[c]
           /\ \E l \in {"none", "socket"} :
                SetConn(c, "HAVE_ERROR", TRUE, connected[c], l)
           /\ UNCHANGED serverVars
           /\ Executed(c, "HAVE_ERROR")
  <2>1. /\ link'[c] # "work" /\ LinkOthers(c) /\ LoopOthers(c)
        /\ ServerOthers(c) /\ UNCHANGED <<table, unacked>>
        /\ session'[c] = "none" /\ pending'[c] = {} /\ mark'[c] = {}
    <3>1. LinkOthers(c) /\ link'[c] # "work"
      BY <1>7, SetConnLink DEF Now
    <3>. QED  BY <1>2, <1>7, <3>1, LoopFrame DEF Now, serverVars, ServerOthers
  <2>2. Solid(c)' /\ NothingYet(c)' /\ Grows(c)
    BY <1>2, <1>7, <2>1, QuietTable DEF Solid, Block
  <2>3. ReadyToRetreat(c, 0)'
    BY <2>1, <2>2 DEF ReadyToRetreat, NothingOpen
  <2>4. CallInv(c)'
    BY <1>1, <1>2, <1>7, <2>2, <2>3, ExecutedInv DEF Now
  <2>. QED  BY <2>1, <2>2, <2>4, FrameFrom
<1>. QED  BY <1>4, <1>5, <1>6, <1>7 DEF SetupConnection

\* Inside a transaction that runs, a link means a real run with an open block.
LEMMA RunFacts ==
  ASSUME NEW c \in Client, Now(c), pc[c] = "run", at[c] > 1
  PROVE  /\ Advancing(c) /\ NothingYet(c) /\ Held(c)
         /\ link[c] = "work" <=> ~dry[c]
         /\ ~dry[c] => /\ session[c] = "block"
                       /\ pending[c] = RowsBefore(c, at[c])
                       /\ at[c] > 2 /\ HasSavePoint(c) => mark[c] = {{}}
         /\ dry[c] => session[c] = "none" /\ pending[c] = {}
         /\ dry[c] => CallRows(c) = {}
  BY RowFacts DEF Now, CallInv, Advancing, LinkInv, Block, Held, InBlock

\* AddSavePoint keeps the invariant.
LEMMA SavePointInv ==
  ASSUME NEW c \in Client, Now(c), AddSavePoint(c)
  PROVE  CallInv(c)' /\ Frame(c)
<1>. /\ "OK" \in Status /\ "HAVE_ERROR" \in Status
     /\ 2 \in Nat /\ 3 = 2 + 1 /\ 1 = 2 - 1
  BY DEF Status
<1>1. pc[c] = "run" /\ at[c] = 2 /\ Current(c) = "savepoint" /\ 2 < Last(c)
  <2>1. pc[c] = "run" /\ Current(c) = "savepoint" /\ at[c] \in 1..Last(c)
    BY DEF AddSavePoint, Running, Now, ControlOK
  <2>2. at[c] = 2 /\ at[c] # Last(c)
    BY <2>1, PlanFacts DEF Current, Now
  <2>. QED  BY <2>1, <2>2 DEF Now
<1>2. /\ Advancing(c) /\ NothingYet(c) /\ Held(c)
      /\ link[c] = "work" <=> ~dry[c]
      /\ ~dry[c] => session[c] = "block" /\ pending[c] = {}
      /\ dry[c] => session[c] = "none" /\ pending[c] = {}
  BY <1>1, RunFacts, RowFacts DEF Now
<1>3. RowsBefore(c, 3)' = {}
  <2>1. ~Writes(c, 2)
    BY <1>1 DEF Writes, Current, WritingQuery
  <2>2. RowsBefore(c, 3) = {}
    BY <1>1, <2>1, RowsGrow, RowFacts DEF Now
  <2>. QED  BY <2>2, FrameRows DEF Now, callVars
<1>4. ASSUME NEW reply \in Reply, SavePoint(c, reply), Answered(c, reply),
             Executed(c, StatusAfter(c, reply)), ~dry[c]
      PROVE  CallInv(c)' /\ Frame(c)
  <2>1. PICK st \in Status : st = StatusAfter(c, reply)
    BY <1>4, AnsweredType DEF Now
  <2>2. link'[c] = "work" /\ LinkOthers(c) /\ LoopOthers(c)
    <3>1. link'[c] = link[c] /\ LinkOthers(c)
      BY <1>4 DEF Now, Answered, SetConn, ConnTypeOK, LinkOthers
    <3>. QED  BY <1>2, <1>4, <2>1, <3>1, LoopFrame DEF Now
  <2>3. CASE FailEffect(c) /\ reply # "ok"
    <3>1. st # "OK" /\ session'[c] # "block"
      BY <2>1, <2>3 DEF StatusAfter, FailEffect
    <3>2. Solid(c)' /\ NothingYet(c)' /\ Grows(c)
      BY <1>2, <1>4, <2>2, <2>3, FailSolid, QuietTable DEF FailEffect
    <3>3. ReadyToRetreat(c, 1)'
      BY <3>1, <3>2 DEF ReadyToRetreat, NothingOpen
    <3>4. CallInv(c)'
      BY <1>1, <1>2, <1>4, <2>1, <3>1, <3>2, <3>3, ExecutedInv DEF Now
    <3>. QED  BY <2>2, <2>3, <3>2, <3>4, FrameFrom DEF FailEffect
  <2>4. CASE /\ ServerOthers(c) /\ UNCHANGED <<table, unacked>>
             /\ session'[c] = "block"
             /\ pending'[c] = {} /\ mark'[c] = {{}}
    <3>1. Solid(c)' /\ NothingYet(c)' /\ Grows(c)
      BY <1>2, <1>4, <2>2, <2>4, QuietTable DEF Solid, Block, InBlock
    <3>2. ReadyToAdvance(c, 3)' /\ ReadyToRetreat(c, 1)'
      BY <1>3, <2>4, <3>1 DEF ReadyToAdvance, ReadyToRetreat, NothingOpen
    <3>3. CallInv(c)'
      BY <1>1, <1>2, <1>4, <2>1, <3>1, <3>2, ExecutedInv DEF Now
    <3>. QED  BY <2>2, <2>4, <3>1, <3>3, FrameFrom
  <2>5. mark'[c] = {pending[c]} => mark'[c] = {{}}
    BY <1>2
  <2>. QED  BY <1>2, <1>4, <2>3, <2>4, <2>5, SavePointEffect DEF Now
<1>5. CASE Unsent(c, FALSE) /\ Executed(c, UnsentStatus(c)) /\ dry[c]
  <2>1. Executed(c, "OK")
    BY <1>5 DEF UnsentStatus
  <2>2. link'[c] = link[c] /\ LinkOthers(c) /\ LoopOthers(c)
    BY <1>5, <2>1, LoopFrame DEF Now, Unsent, SetConn, ConnTypeOK, LinkOthers
  <2>3. /\ ServerOthers(c) /\ UNCHANGED <<table, unacked>>
        /\ session'[c] = session[c] /\ pending'[c] = pending[c]
        /\ mark'[c] = mark[c]
    BY <1>5 DEF Unsent, serverVars, ServerOthers
  <2>4. Solid(c)' /\ NothingYet(c)' /\ Grows(c) /\ dry'[c]
    BY <1>2, <1>5, <2>2, <2>3, QuietTable
       DEF Solid, Block, Now, CallInv, LinkInv, InBlock
  <2>5. CallInv(c)'
    BY <1>1, <1>2, <2>1, <2>4, ExecutedInv DEF Now, ReadyToAdvance
  <2>. QED  BY <2>2, <2>3, <2>4, <2>5, FrameFrom
<1>. QED  BY <1>2, <1>4, <1>5 DEF AddSavePoint

\* A statement that fails to build, and one that is not sent.
LEMMA NotSentInv ==
  ASSUME NEW c \in Client, Now(c), SafeThrows, pc[c] = "run",
         Current(c) \in DataQuery, 1 < at[c], at[c] < Last(c),
         UNCHANGED serverVars, LinkOthers(c), link'[c] = link[c],
         \/ "build" \in Throws /\ Raised(c)
         \/ \E empty \in BOOLEAN : Unsent(c, empty) /\ Executed(c, UnsentStatus(c))
  PROVE  CallInv(c)' /\ Frame(c)
<1>. /\ "OK" \in Status /\ "NOT" \in Status /\ "HAVE_ERROR" \in Status
     /\ at[c] \in 1..Last(c)
  BY DEF Status, Now
<1>. PICK k \in Nat : k = at[c]
  BY DEF Now
<1>1. /\ Advancing(c) /\ NothingYet(c) /\ Held(c)
      /\ link[c] = "work" <=> ~dry[c]
      /\ ~dry[c] => /\ session[c] = "block" /\ pending[c] = RowsBefore(c, k)
                    /\ k > 2 /\ HasSavePoint(c) => mark[c] = {{}}
      /\ dry[c] => session[c] = "none" /\ pending[c] = {}
      /\ dry[c] => CallRows(c) = {}
  BY RunFacts
<1>2. /\ ServerOthers(c) /\ UNCHANGED <<table, unacked>>
      /\ session'[c] = session[c] /\ pending'[c] = pending[c]
      /\ mark'[c] = mark[c]
  BY DEF serverVars, ServerOthers
<1>3. /\ Solid(c)' /\ NothingYet(c)' /\ Grows(c) /\ dry'[c] = dry[c]
      /\ HasSavePoint(c)' = HasSavePoint(c)
  BY <1>1, <1>2, QuietTable DEF Solid, Block, Now, CallInv, LinkInv, InBlock
<1>4. CASE "build" \in Throws /\ Raised(c)
  <2>1. ~dry[c] => RowsBefore(c, k) = {}
    <3>1. \A i \in 1..(k - 1) : Plan[op[c]][i] \notin WritingQuery
      BY <1>4 DEF SafeThrows, Current, Now, Last
    <3>. QED  BY <3>1 DEF RowsBefore, Writes
  <2>2. NothingOpen(c)'
    BY <1>1, <1>2, <2>1 DEF NothingOpen
  <2>3. Verdict(c, "HAVE_ERROR")'
    BY <1>3 DEF Verdict, is_status_ok
  <2>4. CallInv(c)'
    BY <1>3, <1>4, <2>2, <2>3, EndInv DEF Raised, Now
  <2>5. LoopOthers(c)
    BY <1>4, LoopFrame DEF Now
  <2>. QED  BY <1>2, <1>3, <2>4, <2>5, FrameFrom
<1>5. CASE \E empty \in BOOLEAN : Unsent(c, empty) /\ Executed(c, UnsentStatus(c))
  <2>1. Executed(c, IF dry[c] THEN "OK" ELSE "NOT")
    BY <1>5 DEF UnsentStatus
  <2>2. CASE dry[c]
    <3>1. Executed(c, "OK")
      BY <2>1, <2>2
    <3>2. ReadyToAdvance(c, k + 1)'
      BY <1>3, <2>2 DEF ReadyToAdvance
    <3>3. CallInv(c)'
      BY <1>1, <1>3, <3>1, <3>2, ExecutedInv DEF Now
    <3>. QED  BY <1>2, <1>3, <3>1, <3>3, LoopFrame, FrameFrom DEF Now
  <2>3. CASE ~dry[c]
    <3>1. Executed(c, "NOT")
      BY <2>1, <2>3
    <3>2. k - 1 < 2 => pending[c] = {}
      <4>1. k - 1 < 2 => k = 2
        OBVIOUS
      <4>. QED  BY <1>1, <2>3, <4>1, RowFacts DEF Now
    <3>3. ReadyToRetreat(c, k - 1)'
      BY <1>1, <1>2, <1>3, <2>3, <3>2 DEF ReadyToRetreat, NothingOpen
    <3>4. CallInv(c)'
      BY <1>1, <1>3, <3>1, <3>3, ExecutedInv DEF Now
    <3>. QED  BY <1>2, <1>3, <3>1, <3>4, LoopFrame, FrameFrom DEF Now
  <2>. QED  BY <2>2, <2>3
<1>. QED  BY <1>4, <1>5

\* A statement that reaches the server.
LEMMA SentInv ==
  ASSUME NEW c \in Client, Now(c), pc[c] = "run", link[c] = "work",
         Current(c) \in DataQuery, 1 < at[c], at[c] < Last(c),
         NEW reply \in Reply,
         Statement(c, IF Writes(c, at[c]) THEN {RowOf(c, at[c])} ELSE {}, reply),
         Answered(c, reply), Executed(c, StatusAfter(c, reply))
  PROVE  CallInv(c)' /\ Frame(c)
<1>. at[c] \in 1..Last(c)
  BY DEF Now
<1>. PICK k \in Nat : k = at[c]
  BY DEF Now
<1>. DEFINE rows == IF Writes(c, k) THEN {RowOf(c, k)} ELSE {}
<1>1. /\ Advancing(c) /\ NothingYet(c) /\ Held(c) /\ ~dry[c]
      /\ session[c] = "block" /\ pending[c] = RowsBefore(c, k)
      /\ k > 2 /\ HasSavePoint(c) => mark[c] = {{}}
  BY RunFacts
<1>2. PICK st \in Status : st = StatusAfter(c, reply)
  BY AnsweredType DEF Now
<1>3. link'[c] = "work" /\ LinkOthers(c) /\ LoopOthers(c)
  <2>1. link'[c] = link[c] /\ LinkOthers(c)
    BY DEF Now, Answered, SetConn, ConnTypeOK, LinkOthers
  <2>. QED  BY <1>2, <2>1, LoopFrame DEF Now
<1>4. k = 2 => ~HasSavePoint(c) /\ rows = {}
  <2>1. k = 2 => Plan[op[c]][2] \in DataQuery
    BY DEF Current
  <2>2. k = 2 => ~HasSavePoint(c)
    BY <2>1 DEF HasSavePoint, DataQuery, WritingQuery
  <2>. QED  BY <2>2, PlanFacts DEF HasSavePoint, Writes, Now
<1>5. HasSavePoint(c)' = HasSavePoint(c) /\ CallRows(c)' = CallRows(c)
      /\ RowsBefore(c, k + 1)' = RowsBefore(c, k + 1)
  BY FrameRows DEF Now, callVars
<1>6. k > 2 \/ k = 2
  OBVIOUS
<1>7. CASE FailEffect(c) /\ reply # "ok"
  <2>1. st # "OK" /\ session'[c] # "block"
    BY <1>2, <1>7 DEF StatusAfter, FailEffect
  <2>2. Solid(c)' /\ NothingYet(c)' /\ Grows(c)
    BY <1>1, <1>3, <1>7, FailSolid, QuietTable DEF FailEffect
  <2>3. InBlock(c)' => mark'[c] = mark[c]
    BY <1>7 DEF InBlock, FailEffect
  <2>4. ReadyToRetreat(c, k - 1)'
    BY <1>1, <1>4, <1>5, <1>6, <2>1, <2>2, <2>3 DEF ReadyToRetreat, NothingOpen
  <2>5. CallInv(c)'
    BY <1>1, <1>2, <2>1, <2>2, <2>4, ExecutedInv DEF Now
  <2>. QED  BY <1>3, <1>7, <2>2, <2>5, FrameFrom DEF FailEffect
<1>8. CASE /\ ServerOthers(c) /\ UNCHANGED <<table, unacked>>
           /\ session'[c] = "block"
           /\ pending'[c] = pending[c] \cup rows /\ mark'[c] = mark[c]
  <2>1. pending'[c] = RowsBefore(c, k + 1) /\ pending'[c] \subseteq CallRows(c)
    <3>1. k + 1 \in 1..Last(c)
      BY DEF Now
    <3>2. RowsBefore(c, k + 1) \subseteq CallRows(c)
      BY <3>1, RowsGrow DEF Now
    <3>. QED  BY <1>1, <1>8, <3>2, RowsGrow DEF Now
  <2>2. Solid(c)' /\ NothingYet(c)' /\ Grows(c)
    BY <1>1, <1>3, <1>5, <1>8, <2>1, QuietTable DEF Solid, Block, InBlock
  <2>3. ReadyToAdvance(c, k + 1)'
    BY <1>1, <1>4, <1>5, <1>6, <1>8, <2>1, <2>2 DEF ReadyToAdvance
  <2>4. ReadyToRetreat(c, k - 1)'
    <3>1. k = 2 => pending'[c] = {}
      BY <1>1, <1>4, <1>8, RowFacts DEF Now
    <3>. QED
      BY <1>1, <1>4, <1>5, <1>6, <1>8, <2>2, <3>1 DEF ReadyToRetreat, NothingOpen
  <2>5. CallInv(c)'
    BY <1>1, <1>2, <2>2, <2>3, <2>4, ExecutedInv DEF Now
  <2>. QED  BY <1>3, <1>8, <2>2, <2>5, FrameFrom
<1>. QED  BY <1>1, <1>7, <1>8, StatementEffect DEF Now

\* A data query keeps the invariant.
LEMMA RunQueryInv ==
  ASSUME NEW c \in Client, Now(c), SafeThrows, RunQuery(c)
  PROVE  CallInv(c)' /\ Frame(c)
<1>1. pc[c] = "run" /\ Current(c) \in DataQuery /\ at[c] \in 1..Last(c)
  BY DEF RunQuery, Running, Now, ControlOK
<1>2. 1 < at[c] /\ at[c] < Last(c)
  <2>1. "setup" \notin DataQuery /\ "close" \notin DataQuery
    BY DEF DataQuery, WritingQuery
  <2>2. at[c] # 1 /\ at[c] # Last(c)
    BY <1>1, <2>1, PlanFacts DEF Current, Now
  <2>. QED  BY <1>1, <2>2 DEF Now
<1>3. ASSUME UNCHANGED serverVars, LinkOthers(c), link'[c] = link[c],
             \/ "build" \in Throws /\ Raised(c)
             \/ \E empty \in BOOLEAN : /\ Unsent(c, empty)
                                       /\ Executed(c, UnsentStatus(c))
      PROVE  CallInv(c)' /\ Frame(c)
  BY <1>1, <1>2, <1>3, NotSentInv
<1>4. CASE /\ "build" \in Throws
           /\ UNCHANGED <<serverVars, connVars>>
           /\ Raised(c)
  BY <1>3, <1>4 DEF connVars, LinkOthers
<1>5. ASSUME NEW empty \in BOOLEAN, Unsent(c, empty), Executed(c, UnsentStatus(c))
      PROVE  CallInv(c)' /\ Frame(c)
  <2>1. LinkOthers(c) /\ link'[c] = link[c]
    BY <1>5 DEF Unsent, SetConn, LinkOthers, Now, ConnTypeOK
  <2>. QED  BY <1>3, <1>5, <2>1 DEF Unsent
<1>6. ASSUME NEW reply \in Reply, link[c] = "work",
             Statement(c, IF Writes(c, at[c]) THEN {RowOf(c, at[c])} ELSE {},
                       reply),
             Answered(c, reply), Executed(c, StatusAfter(c, reply))
      PROVE  CallInv(c)' /\ Frame(c)
  BY <1>1, <1>2, <1>6, SentInv
<1>. QED  BY <1>4, <1>5, <1>6 DEF RunQuery, SafeThrows

-----------------------------------------------------------------------------
(* Closing                                                                 *)

\* CloseConnection, whether it returns or throws, leaves no block, and adds
\* to the table what Publishes says or nothing.
LEMMA CloseEffect ==
  ASSUME NEW c \in Client, ServerTypeOK, ConnTypeOK, op[c] \in Op,
         calls[c] \in Nat, calls'[c] = calls[c], op'[c] = op[c],
         dry'[c] = dry[c],
         link[c] = "work" <=> session[c] # "none", Block(c), Fresh(c),
         CloseReturns(c) \/ CloseThrows(c)
  PROVE  /\ Solid(c)' /\ ServerOthers(c) /\ LinkOthers(c) /\ Grows(c)
         /\ session'[c] # "block"
         /\ CloseReturns(c) => /\ table' = table \cup Publishes(c)
                               /\ link'[c] = "none"
         /\ CloseThrows(c) /\ ~CloseReturns(c) =>
              \/ table' = table
              \/ /\ table' = table \cup Publishes(c)
                 /\ unacked' = unacked \cup Publishes(c)
                 /\ Publishes(c) # {}
<1>1. CallRows(c)' = CallRows(c)
  BY FrameRows
<1>2. Publishes(c) \subseteq pending[c]
  BY DEF Publishes
<1>3. CASE CloseReturns(c)
  <2>1. link'[c] = "none" /\ LinkOthers(c)
    BY <1>3 DEF CloseReturns, SetConn, ConnTypeOK, LinkOthers
  <2>2. /\ ServerOthers(c) /\ UNCHANGED unacked
        /\ session'[c] = "none" /\ pending'[c] = {} /\ mark'[c] = {}
        /\ table' = table \cup Publishes(c)
    <3>1. CASE link[c] = "work"
      BY <1>3, <3>1, CommitEffect DEF CloseReturns
    <3>2. CASE link[c] # "work"
      BY <1>3, <3>2 DEF CloseReturns, serverVars, ServerOthers, Publishes,
                        Block, InBlock
    <3>. QED  BY <3>1, <3>2
  <2>3. Grows(c)
    BY <1>2, <2>2 DEF Grows
  <2>4. Solid(c)'
    BY <2>1, <2>2, <2>3, FreshStays DEF Solid, Block, InBlock
  <2>. QED  BY <1>3, <2>1, <2>2, <2>3, <2>4
<1>4. CASE CloseThrows(c) /\ ~CloseReturns(c)
  <2>1. link'[c] = link[c] /\ LinkOthers(c) /\ link[c] = "work"
    BY <1>4 DEF CloseThrows, connVars, LinkOthers
  <2>2. PICK reply \in Reply : CommitFails(c, reply)
    BY <1>4 DEF CloseThrows
  <2>3. /\ ServerOthers(c)
        /\ session'[c] \in {"idle", "broken"}
        /\ pending'[c] = {} /\ mark'[c] = {}
        /\ \/ UNCHANGED <<table, unacked>>
           \/ /\ table' = table \cup Publishes(c)
              /\ unacked' = unacked \cup Publishes(c)
              /\ Publishes(c) # {}
    BY <2>2, CommitFailsEffect
  <2>4. Grows(c)
    BY <1>2, <2>3 DEF Grows
  <2>5. Solid(c)'
    BY <2>1, <2>3, <2>4, FreshStays DEF Solid, Block, InBlock
  <2>. QED  BY <1>4, <2>1, <2>3, <2>4, <2>5
<1>. QED  BY <1>3, <1>4

\* The final close keeps the invariant.
LEMMA CloseQueryInv ==
  ASSUME NEW c \in Client, Now(c), CloseQuery(c)
  PROVE  CallInv(c)' /\ Frame(c)
<1>. "OK" \in Status /\ "HAVE_ERROR" \in Status
  BY DEF Status
<1>1. pc[c] = "run" /\ at[c] = Last(c) /\ at[c] > 1
  <2>1. pc[c] = "run" /\ Current(c) = "close" /\ at[c] \in 1..Last(c)
    BY DEF CloseQuery, Running, Now, ControlOK
  <2>. QED  BY <2>1, PlanFacts DEF Current, Now
<1>2. /\ Advancing(c) /\ NothingYet(c)
      /\ link[c] = "work" <=> ~dry[c]
      /\ ~dry[c] => session[c] = "block" /\ pending[c] = CallRows(c)
      /\ dry[c] => CallRows(c) = {}
  BY <1>1, RunFacts DEF CallRows
<1>3. CallRows(c)' = CallRows(c)
  BY FrameRows DEF Now, callVars
<1>4. ~dry[c] => Publishes(c) = CallRows(c)
  BY <1>2 DEF Publishes
<1>5. /\ Solid(c)' /\ ServerOthers(c) /\ LinkOthers(c) /\ Grows(c)
      /\ NothingOpen(c)'
      /\ CloseReturns(c) => table' = table \cup Publishes(c)
      /\ CloseThrows(c) /\ ~CloseReturns(c) =>
           \/ table' = table
           \/ /\ table' = table \cup Publishes(c)
              /\ unacked' = unacked \cup Publishes(c)
  BY CloseEffect DEF Now, CallInv, LinkInv, callVars, CloseQuery, NothingOpen
<1>6. CASE CloseReturns(c) /\ Executed(c, "OK")
  <2>1. Verdict(c, "OK")'
    BY <1>2, <1>3, <1>4, <1>5, <1>6 DEF Verdict, is_status_ok
  <2>2. CallInv(c)'
    BY <1>1, <1>2, <1>5, <1>6, <2>1, ExecutedInv DEF Now
  <2>. QED  BY <1>5, <1>6, <2>2, LoopFrame, FrameFrom DEF Now
<1>7. CASE CloseThrows(c) /\ Raised(c) /\ ~CloseReturns(c)
  <2>1. ~dry[c]
    BY <1>2, <1>7 DEF CloseThrows
  <2>2. Verdict(c, "HAVE_ERROR")'
    BY <1>2, <1>3, <1>4, <1>5, <1>7, <2>1
       DEF Verdict, is_status_ok, NothingYet
  <2>3. CallInv(c)'
    BY <1>5, <1>7, <2>2, EndInv DEF Now, Raised
  <2>. QED  BY <1>5, <1>7, <2>3, LoopFrame, FrameFrom DEF Now
<1>8. CloseThrows(c) => ~CloseReturns(c)
  <2>1. CloseThrows(c) => link'[c] = "work"
    BY DEF CloseThrows, connVars
  <2>2. CloseReturns(c) => link'[c] = "none"
    BY DEF CloseReturns, SetConn, Now, ConnTypeOK
  <2>. QED  BY <2>1, <2>2
<1>. QED  BY <1>6, <1>7, <1>8 DEF CloseQuery

-----------------------------------------------------------------------------
(* The rollback loop and the end of a call                                 *)

\* A close that has nothing to publish.
LEMMA QuietClose ==
  ASSUME NEW c \in Client, Now(c), NothingOpen(c),
         CloseReturns(c) \/ CloseThrows(c)
  PROVE  /\ Solid(c)' /\ ServerOthers(c) /\ LinkOthers(c) /\ Grows(c)
         /\ NothingOpen(c)' /\ table' = table
         /\ NothingYet(c)' = NothingYet(c)
<1>1. Publishes(c) = {}
  BY DEF NothingOpen, Publishes
<1>2. /\ Solid(c)' /\ ServerOthers(c) /\ LinkOthers(c) /\ Grows(c)
      /\ NothingOpen(c)' /\ table' = table
  BY <1>1, CloseEffect DEF Now, CallInv, LinkInv, callVars, NothingOpen
<1>3. CallRows(c)' = CallRows(c)
  BY FrameRows DEF Now, callVars
<1>. QED  BY <1>2, <1>3 DEF NothingYet

\* The rollback of the setup keeps the invariant: its commit is empty.
LEMMA UndoSetupInv ==
  ASSUME NEW c \in Client, Now(c), UndoSetup(c)
  PROVE  CallInv(c)' /\ Frame(c)
<1>. "HAVE_ERROR" \in Status /\ 1 \in Nat \ {0} /\ 0 = 1 - 1
  BY DEF Status
<1>1. pc[c] = "undo" /\ at[c] = 1
  <2>1. /\ pc[c] = "undo" /\ Current(c) = "setup"
        /\ at[c] > 0 /\ at[c] \in 0..Last(c)
    BY DEF UndoSetup, Undoing, Now, ControlOK
  <2>2. at[c] \in 1..Last(c)
    BY <2>1 DEF Now
  <2>. QED  BY <2>1, <2>2, PlanFacts DEF Current, Now
<1>2. Retreating(c) /\ NothingYet(c) /\ NothingOpen(c)
  BY <1>1 DEF Now, CallInv, Retreating
<1>3. /\ Solid(c)' /\ ServerOthers(c) /\ LinkOthers(c) /\ Grows(c)
      /\ NothingOpen(c)' /\ NothingYet(c)'
  BY <1>2, QuietClose DEF UndoSetup
<1>4. CASE MoveBack(c)
  <2>1. ReadyToRetreat(c, 0)'
    BY <1>3 DEF ReadyToRetreat
  <2>2. CallInv(c)'
    BY <1>1, <1>2, <1>3, <1>4, <2>1, MoveBackInv DEF Now
  <2>. QED  BY <1>3, <1>4, <2>2, LoopFrame, FrameFrom DEF Now
<1>5. CASE Raised(c)
  <2>1. Verdict(c, "HAVE_ERROR")'
    BY <1>3 DEF Verdict, is_status_ok
  <2>2. CallInv(c)'
    BY <1>3, <1>5, <2>1, EndInv DEF Now, Raised
  <2>. QED  BY <1>3, <1>5, <2>2, LoopFrame, FrameFrom DEF Now
<1>. QED  BY <1>4, <1>5 DEF UndoSetup

\* The rollback to the save point keeps the invariant.
LEMMA UndoSavePointInv ==
  ASSUME NEW c \in Client, Now(c), UndoSavePoint(c)
  PROVE  CallInv(c)' /\ Frame(c)
<1>. 2 \in Nat \ {0} /\ 1 = 2 - 1
  OBVIOUS
<1>1. pc[c] = "undo" /\ at[c] = 2 /\ HasSavePoint(c) /\ link[c] = "work"
  <2>1. /\ pc[c] = "undo" /\ Current(c) = "savepoint"
        /\ at[c] > 0 /\ at[c] \in 0..Last(c) /\ link[c] = "work"
    BY DEF UndoSavePoint, Undoing, Now, ControlOK
  <2>2. at[c] \in 1..Last(c)
    BY <2>1 DEF Now
  <2>3. at[c] = 2
    BY <2>1, <2>2, PlanFacts DEF Current, Now
  <2>. QED  BY <2>1, <2>3 DEF Current, HasSavePoint
<1>2. /\ Retreating(c) /\ NothingYet(c) /\ ~dry[c] /\ Held(c)
      /\ InBlock(c) => mark[c] = {{}}
  BY <1>1 DEF Now, CallInv, Retreating, Block, Held
<1>3. PICK reply \in Reply : RollbackTo(c, reply) /\ Answered(c, reply)
  BY DEF UndoSavePoint
<1>4. link'[c] = "work" /\ LinkOthers(c) /\ LoopOthers(c) /\ MoveBack(c)
  <2>1. link'[c] = link[c] /\ LinkOthers(c)
    BY <1>3 DEF Now, Answered, SetConn, ConnTypeOK, LinkOthers
  <2>. QED  BY <1>1, <2>1, LoopFrame DEF UndoSavePoint, Now
<1>5. CASE FailEffect(c)
  <2>1. Solid(c)' /\ NothingYet(c)' /\ Grows(c) /\ session'[c] # "block"
    BY <1>2, <1>4, <1>5, FailSolid, QuietTable DEF FailEffect
  <2>2. ReadyToRetreat(c, 1)'
    BY <2>1 DEF ReadyToRetreat, NothingOpen
  <2>3. CallInv(c)'
    BY <1>1, <1>2, <1>4, <2>1, <2>2, MoveBackInv DEF Now
  <2>. QED  BY <1>4, <1>5, <2>1, <2>3, FrameFrom DEF FailEffect
<1>6. CASE /\ ServerOthers(c) /\ UNCHANGED <<table, unacked>>
           /\ InBlock(c) /\ session'[c] = "block"
           /\ pending'[c] = UNION mark[c] /\ mark'[c] = mark[c]
  <2>1. pending'[c] = {}
    BY <1>2, <1>6
  <2>2. Solid(c)' /\ NothingYet(c)' /\ Grows(c)
    BY <1>2, <1>4, <1>6, <2>1, QuietTable DEF Solid, Block, InBlock
  <2>3. ReadyToRetreat(c, 1)'
    BY <2>1, <2>2 DEF ReadyToRetreat, NothingOpen
  <2>4. CallInv(c)'
    BY <1>1, <1>2, <1>4, <2>2, <2>3, MoveBackInv DEF Now
  <2>. QED  BY <1>4, <1>6, <2>2, <2>4, FrameFrom
<1>. QED  BY <1>2, <1>3, <1>5, <1>6, RollbackEffect DEF Now

\* A step of the loop that touches no connection: above the save point, or
\* where no row was ever pending.
LEMMA UndoNothingInv ==
  ASSUME NEW c \in Client, Now(c), UndoNothing(c)
  PROVE  CallInv(c)' /\ Frame(c)
<1>1. /\ pc[c] = "undo" /\ at[c] \in 1..Last(c) /\ MoveBack(c)
      /\ at[c] \in performed[c] => Current(c) \in DataQuery
      /\ UNCHANGED <<serverVars, connVars>>
  BY DEF UndoNothing, Now, ControlOK
<1>. PICK k \in Nat \ {0} : k = at[c]
  BY <1>1
<1>2. /\ Retreating(c) /\ NothingYet(c) /\ Current(c) \in DataQuery
      /\ k >= 2 /\ HasSavePoint(c) /\ InBlock(c) => mark[c] = {{}}
      /\ k < 2 => NothingOpen(c)
  BY <1>1 DEF Now, CallInv, Retreating
<1>3. k = 2 => NothingOpen(c)
  <2>1. k = 2 => ~HasSavePoint(c)
    BY <1>2 DEF Current, HasSavePoint, DataQuery, WritingQuery
  <2>. QED  BY <2>1, RowFacts DEF NothingOpen, Now, CallInv, Block
<1>4. /\ ServerOthers(c) /\ LinkOthers(c) /\ LoopOthers(c)
      /\ UNCHANGED <<table, unacked>>
      /\ session'[c] = session[c] /\ pending'[c] = pending[c]
      /\ mark'[c] = mark[c] /\ link'[c] = link[c]
  BY <1>1, LoopFrame DEF serverVars, connVars, ServerOthers, LinkOthers, Now
<1>5. /\ Solid(c)' /\ NothingYet(c)' /\ Grows(c)
      /\ HasSavePoint(c)' = HasSavePoint(c)
  BY <1>2, <1>4, QuietTable DEF Solid, Now, CallInv, LinkInv, Block, InBlock
<1>6. ReadyToRetreat(c, k - 1)'
  <2>1. k - 1 < 2 => k < 2 \/ k = 2
    OBVIOUS
  <2>2. NothingOpen(c)' = NothingOpen(c) /\ InBlock(c)' = InBlock(c)
    BY <1>4 DEF NothingOpen, InBlock
  <2>3. k - 1 < 2 => NothingOpen(c)'
    BY <1>2, <1>3, <2>1, <2>2
  <2>. QED  BY <1>2, <1>4, <1>5, <2>2, <2>3 DEF ReadyToRetreat
<1>7. CallInv(c)'
  BY <1>1, <1>2, <1>5, <1>6, MoveBackInv DEF Now
<1>. QED  BY <1>4, <1>5, <1>7, FrameFrom

\* The end of the rollback loop keeps the invariant.
LEMMA UndoDoneInv ==
  ASSUME NEW c \in Client, Now(c), UndoDone(c)
  PROVE  CallInv(c)' /\ Frame(c)
<1>1. PICK st \in Status : st = trStatus[c]
  BY DEF Now, LoopTypeOK
<1>2. /\ EndTransaction(c, st) /\ pc[c] = "undo" /\ at[c] = 0
      /\ UNCHANGED <<serverVars, connVars, at, performed, trStatus>>
  BY <1>1 DEF UndoDone
<1>3. NothingYet(c) /\ st # "OK" /\ NothingOpen(c)
  BY <1>1, <1>2 DEF Now, CallInv, Retreating, is_status_ok
<1>4. /\ ServerOthers(c) /\ LinkOthers(c) /\ LoopOthers(c)
      /\ UNCHANGED <<table, unacked>>
      /\ session'[c] = session[c] /\ pending'[c] = pending[c]
      /\ mark'[c] = mark[c] /\ link'[c] = link[c]
  BY <1>2, LoopFrame DEF serverVars, connVars, ServerOthers, LinkOthers, Now
<1>5. Solid(c)' /\ NothingYet(c)' /\ Grows(c)
  BY <1>3, <1>4, QuietTable DEF Solid, Now, CallInv, LinkInv, Block, InBlock
<1>6. Verdict(c, st)' /\ NothingOpen(c)'
  BY <1>3, <1>4, <1>5 DEF Verdict, is_status_ok, NothingOpen
<1>7. CallInv(c)'
  BY <1>2, <1>5, <1>6, EndInv DEF Now
<1>. QED  BY <1>4, <1>5, <1>7, FrameFrom

\* The tail of CheckConnection keeps the invariant.
LEMMA CheckTailInv ==
  ASSUME NEW c \in Client, Now(c), CheckTail(c)
  PROVE  CallInv(c)' /\ Frame(c)
<1>1. /\ pc[c] = "check" /\ pc'[c] = "destroy"
      /\ CallRows(c) = {} /\ NothingOpen(c)
  BY DEF CheckTail, Now, CallInv, Finishing, LoopTypeOK
<1>2. LoopOthers(c)
  BY DEF CheckTail, LoopOthers, Now, LoopTypeOK
<1>3. CallRows(c)' = {}
  BY <1>1, FrameRows DEF Now, callVars
<1>4. ASSUME Solid(c)', ServerOthers(c), LinkOthers(c), Grows(c),
             NothingOpen(c)'
      PROVE  CallInv(c)' /\ Frame(c)
  <2>1. Finishing(c)'
    BY <1>1, <1>3, <1>4 DEF Finishing, Verdict, NothingYet
  <2>2. CallInv(c)'
    BY <1>1, <1>4, <2>1
       DEF CallInv, Solid, LinkInv, AtRest, Advancing, Retreating
  <2>. QED  BY <1>2, <1>4, <2>2, FrameFrom
<1>5. CASE UNCHANGED <<serverVars, connVars>>
  <2>1. /\ ServerOthers(c) /\ LinkOthers(c) /\ UNCHANGED <<table, unacked>>
        /\ session'[c] = session[c] /\ pending'[c] = pending[c]
        /\ mark'[c] = mark[c] /\ link'[c] = link[c]
    BY <1>5 DEF serverVars, connVars, ServerOthers, LinkOthers
  <2>2. Solid(c)' /\ Grows(c) /\ NothingOpen(c)'
    BY <1>1, <2>1, QuietTable
       DEF Solid, Now, CallInv, LinkInv, Block, InBlock, NothingOpen
  <2>. QED  BY <1>4, <2>1, <2>2
<1>6. CASE CloseReturns(c) \/ CloseThrows(c)
  BY <1>1, <1>4, <1>6, QuietClose
<1>. QED  BY <1>5, <1>6 DEF CheckTail

\* The destructor of the clone keeps the invariant: its commit is empty.
LEMMA DestroyInv ==
  ASSUME TypeOK, NEW c \in Client, CallInv(c), DestroyClone(c)
  PROVE  CallInv(c)' /\ Frame(c)
<1>. /\ ServerTypeOK /\ CallTypeOK /\ LoopTypeOK /\ ConnTypeOK
     /\ op[c] \in Op /\ calls[c] \in Nat
  BY TypeParts, ModeAssumption DEF CallTypeOK
<1>1. pc[c] = "destroy" /\ NothingOpen(c) /\ Verdict(c, result[c])
  BY DEF DestroyClone, CallInv, Finishing
<1>2. Publishes(c) = {}
  BY <1>1 DEF NothingOpen, Publishes
<1>3. /\ Solid(c)' /\ ServerOthers(c) /\ LinkOthers(c) /\ Grows(c)
      /\ session'[c] # "block" /\ table' = table
      /\ CloseReturns(c) => link'[c] = "none"
  BY <1>2, CloseEffect DEF DestroyClone, CallInv, LinkInv
<1>4. CallRows(c)' = CallRows(c)
  BY FrameRows DEF DestroyClone
<1>5. LoopOthers(c) /\ CallOthers(c) /\ result'[c] = result[c]
  BY DEF DestroyClone, LoopOthers, CallOthers, LoopTypeOK, CallTypeOK
<1>6. /\ result'[c] = result[c]
      /\ \/ CloseReturns(c) /\ pc'[c] = "idle" /\ reported'[c] = result[c]
         \/ pc'[c] = "destroy"
  BY <1>1, <1>5 DEF DestroyClone, LoopTypeOK, CallTypeOK
<1>7. unacked \subseteq unacked'
  BY <1>3 DEF Grows
<1>8. CASE pc'[c] = "idle"
  <2>1. AtRest(c)'
    BY <1>1, <1>3, <1>4, <1>6, <1>7, <1>8 DEF AtRest, Verdict, NothingYet
  <2>. QED  BY <1>3, <1>5, <1>6, <1>8, <2>1
            DEF CallInv, Solid, LinkInv, Advancing, Retreating, Finishing, Frame
<1>9. CASE pc'[c] = "destroy"
  <2>1. Finishing(c)'
    BY <1>1, <1>3, <1>4, <1>6, <1>7, <1>9
       DEF Finishing, Verdict, NothingYet, NothingOpen
  <2>. QED  BY <1>3, <1>5, <1>9, <2>1
            DEF CallInv, Solid, LinkInv, AtRest, Advancing, Retreating, Frame
<1>. QED  BY <1>6, <1>8, <1>9

\* A new call starts from the invariant.
LEMMA StartInv ==
  ASSUME TypeOK, NEW c \in Client, CallInv(c), StartCall(c)
  PROVE  CallInv(c)' /\ Frame(c)
<1>. /\ ServerTypeOK /\ CallTypeOK /\ LoopTypeOK /\ ConnTypeOK
     /\ calls[c] \in Nat
  BY TypeParts, ModeAssumption DEF CallTypeOK
<1>1. /\ pc'[c] = "run" /\ at'[c] = 1 /\ link'[c] = "none"
      /\ calls'[c] = calls[c] + 1 /\ op'[c] \in Op
      /\ UNCHANGED <<serverVars, reported>>
  BY DEF StartCall, LoopTypeOK, ConnTypeOK, CallTypeOK
<1>2. Frame(c)
  BY DEF StartCall, Frame, ServerOthers, LoopOthers, CallOthers, LinkOthers,
         Grows, serverVars, LoopTypeOK, ConnTypeOK, CallTypeOK
<1>3. /\ session[c] = "none" /\ pending[c] = {} /\ mark[c] = {}
      /\ \A r \in table : r[1] = c => r[2] <= calls[c]
  BY DEF StartCall, CallInv, LinkInv, Block, InBlock, Fresh
<1>4. /\ session'[c] = "none" /\ pending'[c] = {} /\ mark'[c] = {}
      /\ table' = table
  BY <1>1, <1>3 DEF serverVars
<1>5. \A r \in table : r \in Client \X Nat \X Nat
  BY DEF ServerTypeOK, Row
<1>6. NothingYet(c)'
  <2>1. \A r \in CallRows(c)' : r[1] = c /\ r[2] = calls[c] + 1
    BY <1>1 DEF CallRows, RowsBefore, RowOf
  <2>2. \A r \in CallRows(c)' : r \notin table
    BY <1>3, <1>5, <2>1
  <2>. QED  BY <1>4, <2>2 DEF NothingYet
<1>7. Fresh(c)'
  BY <1>1, <1>3, <1>4, <1>5 DEF Fresh
<1>8. Block(c)' /\ LinkInv(c)'
  BY <1>1, <1>4 DEF Block, LinkInv
<1>9. Advancing(c)'
  BY <1>1, <1>6 DEF Advancing
<1>. QED  BY <1>1, <1>2, <1>7, <1>8, <1>9
          DEF CallInv, AtRest, Retreating, Finishing

-----------------------------------------------------------------------------
(* IInv is inductive                                                       *)

\* The invariant holds initially.
LEMMA InitInv == Init => IInv
<1>. SUFFICES ASSUME Init PROVE IInv
  OBVIOUS
<1>1. ControlOK
  BY InitType
<1>2. ASSUME NEW c \in Client PROVE CallInv(c)
  <2>1. /\ table = {} /\ session[c] = "none" /\ pending[c] = {} /\ mark[c] = {}
        /\ pc[c] = "idle" /\ link[c] = "none" /\ reported[c] = "DEFAULT"
    BY DEF Init, ServerInit
  <2>2. AtRest(c)
    BY <2>1 DEF AtRest, Verdict, NothingYet, is_status_ok
  <2>. QED  BY <2>1, <2>2
            DEF CallInv, LinkInv, Block, InBlock, Fresh, Advancing,
                Retreating, Finishing
<1>. QED  BY <1>1, <1>2 DEF IInv

\* A step of one client keeps the invariant of every client.
LEMMA NowHolds ==
  ASSUME TypeOK, IInv, NEW c \in Client, UNCHANGED callVars
  PROVE  Now(c)
<1>1. op[c] \in Op /\ calls[c] \in Nat /\ at[c] \in Nat
  BY ModeAssumption, TypeParts DEF CallTypeOK, LoopTypeOK
<1>. QED  BY <1>1, TypeParts, PlanFacts DEF Now, IInv

\* Each step of a call keeps that call's invariant.
LEMMA CallStep ==
  ASSUME SafeThrows, TypeOK, IInv, NEW c \in Client,
         StartCall(c) \/ InCall(c)
  PROVE  CallInv(c)' /\ Frame(c)
<1>1. CallInv(c)
  BY DEF IInv
<1>2. CASE StartCall(c) \/ DestroyClone(c)
  BY <1>1, <1>2, StartInv, DestroyInv
<1>3. CASE /\ \/ SetupConnection(c) \/ AddSavePoint(c) \/ RunQuery(c)
              \/ CloseQuery(c)
              \/ UndoSetup(c) \/ UndoSavePoint(c) \/ UndoNothing(c)
              \/ UndoDone(c) \/ CheckTail(c)
           /\ UNCHANGED callVars
  <2>1. Now(c)
    BY <1>3, NowHolds
  <2>. QED  BY <1>3, <2>1, SetupInv, SavePointInv, RunQueryInv, CloseQueryInv,
               UndoSetupInv, UndoSavePointInv, UndoNothingInv, UndoDoneInv,
               CheckTailInv
<1>. QED  BY <1>2, <1>3 DEF InCall

\* Each step keeps the invariant of every call.
LEMMA StepInv == SafeThrows /\ TypeOK /\ IInv /\ [Next]_vars => IInv'
<1>. SUFFICES ASSUME SafeThrows, TypeOK, IInv, [Next]_vars PROVE IInv'
  OBVIOUS
<1>1. ControlOK'
  BY TypeStep DEF IInv
<1>2. ASSUME NEW c \in Client, StartCall(c) \/ InCall(c)
      PROVE  \A d \in Client : CallInv(d)'
  <2>1. CallInv(c)' /\ Frame(c)
    BY <1>2, CallStep
  <2>2. op \in [Client -> Op] /\ Block(c)
    BY TypeParts DEF CallTypeOK, IInv, CallInv
  <2>3. ASSUME NEW d \in Client \ {c} PROVE CallInv(d)'
    BY <2>1, <2>2, FrameInv DEF IInv
  <2>. QED  BY <2>1, <2>3
<1>3. CASE UNCHANGED vars
  <2>1. ASSUME NEW d \in Client PROVE CallInv(d)'
    <3>1. CallInv(d)
      BY DEF IInv
    <3>2. Last(d)' = Last(d) /\ HasSavePoint(d)' = HasSavePoint(d)
          /\ CallRows(d)' = CallRows(d)
          /\ \A k : RowsBefore(d, k)' = RowsBefore(d, k)
      BY <1>3, FrameRows DEF vars, callVars
    <3>. QED  BY <1>3, <3>1, <3>2
              DEF vars, serverVars, callVars, loopVars, connVars, CallInv,
                  LinkInv, Block, InBlock, Fresh, AtRest, Advancing,
                  Retreating, Finishing, Verdict, NothingYet, NothingOpen
  <2>. QED  BY <1>1, <2>1 DEF IInv
<1>. QED  BY <1>1, <1>2, <1>3 DEF Next, IInv

\* IInv holds in every reachable state, for any clients, calls and well-formed
\* transactions whose results convert: a call in its loops has published
\* nothing, and one past them has nothing left that a later commit publishes.
THEOREM Inductive == SafeThrows => (SafeSpec => []IInv)
<1>. SUFFICES ASSUME SafeThrows PROVE SafeSpec => []IInv
  OBVIOUS
<1>1. Init => IInv
  BY InitInv
<1>2. TypeOK /\ IInv /\ [Next]_vars => IInv'
  BY StepInv
<1>. QED  BY <1>1, <1>2, TypeCorrect, PTL DEF SafeSpec

\* The answer of a call of the manager is what happened to its rows, for any
\* number of clients and calls and any well-formed transactions, as long as
\* results convert and no statement after a write fails to build.
THEOREM Truthful == SafeThrows => (SafeSpec => []ReportIsTruthful)
<1>. SUFFICES ASSUME SafeThrows PROVE SafeSpec => []ReportIsTruthful
  OBVIOUS
<1>1. IInv => ReportIsTruthful
  BY DEF IInv, CallInv, AtRest, Verdict, NothingYet, ReportIsTruthful, Returned
<1>. QED  BY <1>1, Inductive, PTL

-----------------------------------------------------------------------------
(* Who commits                                                             *)

\* Whatever a step of a running call does to the table, it is the final
\* close that does it, with all the rows of the call.
LEMMA CommitsAtClose ==
  ASSUME SafeThrows, TypeOK, IInv, NEW c \in Client,
         StartCall(c) \/ InCall(c), table' # table
  PROVE  /\ pc[c] = "run" /\ Current(c) = "close"
         /\ table' \ table = CallRows(c)
<1>. /\ ServerTypeOK /\ ConnTypeOK /\ CallInv(c)
     /\ op[c] \in Op /\ calls[c] \in Nat
  BY TypeParts, ModeAssumption DEF IInv, CallTypeOK
<1>. Held(c) /\ (link[c] = "work" <=> session[c] # "none")
  BY DEF CallInv, Block, Held, LinkInv
<1>1. ASSUME NEW reply, NEW rows,
             \/ ConnectAndBegin(c, reply) \/ SavePoint(c, reply)
             \/ RollbackTo(c, reply)
             \/ session[c] = "block" /\ Statement(c, rows, reply)
      PROVE  FALSE
  BY <1>1, ConnectEffect, SavePointEffect, RollbackEffect, StatementEffect
     DEF FailEffect
<1>2. ~UNCHANGED serverVars
  BY DEF serverVars
<1>3. CASE StartCall(c)
  BY <1>2, <1>3 DEF StartCall
<1>4. CASE DestroyClone(c)
  <2>1. Publishes(c) = {}
    BY <1>4 DEF DestroyClone, CallInv, Finishing, NothingOpen, Publishes
  <2>2. table' = table
    BY <1>4, <2>1, CloseEffect DEF DestroyClone, CallInv, LinkInv
  <2>. QED  BY <2>2
<1>5. ASSUME Now(c)
      PROVE  /\ ~SetupConnection(c) /\ ~AddSavePoint(c) /\ ~RunQuery(c)
             /\ ~UndoSetup(c) /\ ~UndoSavePoint(c) /\ ~UndoNothing(c)
             /\ ~UndoDone(c) /\ ~CheckTail(c)
  <2>1. ~UndoNothing(c) /\ ~UndoDone(c)
    BY <1>2 DEF UndoNothing, UndoDone
  <2>2. ~SetupConnection(c)
    BY <1>1, <1>2 DEF SetupConnection
  <2>3. ~AddSavePoint(c) /\ ~UndoSavePoint(c)
    BY <1>1, <1>2 DEF AddSavePoint, UndoSavePoint, Unsent
  <2>4. ~RunQuery(c)
    <3>. SUFFICES ASSUME RunQuery(c) PROVE FALSE
      OBVIOUS
    <3>1. pc[c] = "run" /\ Current(c) \in DataQuery /\ at[c] \in 1..Last(c)
      BY <1>5 DEF RunQuery, Running, Now, ControlOK
    <3>2. "setup" \notin DataQuery
      BY DEF DataQuery, WritingQuery
    <3>3. at[c] > 1
      BY <1>5, <3>1, <3>2, PlanFacts DEF Current, Now
    <3>4. link[c] = "work" => session[c] = "block"
      BY <1>5, <3>1, <3>3, RunFacts
    <3>5. \A reply, rows : link[c] = "work" => ~Statement(c, rows, reply)
      BY <1>1, <3>4
    <3>. QED  BY <1>2, <3>5 DEF RunQuery, Unsent
  <2>5. ~UndoSetup(c) /\ ~CheckTail(c)
    <3>1. UndoSetup(c) => NothingOpen(c)
      <4>. SUFFICES ASSUME UndoSetup(c) PROVE NothingOpen(c)
        OBVIOUS
      <4>1. /\ pc[c] = "undo" /\ Current(c) = "setup"
            /\ at[c] > 0 /\ at[c] \in 0..Last(c)
        BY <1>5 DEF UndoSetup, Undoing, Now, ControlOK
      <4>2. at[c] \in 1..Last(c)
        BY <1>5, <4>1 DEF Now
      <4>3. at[c] < 2
        BY <1>5, <4>1, <4>2, PlanFacts DEF Current, Now
      <4>. QED  BY <4>1, <4>3 DEF CallInv, Retreating
    <3>2. CheckTail(c) => NothingOpen(c)
      BY DEF CheckTail, CallInv, Finishing
    <3>. QED  BY <1>2, <1>5, <3>1, <3>2, QuietClose DEF UndoSetup, CheckTail
  <2>. QED  BY <2>1, <2>2, <2>3, <2>4, <2>5
<1>6. CASE CloseQuery(c) /\ UNCHANGED callVars
  <2>1. Now(c)
    BY <1>6, NowHolds
  <2>2. pc[c] = "run" /\ Current(c) = "close" /\ at[c] = Last(c) /\ at[c] > 1
    <3>1. pc[c] = "run" /\ Current(c) = "close" /\ at[c] \in 1..Last(c)
      BY <1>6, <2>1 DEF CloseQuery, Running, Now, ControlOK
    <3>. QED  BY <2>1, <3>1, PlanFacts DEF Current, Now
  <2>3. /\ NothingYet(c)
        /\ Publishes(c) = CallRows(c)
    BY <2>1, <2>2, RunFacts DEF CallRows, Publishes
  <2>4. table' = table \cup Publishes(c)
    BY <1>6, CloseEffect DEF CloseQuery, callVars, CallInv, LinkInv
  <2>. QED  BY <2>2, <2>3, <2>4 DEF NothingYet
<1>. QED  BY <1>3, <1>4, <1>5, <1>6, NowHolds DEF InCall

\* The commits of the rollback loop, of CheckConnection and of the clone's
\* destructor publish no row; the final close of a transaction without a
\* failure publishes all of its rows at once.
THEOREM OnlySuccessCommits == SafeThrows => (SafeSpec => CommitOnlyAfterSuccess)
<1>. DEFINE Commits ==
       \A c \in Client :
         LET new == (table' \ table) \cap ({c} \X Nat \X Nat)
         IN  new # {} => /\ pc[c] = "run" /\ Current(c) = "close"
                         /\ new = CallRows(c)
<1>. SUFFICES ASSUME SafeThrows PROVE SafeSpec => [][Commits]_vars
  BY DEF CommitOnlyAfterSuccess
<1>1. TypeOK /\ IInv /\ [Next]_vars => [Commits]_vars
  <2>. SUFFICES ASSUME TypeOK, IInv, Next PROVE Commits
    OBVIOUS
  <2>1. PICK e \in Client : StartCall(e) \/ InCall(e)
    BY DEF Next
  <2>2. CASE table' = table
    BY <2>2
  <2>3. CASE table' # table
    <3>1. /\ pc[e] = "run" /\ Current(e) = "close"
          /\ table' \ table = CallRows(e)
      BY <2>1, <2>3, CommitsAtClose
    <3>2. \A r \in CallRows(e) : r[1] = e
      BY RowFacts, TypeParts DEF CallTypeOK
    <3>3. CallRows(e) \subseteq {e} \X Nat \X Nat
      <4>1. calls[e] \in Nat
        BY TypeParts, ModeAssumption DEF CallTypeOK
      <4>. QED  BY <4>1 DEF CallRows, RowsBefore, RowOf
    <3>. QED  BY <3>1, <3>2, <3>3
  <2>. QED  BY <2>2, <2>3
<1>. QED  BY <1>1, TypeCorrect, Inductive, PTL DEF SafeSpec

-----------------------------------------------------------------------------
(* No session is left behind, whatever the client's code throws            *)

\* A statement leaves a session that is there, whatever the answer.
LEMMA StaysOpen ==
  ASSUME ServerTypeOK, NEW c \in Client, NEW reply, NEW rows,
         \/ ConnectAndBegin(c, reply) \/ SavePoint(c, reply)
         \/ Statement(c, rows, reply) \/ RollbackTo(c, reply)
         \/ CommitFails(c, reply)
  PROVE  session'[c] # "none" /\ ServerOthers(c)
<1>1. ASSUME NEW s, s # "none", NEW r, NEW m, Becomes(c, s, r, m)
      PROVE  session'[c] # "none" /\ ServerOthers(c)
  BY <1>1, BecomesEffect
<1>2. CASE Fails(c, reply)
  BY <1>1, <1>2 DEF Fails, Lost, Refused
<1>. QED
  BY <1>1, <1>2
     DEF ConnectAndBegin, SavePoint, Statement, RollbackTo, CommitFails, Lost

\* After any step of the loops the iterator of a running transaction is past
\* "setup", and no call is over.
LEMMA LoopMoves ==
  ASSUME LoopTypeOK, ControlOK, NEW c \in Client, op[c] \in Op,
         \/ pc[c] = "run" /\ \E st \in Status : Executed(c, st)
         \/ pc[c] = "undo" /\ MoveBack(c)
         \/ Raised(c)
         \/ \E st \in Status : EndTransaction(c, st)
                               /\ UNCHANGED <<at, performed, trStatus>>
  PROVE  /\ pc'[c] # "idle" /\ (pc'[c] = "run" => at'[c] # 1)
         /\ LoopOthers(c)
<1>1. Last(c) \in Nat /\ at[c] \in Nat /\ (pc[c] = "run" => at[c] >= 1)
  BY PlanFacts DEF LoopTypeOK, ControlOK
<1>2. pc'[c] # "idle" /\ (pc'[c] = "run" => at'[c] # 1)
  BY <1>1 DEF Executed, MoveBack, Raised, EndTransaction, LoopTypeOK
<1>. QED  BY <1>2, LoopFrame

\* What a step of the connection keeps.
Tied(c) ==
  /\ link'[c] = "work" <=> session'[c] # "none"
  /\ ServerOthers(c) /\ LinkOthers(c)

\* A statement and what the clone makes of it keep link and session together.
LEMMA AnsweredTied ==
  ASSUME ServerTypeOK, ConnTypeOK, NEW c \in Client, link[c] = "work",
         NEW reply, NEW rows, Answered(c, reply),
         SavePoint(c, reply) \/ Statement(c, rows, reply) \/ RollbackTo(c, reply)
  PROVE  Tied(c)
<1>1. link'[c] = "work" /\ LinkOthers(c)
  BY DEF Answered, SetConn, ConnTypeOK, LinkOthers
<1>. QED  BY <1>1, StaysOpen DEF Tied

\* A step that reaches neither clone nor server keeps them together.
LEMMA IdleTied ==
  ASSUME ConnTypeOK, NEW c \in Client, link[c] = "work" <=> session[c] # "none",
         \/ UNCHANGED <<serverVars, connVars>>
         \/ \E empty \in BOOLEAN : Unsent(c, empty)
  PROVE  Tied(c)
<1>1. /\ link'[c] = link[c] /\ LinkOthers(c)
      /\ session'[c] = session[c] /\ ServerOthers(c)
  BY DEF Unsent, SetConn, ConnTypeOK, LinkOthers, ServerOthers, serverVars,
         connVars
<1>. QED  BY <1>1 DEF Tied

\* CloseConnection ends link and session together, or neither.
LEMMA CloseTied ==
  ASSUME ServerTypeOK, ConnTypeOK, NEW c \in Client,
         link[c] = "work" <=> session[c] # "none",
         CloseReturns(c) \/ CloseThrows(c)
  PROVE  Tied(c) /\ (CloseReturns(c) => link'[c] = "none")
<1>1. CASE CloseReturns(c)
  <2>1. link'[c] = "none" /\ LinkOthers(c)
    BY <1>1 DEF CloseReturns, SetConn, ConnTypeOK, LinkOthers
  <2>2. session'[c] = "none" /\ ServerOthers(c)
    <3>1. CASE link[c] = "work"
      BY <1>1, <3>1, CommitEffect DEF CloseReturns
    <3>2. CASE link[c] # "work"
      BY <1>1, <3>2 DEF CloseReturns, serverVars, ServerOthers
    <3>. QED  BY <3>1, <3>2
  <2>. QED  BY <2>1, <2>2 DEF Tied
<1>2. CASE CloseThrows(c) /\ ~CloseReturns(c)
  <2>1. link'[c] = link[c] /\ link[c] = "work" /\ LinkOthers(c)
    BY <1>2 DEF CloseThrows, connVars, LinkOthers
  <2>2. session'[c] # "none" /\ ServerOthers(c)
    BY <1>2, StaysOpen DEF CloseThrows
  <2>. QED  BY <1>2, <2>1, <2>2 DEF Tied
<1>. QED  BY <1>1, <1>2

\* The queries and their rollbacks keep link and session together.
LEMMA QueryTied ==
  ASSUME TypeOK, ControlOK, NEW c \in Client, LinkInv(c), pc[c] = "run",
         SetupConnection(c) \/ AddSavePoint(c) \/ RunQuery(c) \/ CloseQuery(c)
  PROVE  Tied(c) /\ (Raised(c) \/ \E st \in Status : Executed(c, st))
<1>. /\ ServerTypeOK /\ LoopTypeOK /\ ConnTypeOK
     /\ op[c] \in Op /\ (link[c] = "work" <=> session[c] # "none")
     /\ "OK" \in Status /\ "HAVE_ERROR" \in Status
  BY TypeParts DEF CallTypeOK, LinkInv, Status
<1>1. CASE SetupConnection(c)
  <2>1. Current(c) = "setup" /\ at[c] \in 1..Last(c)
    BY <1>1 DEF SetupConnection, Running, ControlOK
  <2>2. link[c] # "work" /\ session[c] = "none"
    BY <2>1, PlanFacts DEF Current, LinkInv
  <2>3. Tied(c)
    <3>1. CASE SetConn(c, "OK", error[c], connected[c], link[c])
               /\ UNCHANGED serverVars
      BY <3>1, <2>2 DEF SetConn, ConnTypeOK, LinkOthers, ServerOthers,
                        serverVars, Tied
    <3>2. ASSUME NEW reply \in Reply, ConnectAndBegin(c, reply),
                 \/ SetConn(c, "OK", error[c], TRUE, "work")
                 \/ SetConn(c, "HAVE_ERROR", TRUE, TRUE, "work")
          PROVE  Tied(c)
      <4>1. link'[c] = "work" /\ LinkOthers(c)
        BY <3>2 DEF SetConn, ConnTypeOK, LinkOthers
      <4>. QED  BY <3>2, <4>1, StaysOpen DEF Tied
    <3>3. CASE /\ \E l \in {"none", "socket"} :
                    SetConn(c, "HAVE_ERROR", TRUE, connected[c], l)
               /\ UNCHANGED serverVars
      BY <3>3, <2>2 DEF SetConn, ConnTypeOK, LinkOthers, ServerOthers,
                        serverVars, Tied
    <3>. QED  BY <1>1, <3>1, <3>2, <3>3 DEF SetupConnection, Reply
  <2>. QED  BY <1>1, <2>3 DEF SetupConnection
<1>2. CASE AddSavePoint(c)
  <2>1. Tied(c)
    BY <1>2, AnsweredTied, IdleTied DEF AddSavePoint
  <2>. QED  BY <1>2, <2>1, AnsweredType DEF AddSavePoint, UnsentStatus, Status
<1>3. CASE RunQuery(c)
  <2>. DEFINE rows == IF Writes(c, at[c]) THEN {RowOf(c, at[c])} ELSE {}
  <2>1. CASE UNCHANGED <<serverVars, connVars>> /\ Raised(c)
    BY <2>1, IdleTied
  <2>2. CASE \E empty \in BOOLEAN : Unsent(c, empty) /\ Executed(c, UnsentStatus(c))
    <3>1. UnsentStatus(c) \in Status
      BY DEF UnsentStatus, Status
    <3>. QED  BY <2>2, <3>1, IdleTied
  <2>3. ASSUME NEW reply \in Reply, link[c] = "work",
               Statement(c, rows, reply), Answered(c, reply),
               Executed(c, StatusAfter(c, reply))
        PROVE  Tied(c) /\ \E st \in Status : Executed(c, st)
    BY <2>3, AnsweredTied, AnsweredType
  <2>4. CASE link[c] = "work" /\ Statement(c, rows, "ok") /\ UNCHANGED connVars
             /\ Raised(c)
    <3>1. session'[c] # "none" /\ ServerOthers(c)
      BY <2>4, StaysOpen
    <3>. QED  BY <2>4, <3>1 DEF Tied, connVars, LinkOthers
  <2>5. \/ UNCHANGED <<serverVars, connVars>> /\ Raised(c)
        \/ \E empty \in BOOLEAN : Unsent(c, empty) /\ Executed(c, UnsentStatus(c))
        \/ \E reply \in Reply : /\ link[c] = "work"
                                /\ Statement(c, rows, reply)
                                /\ Answered(c, reply)
                                /\ Executed(c, StatusAfter(c, reply))
        \/ /\ link[c] = "work" /\ Statement(c, rows, "ok")
           /\ UNCHANGED connVars /\ Raised(c)
    BY <1>3 DEF RunQuery
  <2>. QED  BY <2>1, <2>2, <2>3, <2>4, <2>5
<1>4. CASE CloseQuery(c)
  BY <1>4, CloseTied DEF CloseQuery
<1>. QED  BY <1>1, <1>2, <1>3, <1>4

\* The steps of the loops, and the two that end a call.
LEMMA CallTied ==
  ASSUME TypeOK, ControlOK, NEW c \in Client, LinkInv(c), InCall(c)
  PROVE  /\ Tied(c) /\ LoopOthers(c)
         /\ pc'[c] = "run" => at'[c] # 1
         /\ pc'[c] = "idle" => link'[c] = "none"
<1>. /\ ServerTypeOK /\ CallTypeOK /\ LoopTypeOK /\ ConnTypeOK
     /\ op[c] \in Op /\ (link[c] = "work" <=> session[c] # "none")
  BY TypeParts DEF CallTypeOK, LinkInv
<1>1. CASE SetupConnection(c) \/ AddSavePoint(c) \/ RunQuery(c) \/ CloseQuery(c)
  <2>1. pc[c] = "run"
    BY <1>1 DEF SetupConnection, AddSavePoint, RunQuery, CloseQuery, Running
  <2>. QED  BY <1>1, <2>1, QueryTied, LoopMoves
<1>2. CASE UndoSetup(c)
  <2>1. /\ Tied(c) /\ pc[c] = "undo"
        /\ MoveBack(c) \/ Raised(c)
    BY <1>2, CloseTied DEF UndoSetup, Undoing
  <2>. QED  BY <2>1, LoopMoves
<1>3. CASE UndoSavePoint(c)
  <2>1. Tied(c) /\ pc[c] = "undo" /\ MoveBack(c)
    BY <1>3, AnsweredTied DEF UndoSavePoint, Undoing
  <2>. QED  BY <2>1, LoopMoves
<1>4. CASE UndoNothing(c)
  <2>1. Tied(c) /\ pc[c] = "undo" /\ MoveBack(c)
    BY <1>4, IdleTied DEF UndoNothing
  <2>. QED  BY <2>1, LoopMoves
<1>5. CASE UndoDone(c)
  <2>1. /\ Tied(c) /\ EndTransaction(c, trStatus[c])
        /\ UNCHANGED <<at, performed, trStatus>>
    BY <1>5, IdleTied DEF UndoDone
  <2>2. trStatus[c] \in Status
    BY DEF LoopTypeOK
  <2>. QED  BY <2>1, <2>2, LoopMoves
<1>6. CASE CheckTail(c)
  <2>1. Tied(c)
    BY <1>6, IdleTied, CloseTied DEF CheckTail
  <2>2. pc'[c] = "destroy" /\ LoopOthers(c)
    BY <1>6 DEF CheckTail, LoopTypeOK, LoopOthers
  <2>. QED  BY <2>1, <2>2
<1>7. CASE DestroyClone(c)
  <2>1. Tied(c) /\ (CloseReturns(c) => link'[c] = "none")
    BY <1>7, CloseTied DEF DestroyClone
  <2>2. /\ LoopOthers(c) /\ pc'[c] # "run"
        /\ pc'[c] = "idle" => CloseReturns(c)
    BY <1>7 DEF DestroyClone, LoopTypeOK, LoopOthers
  <2>. QED  BY <2>1, <2>2
<1>. QED  BY <1>1, <1>2, <1>3, <1>4, <1>5, <1>6, <1>7 DEF InCall

Linked == \A c \in Client : LinkInv(c)

\* No step of any client parts a link from its session.
LEMMA LinkStep == TypeOK /\ ControlOK /\ Linked /\ [Next]_vars => Linked'
<1>. SUFFICES ASSUME TypeOK, ControlOK, Linked, [Next]_vars PROVE Linked'
  OBVIOUS
<1>1. ASSUME NEW c \in Client, InCall(c) PROVE Linked'
  <2>1. /\ Tied(c) /\ LoopOthers(c)
        /\ pc'[c] = "run" => at'[c] # 1
        /\ pc'[c] = "idle" => link'[c] = "none"
    BY <1>1, CallTied DEF Linked
  <2>. QED  BY <2>1 DEF Linked, LinkInv, Tied, LoopOthers, ServerOthers,
                        LinkOthers
<1>2. ASSUME NEW c \in Client, StartCall(c) PROVE Linked'
  BY <1>2, TypeParts
     DEF StartCall, serverVars, Linked, LinkInv, LoopTypeOK, ConnTypeOK
<1>3. CASE UNCHANGED vars
  BY <1>3 DEF vars, serverVars, loopVars, connVars, Linked, LinkInv
<1>. QED  BY <1>1, <1>2, <1>3 DEF Next

\* When a caller has its answer the session of its call is closed, however
\* the call went, whatever its queries are and whatever the client's own
\* code has thrown.
THEOREM NoSessionLeft == SafeSpec => []NoSessionOutlivesItsCall
<1>1. Init => TypeOK /\ ControlOK /\ Linked
  BY InitType, InitInv DEF IInv, CallInv, Linked
<1>2. TypeOK /\ ControlOK /\ Linked /\ [Next]_vars
        => (TypeOK /\ ControlOK /\ Linked)'
  BY TypeStep, LinkStep
<1>3. Linked => NoSessionOutlivesItsCall
  BY DEF Linked, LinkInv, NoSessionOutlivesItsCall
<1>. QED  BY <1>1, <1>2, <1>3, PTL DEF SafeSpec

-----------------------------------------------------------------------------
(* AtomicCalls: one step of the detailed system is one step of the         *)
(* abstract one, or a stutter.                                             *)

\* An acknowledgement is lost only with the rows of the commit it was for.
LEMMA Unacknowledged ==
  ASSUME NEW c \in Client, StartCall(c) \/ InCall(c)
  PROVE  \/ unacked' = unacked
         \/ /\ unacked' = unacked \cup Publishes(c)
            /\ table' = table \cup Publishes(c)
<1>1. ASSUME NEW reply, Fails(c, reply) PROVE unacked' = unacked
  BY <1>1 DEF Fails, Lost, Refused
<1>2. ASSUME NEW reply, NEW rows,
             \/ ConnectAndBegin(c, reply) \/ SavePoint(c, reply)
             \/ Statement(c, rows, reply) \/ RollbackTo(c, reply)
      PROVE  unacked' = unacked
  BY <1>1, <1>2 DEF ConnectAndBegin, SavePoint, Statement, RollbackTo
<1>3. UNCHANGED serverVars => unacked' = unacked
  BY DEF serverVars
<1>4. CloseReturns(c) => unacked' = unacked
  BY <1>3 DEF CloseReturns, CommitAndDisconnect
<1>5. CloseThrows(c) => \/ unacked' = unacked
                        \/ /\ unacked' = unacked \cup Publishes(c)
                           /\ table' = table \cup Publishes(c)
  BY DEF CloseThrows, CommitFails, Lost
<1>6. /\ StartCall(c) => unacked' = unacked
      /\ UndoNothing(c) => unacked' = unacked
      /\ UndoDone(c) => unacked' = unacked
  BY <1>3 DEF StartCall, UndoNothing, UndoDone
<1>7. SetupConnection(c) => unacked' = unacked
  BY <1>2, <1>3 DEF SetupConnection
<1>8. AddSavePoint(c) \/ UndoSavePoint(c) => unacked' = unacked
  BY <1>2, <1>3 DEF AddSavePoint, UndoSavePoint, Unsent
<1>9. RunQuery(c) => unacked' = unacked
  BY <1>2, <1>3 DEF RunQuery, Unsent
<1>10. CloseQuery(c) \/ UndoSetup(c) \/ CheckTail(c) \/ DestroyClone(c)
         => \/ CloseReturns(c) \/ CloseThrows(c) \/ UNCHANGED serverVars
  BY DEF CloseQuery, UndoSetup, CheckTail, DestroyClone
<1>. QED  BY <1>3, <1>4, <1>5, <1>6, <1>7, <1>8, <1>9, <1>10 DEF InCall

\* The initial states of the system are initial states of AtomicCalls.
LEMMA AtomicInit == Init => Atomic!Init
<1>. SUFFICES ASSUME Init PROVE Atomic!Init
  OBVIOUS
<1>1. table = {} /\ unacked = {}
  BY DEF Init, ServerInit
<1>2. /\ alive = TRUE /\ calls = [c \in Client |-> 0]
      /\ reported = [c \in Client |-> "DEFAULT"]
      /\ pc = [c \in Client |-> "idle"]
  BY DEF Init
<1>3. [c \in Client |-> pc[c] # "idle"] = [c \in Client |-> FALSE]
  BY <1>2
<1>4. ASSUME NEW c \in Client
      PROVE  CallRows(c) \in SUBSET (Client \X Nat \X Nat)
  <2>1. CallTypeOK /\ calls[c] \in Nat /\ op[c] \in Op
    BY <1>2, InitType, TypeParts DEF CallTypeOK
  <2>2. Last(c) \in Nat
    BY <2>1, PlanFacts
  <2>. QED  BY <2>1, <2>2 DEF CallRows, RowsBefore, RowOf
<1>5. [c \in Client |-> CallRows(c)]
        \in [Client -> SUBSET (Client \X Nat \X Nat)]
  BY <1>4
<1>. QED  BY <1>1, <1>2, <1>3, <1>5 DEF Atomic!Init

\* A step of one client changes the rows asked for by no other client, and
\* its own only when its call begins.
LEMMA TargetStep ==
  ASSUME NEW c \in Client, CallOthers(c)
  PROVE  /\ \A d \in Client \ {c} : CallRows(d)' = CallRows(d)
         /\ CallRows(c)' = CallRows(c) =>
              [d \in Client |-> CallRows(d)]' = [d \in Client |-> CallRows(d)]
<1>1. \A d \in Client \ {c} : CallRows(d)' = CallRows(d)
  BY FrameRows DEF CallOthers
<1>. QED  BY <1>1

\* The beginning of a call is the abstract invocation.
LEMMA AtomicInvoke ==
  ASSUME TypeOK, NEW c \in Client, StartCall(c)
  PROVE  Atomic!Invoke(c)
<1>. CallTypeOK /\ LoopTypeOK /\ calls[c] \in Nat
  BY TypeParts, ModeAssumption DEF CallTypeOK
<1>1. /\ pc[c] = "idle" /\ calls[c] < MaxCalls
      /\ calls' = [calls EXCEPT ![c] = @ + 1]
      /\ calls'[c] = calls[c] + 1 /\ op'[c] \in Op
      /\ UNCHANGED <<table, unacked, alive, reported>>
  BY DEF StartCall, serverVars, CallTypeOK
<1>2. [d \in Client |-> pc[d] # "idle"]'
        = [[d \in Client |-> pc[d] # "idle"] EXCEPT ![c] = TRUE]
  BY DEF StartCall, LoopTypeOK
<1>3. CallOthers(c)
  BY DEF StartCall, CallOthers, CallTypeOK
<1>4. [d \in Client |-> CallRows(d)]'
        = [[d \in Client |-> CallRows(d)] EXCEPT ![c] = CallRows(c)']
  BY <1>3, TargetStep
<1>5. CallRows(c)' \subseteq ({c} \X {calls[c] + 1} \X Nat)
  <2>1. Last(c)' \in Nat
    BY <1>1, PlanAssumption DEF WellFormed, Last
  <2>. QED  BY <1>1, <2>1 DEF CallRows, RowsBefore, RowOf
<1>6. [d \in Client |-> CallRows(d)]'[c] = CallRows(c)'
  OBVIOUS
<1>. QED  BY <1>1, <1>2, <1>4, <1>5, <1>6 DEF Atomic!Invoke

\* What a step inside a call does to the three variables that AtomicCalls
\* does not share.
LEMMA InCallView ==
  ASSUME TypeOK, ControlOK, NEW c \in Client, InCall(c), LinkInv(c)
  PROVE  /\ pc[c] # "idle"
         /\ [d \in Client |-> CallRows(d)]' = [d \in Client |-> CallRows(d)]
         /\ ~DestroyClone(c) =>
              /\ UNCHANGED callVars
              /\ [d \in Client |-> pc[d] # "idle"]'
                   = [d \in Client |-> pc[d] # "idle"]
<1>. LoopTypeOK /\ ConnTypeOK /\ CallTypeOK /\ ServerTypeOK /\ op[c] \in Op
  BY TypeParts DEF CallTypeOK
<1>1. pc[c] # "idle"
  BY DEF InCall, SetupConnection, AddSavePoint, RunQuery, CloseQuery, Running,
         UndoSetup, UndoSavePoint, UndoNothing, UndoDone, Undoing, CheckTail,
         DestroyClone
<1>2. calls' = calls /\ op' = op /\ dry' = dry
  BY DEF InCall, DestroyClone, callVars
<1>3. [d \in Client |-> CallRows(d)]' = [d \in Client |-> CallRows(d)]
  <2>1. \A d \in Client : CallRows(d)' = CallRows(d)
    BY <1>2, FrameRows
  <2>. QED  BY <2>1
<1>4. ASSUME ~DestroyClone(c)
      PROVE  /\ UNCHANGED callVars
             /\ [d \in Client |-> pc[d] # "idle"]'
                  = [d \in Client |-> pc[d] # "idle"]
  <2>1. UNCHANGED callVars
    BY <1>4 DEF InCall
  <2>2. LoopOthers(c)
    BY CallTied
  <2>3. pc'[c] # "idle"
    <3>1. CASE SetupConnection(c) \/ AddSavePoint(c) \/ RunQuery(c)
               \/ CloseQuery(c)
      <4>1. pc[c] = "run"
        BY <3>1 DEF SetupConnection, AddSavePoint, RunQuery, CloseQuery, Running
      <4>. QED  BY <3>1, <4>1, QueryTied, LoopMoves
    <3>2. CASE UndoSetup(c) \/ UndoSavePoint(c) \/ UndoNothing(c)
      <4>1. pc[c] = "undo" /\ (MoveBack(c) \/ Raised(c))
        BY <3>2 DEF UndoSetup, UndoSavePoint, UndoNothing, Undoing
      <4>. QED  BY <4>1, LoopMoves
    <3>3. CASE UndoDone(c) \/ CheckTail(c)
      BY <3>3 DEF UndoDone, CheckTail, EndTransaction, LoopTypeOK
    <3>. QED  BY <1>4, <3>1, <3>2, <3>3 DEF InCall
  <2>. QED  BY <1>1, <2>1, <2>2, <2>3 DEF LoopOthers
<1>. QED  BY <1>1, <1>3, <1>4

\* A step that publishes rows is the abstract commit.
LEMMA AtomicCommit ==
  ASSUME SafeThrows, TypeOK, IInv, NEW c \in Client, InCall(c),
         ~DestroyClone(c), table' # table
  PROVE  Atomic!Commit(c)
<1>1. /\ ControlOK /\ LinkInv(c) /\ Block(c) /\ NothingYet(c)
      /\ pc[c] = "run" /\ table' \ table = CallRows(c)
  BY CommitsAtClose DEF IInv, CallInv, Advancing
<1>2. table \subseteq table'
  BY CallStep DEF Frame, Grows
<1>3. table' = table \cup CallRows(c) /\ CallRows(c) # {}
  BY <1>1, <1>2
<1>4. unacked' \in {unacked, unacked \cup CallRows(c)}
  <2>1. CASE unacked' = unacked
    BY <2>1
  <2>2. CASE /\ unacked' = unacked \cup Publishes(c)
             /\ table' = table \cup Publishes(c)
    <3>1. Publishes(c) \subseteq CallRows(c)
      BY <1>1 DEF Publishes, Block
    <3>2. Publishes(c) = CallRows(c)
      BY <1>1, <2>2, <3>1
    <3>. QED  BY <2>2, <3>2
  <2>. QED  BY <2>1, <2>2, Unacknowledged
<1>5. /\ pc[c] # "idle" /\ UNCHANGED callVars
      /\ [d \in Client |-> CallRows(d)]' = [d \in Client |-> CallRows(d)]
      /\ [d \in Client |-> pc[d] # "idle"]' = [d \in Client |-> pc[d] # "idle"]
  BY <1>1, InCallView
<1>6. CallRows(c) \cap table = {}
  BY <1>1 DEF NothingYet
<1>. QED  BY <1>3, <1>4, <1>5, <1>6 DEF Atomic!Commit, callVars

\* Any other step of the loops is a stutter.
LEMMA AtomicStutter ==
  ASSUME SafeThrows, TypeOK, IInv, NEW c \in Client, InCall(c),
         ~DestroyClone(c), table' = table
  PROVE  UNCHANGED Atomic!vars
<1>1. ControlOK /\ LinkInv(c) /\ Block(c) /\ CallInv(c)
  BY DEF IInv, CallInv
<1>2. /\ pc[c] # "idle" /\ UNCHANGED callVars
      /\ [d \in Client |-> CallRows(d)]' = [d \in Client |-> CallRows(d)]
      /\ [d \in Client |-> pc[d] # "idle"]' = [d \in Client |-> pc[d] # "idle"]
  BY <1>1, InCallView
<1>3. unacked' = unacked
  <2>1. Publishes(c) \cap table = {}
    <3>1. CASE pc[c] \in {"run", "undo"}
      BY <1>1, <3>1
         DEF CallInv, Advancing, Retreating, NothingYet, Block, Publishes
    <3>2. CASE pc[c] \in {"check", "destroy"}
      BY <1>1, <3>2 DEF CallInv, Finishing, NothingOpen, Publishes
    <3>. QED  BY <1>2, <3>1, <3>2, TypeParts DEF LoopTypeOK
  <2>. QED  BY <2>1, Unacknowledged
<1>. QED  BY <1>2, <1>3 DEF Atomic!vars, callVars

\* The end of a call is the abstract return, or the abstract death.
LEMMA AtomicEnd ==
  ASSUME SafeThrows, TypeOK, IInv, NEW c \in Client, DestroyClone(c)
  PROVE  Atomic!Return(c) \/ Atomic!Die
<1>. LoopTypeOK /\ CallTypeOK /\ ControlOK /\ CallInv(c) /\ InCall(c)
  BY TypeParts DEF IInv, InCall
<1>1. pc[c] = "destroy" /\ NothingOpen(c) /\ Verdict(c, result[c])
  BY DEF DestroyClone, CallInv, Finishing
<1>2. table' = table /\ unacked' = unacked
  <2>1. Publishes(c) = {}
    BY <1>1 DEF NothingOpen, Publishes
  <2>2. table' = table
    BY <1>1, CommitsAtClose
  <2>. QED  BY <2>1, <2>2, Unacknowledged
<1>3. calls' = calls
  BY DEF DestroyClone
<1>4. [d \in Client |-> CallRows(d)]' = [d \in Client |-> CallRows(d)]
  BY InCallView DEF CallInv
<1>5. CASE /\ pc' = [pc EXCEPT ![c] = "idle"]
           /\ reported' = [reported EXCEPT ![c] = result[c]]
           /\ UNCHANGED alive
  <2>1. [d \in Client |-> pc[d] # "idle"]'
          = [[d \in Client |-> pc[d] # "idle"] EXCEPT ![c] = FALSE]
    BY <1>5 DEF LoopTypeOK
  <2>2. result[c] \in Atomic!Answer
    BY DEF LoopTypeOK, Status, Atomic!Answer
  <2>3. IF result[c] = "OK"
        THEN CallRows(c) \subseteq table
        ELSE CallRows(c) \cap table = {} \/ CallRows(c) \subseteq unacked
    BY <1>1 DEF Verdict, NothingYet, is_status_ok
  <2>. QED  BY <1>1, <1>2, <1>3, <1>4, <1>5, <2>1, <2>2, <2>3
            DEF Atomic!Return
<1>6. CASE alive' = FALSE /\ UNCHANGED <<pc, reported>>
  <2>1. [d \in Client |-> pc[d] # "idle"]' = [d \in Client |-> pc[d] # "idle"]
    BY <1>6
  <2>. QED  BY <1>1, <1>2, <1>3, <1>4, <1>6, <2>1 DEF Atomic!Die
<1>. QED  BY <1>5, <1>6 DEF DestroyClone

\* Each step of the system is a step of AtomicCalls or a stutter.
LEMMA AtomicStep ==
  SafeThrows /\ TypeOK /\ IInv /\ [Next]_vars => [Atomic!Next]_(Atomic!vars)
<1>. SUFFICES ASSUME SafeThrows, TypeOK, IInv, [Next]_vars
              PROVE  Atomic!Next \/ UNCHANGED Atomic!vars
  OBVIOUS
<1>1. ASSUME NEW c \in Client, alive, StartCall(c) \/ InCall(c)
      PROVE  Atomic!Next \/ UNCHANGED Atomic!vars
  <2>1. CASE StartCall(c)
    BY <1>1, <2>1, AtomicInvoke DEF Atomic!Next
  <2>2. CASE DestroyClone(c)
    BY <1>1, <2>2, AtomicEnd DEF Atomic!Next
  <2>3. CASE InCall(c) /\ ~DestroyClone(c)
    BY <1>1, <2>3, AtomicCommit, AtomicStutter DEF Atomic!Next
  <2>. QED  BY <1>1, <2>1, <2>2, <2>3
<1>2. CASE UNCHANGED vars
  <2>1. \A d \in Client : CallRows(d)' = CallRows(d)
    BY <1>2, FrameRows DEF vars, callVars
  <2>. QED  BY <1>2, <2>1
            DEF vars, callVars, loopVars, serverVars, Atomic!vars
<1>. QED  BY <1>1, <1>2 DEF Next

\* The transactions of any number of clients, over connections that are lost
\* and statements that are refused at any point, implement calls that take
\* effect at most once, all or nothing, and report which.
THEOREM CallsAreAtomic == SafeThrows => (SafeSpec => ImplementsAtomicCalls)
<1>. SUFFICES ASSUME SafeThrows PROVE SafeSpec => Atomic!Spec
  BY DEF ImplementsAtomicCalls
<1>1. Init => Atomic!Init
  BY AtomicInit
<1>2. TypeOK /\ IInv /\ [Next]_vars => [Atomic!Next]_(Atomic!vars)
  BY AtomicStep
<1>. QED  BY <1>1, <1>2, TypeCorrect, Inductive, PTL DEF SafeSpec, Atomic!Spec

-----------------------------------------------------------------------------
(* The death of the process                                                *)

\* The process dies only in the destructor of a clone whose connection is lost,
\* by an earlier statement or at the destructor's commit: whatever failed
\* before, no commit of a destructor has rows that the server could still refuse.
THEOREM DeathNeedsLoss ==
  SafeThrows => (SafeSpec => []DiesOnlyOfLostConnection)
<1>. SUFFICES ASSUME SafeThrows PROVE SafeSpec => []DiesOnlyOfLostConnection
  OBVIOUS
<1>1. Init => DiesOnlyOfLostConnection
  BY DEF Init, DiesOnlyOfLostConnection
<1>2. TypeOK /\ IInv /\ DiesOnlyOfLostConnection /\ [Next]_vars
        => DiesOnlyOfLostConnection'
  <2>. SUFFICES ASSUME TypeOK, IInv, DiesOnlyOfLostConnection, [Next]_vars,
                       ~alive'
                PROVE  DiesOnlyOfLostConnection'
    BY DEF DiesOnlyOfLostConnection
  <2>1. CASE UNCHANGED vars
    BY <2>1 DEF vars, serverVars, callVars, loopVars, connVars,
                DiesOnlyOfLostConnection
  <2>2. ASSUME NEW c \in Client, alive, StartCall(c) \/ InCall(c)
        PROVE  DiesOnlyOfLostConnection'
    <3>. ServerTypeOK /\ ConnTypeOK /\ CallInv(c)
      BY TypeParts DEF IInv
    <3>1. DestroyClone(c) /\ CloseThrows(c) /\ UNCHANGED <<pc, reported>>
      BY <2>2 DEF StartCall, InCall, callVars, DestroyClone
    <3>2. Publishes(c) = {} /\ pc[c] = "destroy"
      BY <3>1 DEF DestroyClone, CallInv, Finishing, NothingOpen, Publishes
    <3>3. Lost(c) /\ link[c] = "work" /\ link'[c] = link[c]
      BY <3>1, <3>2 DEF CloseThrows, CommitFails, connVars
    <3>4. session'[c] = "broken"
      BY <3>3, BecomesEffect DEF Lost
    <3>. QED  BY <3>1, <3>2, <3>3, <3>4 DEF DiesOnlyOfLostConnection
  <2>. QED  BY <2>1, <2>2 DEF Next
<1>. QED  BY <1>1, <1>2, TypeCorrect, Inductive, PTL DEF SafeSpec

-----------------------------------------------------------------------------
(* A dry run                                                               *)

\* What a dry run can answer.
LocalAnswer(st) == st = "OK" \/ ("build" \in Throws /\ st = "HAVE_ERROR")

\* A dry run has no connection, rolls nothing back and cannot fail but where
\* a statement cannot be built.
DryInv(c) ==
  dry[c] =>
    /\ link[c] = "none" /\ pc[c] # "undo"
    /\ pc[c] \in {"check", "destroy"} => LocalAnswer(result[c])
    /\ pc[c] = "idle" => LocalAnswer(reported[c])

\* The loop goes on, or ends with the answer of its last query.
LEMMA DryExecuted ==
  ASSUME LoopTypeOK, NEW c \in Client, pc[c] = "run",
         Executed(c, "OK") \/ ("build" \in Throws /\ Raised(c))
  PROVE  /\ pc'[c] \in {"run", "check", "destroy"}
         /\ pc'[c] # "run" => LocalAnswer(result'[c])
<1>1. CASE Executed(c, "OK")
  BY <1>1 DEF Executed, EndTransaction, is_status_ok, LocalAnswer, LoopTypeOK
<1>2. CASE "build" \in Throws /\ Raised(c)
  BY <1>2 DEF Raised, EndTransaction, LocalAnswer, LoopTypeOK
<1>. QED  BY <1>1, <1>2

\* A step of a dry call sends nothing and fails only if a statement cannot
\* be built.
LEMMA DryCall ==
  ASSUME TypeOK, ControlOK, NEW c \in Client, LinkInv(c), DryInv(c), InCall(c)
  PROVE  DryInv(c)' /\ (dry[c] => UNCHANGED serverVars)
<1>. SUFFICES ASSUME dry[c] \/ dry'[c]
              PROVE  DryInv(c)' /\ UNCHANGED serverVars
  BY DEF DryInv
<1>. LoopTypeOK /\ ConnTypeOK /\ CallTypeOK
  BY TypeParts
<1>1. dry' = dry
  BY DEF InCall, DestroyClone, callVars
<1>2. /\ link[c] = "none" /\ pc[c] # "undo" /\ dry[c] /\ dry'[c]
      /\ ~CloseThrows(c)
      /\ CloseReturns(c) => UNCHANGED serverVars /\ link'[c] = "none"
      /\ \A e \in BOOLEAN :
           Unsent(c, e) => UNCHANGED serverVars /\ link'[c] = "none"
      /\ UnsentStatus(c) = "OK"
  BY <1>1 DEF DryInv, CloseThrows, CloseReturns, Unsent, SetConn, ConnTypeOK,
              UnsentStatus
<1>3. ASSUME UNCHANGED serverVars, link'[c] = "none", pc[c] = "run",
             Executed(c, "OK") \/ ("build" \in Throws /\ Raised(c))
      PROVE  DryInv(c)' /\ UNCHANGED serverVars
  <2>1. /\ pc'[c] \in {"run", "check", "destroy"}
        /\ pc'[c] # "run" => LocalAnswer(result'[c])
    BY <1>3, DryExecuted
  <2>. QED  BY <1>3, <2>1 DEF DryInv, LocalAnswer
<1>4. CASE SetupConnection(c)
  <2>1. /\ pc[c] = "run" /\ UNCHANGED serverVars /\ Executed(c, "OK")
        /\ link'[c] = "none"
    BY <1>2, <1>4 DEF SetupConnection, Running, SetConn, ConnTypeOK
  <2>. QED  BY <1>3, <2>1
<1>5. CASE AddSavePoint(c)
  BY <1>2, <1>3, <1>5 DEF AddSavePoint, Running
<1>6. CASE RunQuery(c)
  <2>1. pc[c] = "run"
    BY <1>6 DEF RunQuery, Running
  <2>2. \/ /\ "build" \in Throws /\ UNCHANGED <<serverVars, connVars>>
           /\ Raised(c)
        \/ \E e \in BOOLEAN : Unsent(c, e) /\ Executed(c, "OK")
    BY <1>2, <1>6 DEF RunQuery
  <2>3. UNCHANGED connVars => link'[c] = "none"
    BY <1>2 DEF connVars
  <2>. QED  BY <1>2, <1>3, <2>1, <2>2, <2>3
<1>7. CASE CloseQuery(c)
  BY <1>2, <1>3, <1>7 DEF CloseQuery, Running
<1>8. CASE CheckTail(c)
  <2>1. /\ pc[c] = "check" /\ pc'[c] = "destroy" /\ result'[c] = result[c]
        /\ UNCHANGED serverVars /\ link'[c] = "none"
    BY <1>2, <1>8 DEF CheckTail, LoopTypeOK, connVars
  <2>. QED  BY <1>2, <2>1 DEF DryInv, LocalAnswer
<1>9. CASE DestroyClone(c)
  <2>1. /\ pc[c] = "destroy" /\ pc'[c] = "idle" /\ reported'[c] = result[c]
        /\ UNCHANGED serverVars /\ link'[c] = "none"
    BY <1>2, <1>9 DEF DestroyClone, LoopTypeOK, CallTypeOK
  <2>. QED  BY <1>2, <2>1 DEF DryInv, LocalAnswer
<1>10. /\ ~UndoSetup(c) /\ ~UndoSavePoint(c) /\ ~UndoNothing(c) /\ ~UndoDone(c)
  BY <1>2 DEF UndoSetup, UndoSavePoint, UndoNothing, UndoDone, Undoing
<1>. QED  BY <1>4, <1>5, <1>6, <1>7, <1>8, <1>9, <1>10 DEF InCall

\* What every step leaves alone of the other clients.
LEMMA OthersStay ==
  ASSUME TypeOK, ControlOK, Linked, NEW c \in Client, StartCall(c) \/ InCall(c)
  PROVE  ServerOthers(c) /\ LinkOthers(c) /\ LoopOthers(c) /\ CallOthers(c)
<1>. LoopTypeOK /\ ConnTypeOK /\ CallTypeOK
  BY TypeParts
<1>1. CASE StartCall(c)
  BY <1>1 DEF StartCall, serverVars, ServerOthers, LinkOthers, LoopOthers,
              CallOthers, LoopTypeOK, ConnTypeOK, CallTypeOK
<1>2. CASE InCall(c)
  <2>1. CallOthers(c)
    BY <1>2 DEF InCall, DestroyClone, callVars, CallOthers, CallTypeOK
  <2>. QED  BY <1>2, <2>1, CallTied DEF Linked, Tied
<1>. QED  BY <1>1, <1>2

Dry == \A c \in Client : DryInv(c)

\* No step of any client lets a dry call leave its invariant.
LEMMA DryStep == TypeOK /\ ControlOK /\ Linked /\ Dry /\ [Next]_vars => Dry'
<1>. SUFFICES ASSUME TypeOK, ControlOK, Linked, Dry, [Next]_vars PROVE Dry'
  OBVIOUS
<1>1. ASSUME NEW c \in Client, StartCall(c) \/ InCall(c) PROVE Dry'
  <2>1. DryInv(c)'
    <3>1. CASE StartCall(c)
      <4>1. link'[c] = "none" /\ pc'[c] = "run"
        BY <3>1, TypeParts DEF StartCall, ConnTypeOK, LoopTypeOK
      <4>. QED  BY <4>1 DEF DryInv
    <3>. QED  BY <1>1, <3>1, DryCall DEF Linked, Dry
  <2>2. ASSUME NEW d \in Client \ {c} PROVE DryInv(d)'
    <3>1. DryInv(d)
      BY DEF Dry
    <3>. QED  BY <1>1, <3>1, OthersStay
              DEF DryInv, LocalAnswer, LinkOthers, LoopOthers, CallOthers
  <2>. QED  BY <2>1, <2>2 DEF Dry
<1>2. CASE UNCHANGED vars
  BY <1>2 DEF vars, callVars, loopVars, connVars, Dry, DryInv, LocalAnswer
<1>. QED  BY <1>1, <1>2 DEF Next

\* A dry run opens no session, whatever the transaction is, and is reported
\* as a success unless one of its statements could not be built.
THEOREM DryIsLocal == SafeSpec => []DryRunStaysLocal
<1>1. Init => TypeOK /\ ControlOK /\ Linked /\ Dry
  BY InitType, InitInv DEF IInv, CallInv, Linked, Init, Dry, DryInv
<1>2. TypeOK /\ ControlOK /\ Linked /\ Dry /\ [Next]_vars
        => (TypeOK /\ ControlOK /\ Linked /\ Dry)'
  BY TypeStep, LinkStep, DryStep
<1>3. Linked /\ Dry => DryRunStaysLocal
  BY DEF Linked, LinkInv, Dry, DryInv, DryRunStaysLocal, LocalAnswer, Returned,
         is_status_ok
<1>. QED  BY <1>1, <1>2, <1>3, PTL DEF SafeSpec

-----------------------------------------------------------------------------
(* Writes need a block with a save point, whatever the client's code throws *)

\* What a session holds was written by its own client.
Owned(c) == /\ \A r \in pending[c] : r[1] = c
            /\ \A m \in mark[c] : \A r \in m : r[1] = c

\* A step that keeps it so, and publishes no row of another client.
OwnStep(c) == Owned(c)' /\ \A r \in table' \ table : r[1] = c

\* Every statement keeps it so.
LEMMA StatementOwn ==
  ASSUME ServerTypeOK, NEW c \in Client, Owned(c), NEW reply, NEW rows,
         \A r \in rows : r[1] = c,
         \/ ConnectAndBegin(c, reply) \/ SavePoint(c, reply)
         \/ Statement(c, rows, reply) \/ RollbackTo(c, reply)
         \/ CommitAndDisconnect(c) \/ CommitFails(c, reply)
  PROVE  OwnStep(c)
<1>1. ASSUME NEW s, NEW p, NEW m, Becomes(c, s, p, m),
             \A r \in p : r[1] = c, \A k \in m : \A r \in k : r[1] = c
      PROVE  Owned(c)'
  BY <1>1, BecomesEffect DEF Owned
<1>2. CASE Fails(c, reply)
  <2>1. Owned(c)'
    BY <1>1, <1>2 DEF Fails, Lost, Refused, Owned
  <2>. QED  BY <1>2, <2>1 DEF Fails, Lost, Refused, OwnStep
<1>3. CASE ConnectAndBegin(c, reply) /\ ~Fails(c, reply)
  BY <1>1, <1>3 DEF ConnectAndBegin, OwnStep
<1>4. CASE SavePoint(c, reply) /\ ~Fails(c, reply)
  <2>1. Owned(c)'
    BY <1>1, <1>4 DEF SavePoint, Owned
  <2>. QED  BY <1>4, <2>1 DEF SavePoint, OwnStep
<1>5. CASE Statement(c, rows, reply) /\ ~Fails(c, reply)
  <2>1. Owned(c)'
    BY <1>1, <1>5 DEF Statement, Owned
  <2>. QED  BY <1>5, <2>1 DEF Statement, OwnStep
<1>6. CASE RollbackTo(c, reply) /\ ~Fails(c, reply)
  <2>1. Owned(c)'
    BY <1>1, <1>6 DEF RollbackTo, Owned
  <2>. QED  BY <1>6, <2>1 DEF RollbackTo, OwnStep
<1>7. CASE CommitAndDisconnect(c)
  BY <1>7, CommitEffect DEF OwnStep, Owned, Publishes
<1>8. CASE CommitFails(c, reply)
  BY <1>8, CommitFailsEffect DEF OwnStep, Owned, Publishes
<1>. QED  BY <1>2, <1>3, <1>4, <1>5, <1>6, <1>7, <1>8

\* Every step of the client keeps it so.
LEMMA CallOwn ==
  ASSUME TypeOK, NEW c \in Client, Owned(c), StartCall(c) \/ InCall(c)
  PROVE  OwnStep(c)
<1>. ServerTypeOK
  BY TypeParts
<1>1. UNCHANGED serverVars => OwnStep(c)
  BY DEF serverVars, OwnStep, Owned
<1>2. ASSUME NEW reply,
             \/ ConnectAndBegin(c, reply) \/ SavePoint(c, reply)
             \/ RollbackTo(c, reply)
             \/ CommitAndDisconnect(c) \/ CommitFails(c, reply)
      PROVE  OwnStep(c)
  <2>. DEFINE none == {}
  <2>1. \A r \in none : r[1] = c
    OBVIOUS
  <2>. HIDE DEF none
  <2>. QED  BY <1>2, <2>1, StatementOwn
<1>3. ASSUME NEW rows, \A r \in rows : r[1] = c,
             NEW reply, Statement(c, rows, reply)
      PROVE  OwnStep(c)
  BY <1>3, StatementOwn
<1>4. SetupConnection(c) => OwnStep(c)
  BY <1>1, <1>2 DEF SetupConnection
<1>5. AddSavePoint(c) \/ UndoSavePoint(c) => OwnStep(c)
  BY <1>1, <1>2 DEF AddSavePoint, UndoSavePoint, Unsent
<1>6. CloseReturns(c) \/ CloseThrows(c) => OwnStep(c)
  BY <1>1, <1>2 DEF CloseReturns, CloseThrows
<1>7. RunQuery(c) => OwnStep(c)
  <2>. DEFINE rows == IF Writes(c, at[c]) THEN {RowOf(c, at[c])} ELSE {}
  <2>1. \A r \in rows : r[1] = c
    BY DEF RowOf
  <2>2. RunQuery(c) => \/ UNCHANGED serverVars
                       \/ \E reply : Statement(c, rows, reply)
    BY DEF RunQuery, Unsent
  <2>. HIDE DEF rows
  <2>. QED  BY <1>1, <1>3, <2>1, <2>2
<1>8. \/ StartCall(c) \/ UndoNothing(c) \/ UndoDone(c)
        => UNCHANGED serverVars
  BY DEF StartCall, UndoNothing, UndoDone
<1>9. CloseQuery(c) \/ UndoSetup(c) \/ CheckTail(c) \/ DestroyClone(c)
        => CloseReturns(c) \/ CloseThrows(c) \/ UNCHANGED serverVars
  BY DEF CloseQuery, UndoSetup, CheckTail, DestroyClone
<1>. QED  BY <1>1, <1>4, <1>5, <1>7, <1>8, <1>9, <1>6 DEF InCall

\* While the transaction of a real run goes forward its block is open, with
\* the save point in it as soon as that query is behind.
Guarded(c) ==
  /\ Owned(c)
  /\ pc[c] = "run" /\ at[c] > 1 /\ ~dry[c] =>
       /\ session[c] = "block"
       /\ at[c] > 2 /\ HasSavePoint(c) => mark[c] # {}

\* A transaction goes forward only with the block that it needs.
LEMMA CallGuarded ==
  ASSUME TypeOK, ControlOK, NEW c \in Client, LinkInv(c), Guarded(c), InCall(c),
         pc'[c] = "run", ~dry'[c]
  PROVE  /\ session'[c] = "block"
         /\ at'[c] > 2 /\ HasSavePoint(c)' => mark'[c] # {}
<1>. /\ ServerTypeOK /\ LoopTypeOK /\ ConnTypeOK /\ CallTypeOK /\ op[c] \in Op
     /\ link[c] = "work" <=> session[c] # "none"
  BY TypeParts DEF CallTypeOK, LinkInv
<1>1. \A st : ~EndTransaction(c, st)
  BY DEF EndTransaction, LoopTypeOK
<1>2. /\ ~Raised(c) /\ ~UndoDone(c) /\ ~CheckTail(c) /\ ~DestroyClone(c)
      /\ pc[c] = "undo" => ~MoveBack(c)
  BY <1>1 DEF Raised, UndoDone, MoveBack, CheckTail, DestroyClone, LoopTypeOK
<1>3. ~UndoSetup(c) /\ ~UndoSavePoint(c) /\ ~UndoNothing(c)
  BY <1>2 DEF UndoSetup, UndoSavePoint, UndoNothing, Undoing
<1>4. ASSUME NEW st, Executed(c, st)
      PROVE  st = "OK" /\ at[c] < Last(c) /\ at'[c] = at[c] + 1
  BY <1>1, <1>4 DEF Executed, is_status_ok, LoopTypeOK
<1>5. ~dry[c] /\ HasSavePoint(c)' = HasSavePoint(c)
  BY FrameRows DEF InCall, DestroyClone, callVars
<1>6. /\ pc[c] = "run" /\ at[c] \in 1..Last(c) /\ Last(c) \in Nat
      /\ Current(c) = "setup" <=> at[c] = 1
      /\ Current(c) = "close" <=> at[c] = Last(c)
      /\ Current(c) = "savepoint" => at[c] = 2
  <2>1. pc[c] = "run"
    BY <1>2, <1>3 DEF InCall, SetupConnection, AddSavePoint, RunQuery,
                      CloseQuery, Running
  <2>. QED  BY <2>1, PlanFacts DEF ControlOK, Current
<1>7. CASE SetupConnection(c)
  <2>1. at[c] = 1 /\ at'[c] = 2
    <3>1. at[c] = 1 /\ \E st : Executed(c, st)
      BY <1>6, <1>7 DEF SetupConnection, Running
    <3>. QED  BY <3>1, <1>4
  <2>2. ConnectAndBegin(c, "ok")
    <3>1. ~Executed(c, "HAVE_ERROR")
      BY <1>4
    <3>. QED  BY <1>5, <1>7, <3>1 DEF SetupConnection
  <2>3. session'[c] = "block"
    BY <2>2, BecomesEffect DEF ConnectAndBegin, Fails
  <2>. QED  BY <2>1, <2>3
<1>8. CASE at[c] > 1 /\ ~CloseQuery(c) /\ ~SetupConnection(c)
  <2>1. /\ session[c] = "block" /\ link[c] = "work"
        /\ at[c] > 2 /\ HasSavePoint(c) => mark[c] # {}
    BY <1>5, <1>6, <1>8 DEF Guarded
  <2>2. UnsentStatus(c) # "OK"
    BY <1>5 DEF UnsentStatus
  <2>3. CASE AddSavePoint(c)
    <3>1. SavePoint(c, "ok")
      BY <1>4, <2>1, <2>3 DEF AddSavePoint, StatusAfter
    <3>. QED  BY <3>1, BecomesEffect DEF SavePoint, Fails
  <2>4. CASE RunQuery(c)
    <3>1. \E rows : Statement(c, rows, "ok")
      BY <1>2, <1>4, <2>2, <2>4 DEF RunQuery, StatusAfter
    <3>2. session'[c] = "block" /\ mark'[c] = mark[c]
      BY <2>1, <3>1, BecomesEffect DEF Statement, Reached, Fails
    <3>3. at[c] = 2 => ~HasSavePoint(c)
      BY <2>4 DEF RunQuery, Running, Current, HasSavePoint, DataQuery,
                  WritingQuery
    <3>4. at'[c] = at[c] + 1
      BY <1>2, <1>4, <2>4 DEF RunQuery
    <3>. QED  BY <1>5, <1>6, <1>8, <2>1, <3>2, <3>3, <3>4
  <2>. QED  BY <1>2, <1>3, <1>8, <2>3, <2>4 DEF InCall
<1>9. ~CloseQuery(c)
  BY <1>2, <1>6, <1>4 DEF CloseQuery, Running
<1>10. at[c] = 1 => ~AddSavePoint(c) /\ ~RunQuery(c)
  BY <1>6 DEF AddSavePoint, RunQuery, Running, DataQuery, WritingQuery
<1>. QED  BY <1>2, <1>3, <1>6, <1>7, <1>8, <1>9, <1>10 DEF InCall

Guards == \A c \in Client : Guarded(c)

\* No step of any client takes the guard away from under a transaction.
LEMMA GuardStep ==
  TypeOK /\ ControlOK /\ Linked /\ Guards /\ [Next]_vars => Guards'
<1>. SUFFICES ASSUME TypeOK, ControlOK, Linked, Guards, [Next]_vars
              PROVE  Guards'
  OBVIOUS
<1>1. ASSUME NEW c \in Client, StartCall(c) \/ InCall(c) PROVE Guards'
  <2>1. Guarded(c)'
    <3>1. Owned(c)'
      BY <1>1, CallOwn DEF Guards, Guarded, OwnStep
    <3>2. CASE StartCall(c)
      <4>1. at'[c] = 1
        BY <3>2, TypeParts DEF StartCall, LoopTypeOK
      <4>. QED  BY <3>1, <4>1 DEF Guarded
    <3>3. CASE InCall(c)
      BY <3>1, <3>3, CallGuarded DEF Guards, Guarded, Linked
    <3>. QED  BY <1>1, <3>2, <3>3
  <2>2. ASSUME NEW d \in Client \ {c} PROVE Guarded(d)'
    <3>1. Guarded(d)
      BY DEF Guards
    <3>2. ServerOthers(c) /\ LoopOthers(c) /\ CallOthers(c)
      BY <1>1, OthersStay
    <3>3. HasSavePoint(d)' = HasSavePoint(d)
      BY <3>2, FrameRows DEF CallOthers
    <3>. QED  BY <3>1, <3>2, <3>3
              DEF Guarded, Owned, ServerOthers, LoopOthers, CallOthers
  <2>. QED  BY <2>1, <2>2 DEF Guards
<1>2. CASE UNCHANGED vars
  BY <1>2 DEF vars, serverVars, callVars, loopVars, Guards, Guarded, Owned,
              HasSavePoint
<1>. QED  BY <1>1, <1>2 DEF Next

\* A writing statement takes effect only inside a block that has a save
\* point, whatever failed before it in this call or another: none ever runs
\* in autocommit mode.
THEOREM GuardedWrites == SafeSpec => WritesAreGuarded
<1>. DEFINE Inv == TypeOK /\ ControlOK /\ Linked /\ Dry /\ Guards
<1>. DEFINE Guard ==
       \A c \in Client :
         /\ pc[c] = "run" /\ Current(c) \in WritingQuery
         /\ pending'[c] # pending[c] \/ RowOf(c, at[c]) \in table' \ table
         => session[c] = "block" /\ mark[c] # {}
<1>1. Init => Inv
  BY InitType, InitInv
     DEF IInv, CallInv, Linked, Init, ServerInit, Dry, DryInv, Guards, Guarded,
         Owned
<1>2. Inv /\ [Next]_vars => Inv'
  BY TypeStep, LinkStep, DryStep, GuardStep
<1>3. Inv /\ [Next]_vars => [Guard]_vars
  <2>. SUFFICES ASSUME Inv, Next PROVE Guard
    OBVIOUS
  <2>. SUFFICES ASSUME NEW c \in Client, pc[c] = "run",
                       Current(c) \in WritingQuery,
                       \/ pending'[c] # pending[c]
                       \/ RowOf(c, at[c]) \in table' \ table
                PROVE  session[c] = "block" /\ mark[c] # {}
    OBVIOUS
  <2>. HIDE DEF Guard
  <2>1. PICK e \in Client : StartCall(e) \/ InCall(e)
    BY DEF Next
  <2>2. e = c
    <3>1. Owned(e)
      BY DEF Guards, Guarded
    <3>2. ServerOthers(e) /\ OwnStep(e)
      BY <2>1, <3>1, OthersStay, CallOwn
    <3>3. RowOf(c, at[c])[1] = c
      BY DEF RowOf
    <3>. QED  BY <3>2, <3>3 DEF ServerOthers, OwnStep
  <2>3. InCall(c)
    BY <2>1, <2>2 DEF StartCall
  <2>4. ~dry[c]
    <3>1. ~UNCHANGED serverVars
      BY DEF serverVars
    <3>. QED  BY <2>3, <3>1, DryCall DEF Linked, Dry
  <2>5. at[c] > 2 /\ HasSavePoint(c)
    <3>1. op[c] \in Op /\ at[c] \in 1..Last(c)
      BY TypeParts DEF CallTypeOK, ControlOK
    <3>2. Plan[op[c]][2] = "savepoint" /\ at[c] # 1 /\ at[c] # 2
      BY <3>1, PlanFacts DEF Current, WritingQuery
    <3>3. Last(c) \in Nat
      BY <3>1, PlanFacts
    <3>. QED  BY <3>1, <3>2, <3>3 DEF HasSavePoint
  <2>6. Guarded(c)
    BY DEF Guards
  <2>7. at[c] > 1
    BY <2>5, TypeParts DEF LoopTypeOK
  <2>. QED  BY <2>4, <2>5, <2>6, <2>7 DEF Guarded
<1>. QED
  <2>1. SafeSpec => [][Guard]_vars
    BY <1>1, <1>2, <1>3, PTL DEF SafeSpec
  <2>. QED  BY <2>1 DEF WritesAreGuarded
=============================================================================
