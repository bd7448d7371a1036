----------------------- MODULE ConnectionManager_proofs -----------------------
(***************************************************************************)
(* What the lock and the null check of DBConnectionManager do guarantee,   *)
(* for any number of threads, calls and parameters.                        *)
(***************************************************************************)
EXTENDS ConnectionManager, TLAPS

USE DEF Null, IsNull

-----------------------------------------------------------------------------
(* Types                                                                   *)

\* The initial values have their types.
LEMMA InitType == Init => TypeOK
<1> SUFFICES ASSUME Init PROVE TypeOK
  OBVIOUS
<1>1. parameters \in Params \cup {Unset} /\ status \in Status /\ made \in Nat
  BY ParamsAssumption DEF Init, Status
<1>2. connection \in Object
  BY ParamsAssumption DEF Init, Object
<1>3. calls \in 0..MaxCalls /\ Null \in Object
  BY CallAssumption DEF Init, Object
<1>. QED
  BY <1>1, <1>2, <1>3 DEF Init, TypeOK, Place, Status

\* Beginning a call keeps all types.
LEMMA BeginType ==
  ASSUME TypeOK, NEW t \in Thread,
         \/ CheckConnection(t) \/ ResetConnectionParameters(t) \/ exec_wrap(t)
  PROVE  TypeOK'
<1>1. calls' \in 0..MaxCalls /\ call' \in [Thread -> Call \cup {"none"}]
  BY CallAssumption
     DEF TypeOK, CheckConnection, ResetConnectionParameters, exec_wrap, Begin
<1>2. /\ pc' \in [Thread -> Place] /\ stage' \in [Thread -> {"check", "exec"}]
      /\ parameters' \in Params \cup {Unset}
  BY DEF TypeOK, CheckConnection, ResetConnectionParameters, exec_wrap, Begin,
         Go, Place, managerVars
<1>. QED
  BY <1>1, <1>2
     DEF TypeOK, CheckConnection, ResetConnectionParameters, exec_wrap, Begin,
         managerVars, lockVars

\* Making the connection object keeps all types.
LEMMA MakeType ==
  ASSUME TypeOK, NEW t \in Thread,
         ResetStatus(t) \/ Check(t) \/ InitBegin(t) \/ InitEnd(t)
  PROVE  TypeOK'
<1>1. pc' \in [Thread -> Place]
  BY DEF TypeOK, ResetStatus, Check, InitBegin, InitEnd, Go, Place
<1>2. status' \in Status /\ error' \in BOOLEAN
  BY DEF TypeOK, ResetStatus, Check, InitBegin, InitEnd, Status, managerVars
<1>3. connection' \in Object /\ made' \in Nat
  BY DEF TypeOK, ResetStatus, Check, InitBegin, InitEnd, Object, managerVars
<1>4. writer' \in Thread \cup {NoThread}
  BY DEF TypeOK, ResetStatus, Check, InitBegin, InitEnd, lockVars
<1>5. probed' \in Object
  BY DEF TypeOK, ResetStatus, Check, InitBegin, InitEnd, Object, localVars
<1>. QED
  BY <1>1, <1>2, <1>3, <1>4, <1>5
     DEF TypeOK, ResetStatus, Check, InitBegin, InitEnd, managerVars, lockVars,
         localVars

\* What happens to the clone keeps all types.
LEMMA UseType ==
  ASSUME TypeOK, NEW t \in Thread,
         \/ TestUsable(t) \/ GetPointer(t) \/ CloneConnection(t) \/ Enter(t)
         \/ Transact(t)
  PROVE  TypeOK'
<1>1. pc' \in [Thread -> Place]
  BY DEF TypeOK, TestUsable, GetPointer, CloneConnection, Enter, Transact,
         GiveUp, Return, Go, Place
<1>2. answer' \in [Thread -> Status \cup {"EXCEPTION"}]
  BY DEF TypeOK, TestUsable, GetPointer, CloneConnection, Enter, Transact,
         GiveUp, Return, Status, localVars
<1>3. status' \in Status /\ error' \in BOOLEAN
  BY DEF TypeOK, TestUsable, GetPointer, CloneConnection, Enter, Transact,
         Status, managerVars
<1>4. pointer' \in [Thread -> Object]
  BY DEF TypeOK, TestUsable, GetPointer, CloneConnection, Enter, Transact,
         localVars
<1>5. clone' \in [Thread -> Params \cup {Unset}]
  <2>1. ~IsNull(pointer[t]) => pointer[t][2] \in Params
    BY ParamsAssumption DEF TypeOK, Object
  <2>. QED
    BY <2>1
       DEF TypeOK, TestUsable, GetPointer, CloneConnection, Enter, Transact,
           localVars
<1>6. /\ outcome' \in [Thread -> Status] /\ probed' \in Object
      /\ readers' \in SUBSET Thread
  BY DEF TypeOK, TestUsable, GetPointer, CloneConnection, Enter, Transact,
         Status, lockVars, localVars
<1>. QED
  BY <1>1, <1>2, <1>3, <1>4, <1>5, <1>6
     DEF TypeOK, TestUsable, GetPointer, CloneConnection, Enter, Transact,
         managerVars, lockVars, localVars

\* The end of CheckConnection keeps all types.
LEMMA EndType ==
  ASSUME TypeOK, NEW t \in Thread,
         Store(t) \/ CloseProbe(t) \/ Checked(t) \/ Assign(t)
  PROVE  TypeOK'
<1>1. pc' \in [Thread -> Place] /\ stage' \in [Thread -> {"check", "exec"}]
  BY DEF TypeOK, Store, CloseProbe, Checked, Assign, Return, Go, Place,
         localVars
<1>2. /\ answer' \in [Thread -> Status \cup {"EXCEPTION"}]
      /\ outcome' \in [Thread -> Status]
  BY DEF TypeOK, Store, CloseProbe, Checked, Assign, Return, Status,
         localVars
<1>3. status' \in Status /\ error' \in BOOLEAN
  <2>1. CASE Store(t)
    <3>1. status' \in Status
      BY <2>1 DEF TypeOK, Store
    <3>2. error' = (error /\ ~is_status_aval(outcome[t]))
      BY <2>1 DEF Store
    <3>3. error' \in BOOLEAN
      BY <3>2, Zenon
    <3>. QED  BY <3>1, <3>3
  <2>2. CASE CloseProbe(t) \/ Checked(t) \/ Assign(t)
    BY <2>2 DEF TypeOK, CloseProbe, Checked, Assign, managerVars
  <2>. QED  BY <2>1, <2>2
<1>4. /\ UNCHANGED <<parameters, connection, made, lockVars, call, calls,
                     pointer, clone, probed>>
  BY DEF Store, CloseProbe, Checked, Assign, managerVars, lockVars, localVars
<1>. QED  BY <1>1, <1>2, <1>3, <1>4 DEF TypeOK, lockVars

\* Every step keeps all types.
LEMMA TypeStep == TypeOK /\ [Next]_vars => TypeOK'
<1> SUFFICES ASSUME TypeOK, [Next]_vars PROVE TypeOK'
  OBVIOUS
<1>1. CASE Next
  BY <1>1, BeginType, MakeType, UseType, EndType DEF Next, Step
<1>2. CASE UNCHANGED vars
  BY <1>2 DEF vars, managerVars, lockVars, localVars, TypeOK
<1>. QED  BY <1>1, <1>2

\* The manager's fields and the threads' locals keep their types; a
\* connection object exists only for a supplier that this build has.
THEOREM ManagerTypes == SafeSpec => []TypeOK
<1>. QED  BY InitType, TypeStep, PTL DEF SafeSpec

-----------------------------------------------------------------------------
(* The lock                                                                *)

\* connect_init_lock_: who makes the object holds it alone, who runs a
\* transaction holds it shared.
LockInv ==
  /\ writer # NoThread => readers = {}
  /\ \A t \in Thread : /\ pc[t] = "make" => writer = t
                       /\ pc[t] = "transact" => t \in readers

\* Every step keeps the lock's invariant.
LEMMA LockStep == TypeOK /\ LockInv /\ [Next]_vars => LockInv'
<1> SUFFICES ASSUME TypeOK, LockInv, [Next]_vars PROVE LockInv'
  OBVIOUS
<1>0. NoThread \notin Thread /\ pc \in [Thread -> Place]
  BY CallAssumption DEF TypeOK
<1>1. ASSUME NEW t \in Thread, InitBegin(t) \/ InitEnd(t) PROVE LockInv'
  BY <1>0, <1>1 DEF InitBegin, InitEnd, Go, LockInv
<1>2. ASSUME NEW t \in Thread, Enter(t) PROVE LockInv'
  BY <1>0, <1>2 DEF Enter, Go, LockInv
<1>3. ASSUME NEW t \in Thread, Transact(t) PROVE LockInv'
  BY <1>0, <1>3 DEF Transact, Return, Go, LockInv
<1>4. ASSUME NEW t \in Thread, UNCHANGED lockVars,
             \E p \in Place \ {"make", "transact"} : Go(t, p)
      PROVE  LockInv'
  BY <1>0, <1>4 DEF lockVars, Go, LockInv
<1>5. ASSUME NEW t \in Thread,
             \/ CheckConnection(t) \/ ResetConnectionParameters(t)
             \/ exec_wrap(t) \/ ResetStatus(t) \/ Check(t)
      PROVE  LockInv'
  BY <1>4, <1>5
     DEF CheckConnection, ResetConnectionParameters, exec_wrap, Begin,
         ResetStatus, Check, Place
<1>6. ASSUME NEW t \in Thread,
             TestUsable(t) \/ GetPointer(t) \/ CloneConnection(t)
      PROVE  LockInv'
  BY <1>4, <1>6
     DEF TestUsable, GetPointer, CloneConnection, GiveUp, Return, Place
<1>7. ASSUME NEW t \in Thread,
             Store(t) \/ CloseProbe(t) \/ Checked(t) \/ Assign(t)
      PROVE  LockInv'
  BY <1>4, <1>7 DEF Store, CloseProbe, Checked, Assign, Return, Place
<1>8. CASE UNCHANGED vars
  BY <1>8 DEF vars, lockVars, LockInv
<1>. QED  BY <1>1, <1>2, <1>3, <1>5, <1>6, <1>7, <1>8 DEF Next, Step

\* Only the thread that makes the object replaces it.
LEMMA OnlyMaking ==
  ASSUME [Next]_vars, connection' # connection
  PROVE  \E t \in Thread : pc[t] = "make"
<1>1. CASE UNCHANGED vars
  BY <1>1 DEF vars, managerVars
<1>2. ASSUME NEW t \in Thread,
             CheckConnection(t) \/ ResetConnectionParameters(t) \/ exec_wrap(t)
      PROVE  FALSE
  BY <1>2 DEF CheckConnection, ResetConnectionParameters, exec_wrap, Begin,
              managerVars
<1>3. ASSUME NEW t \in Thread, Step(t) PROVE pc[t] = "make"
  BY <1>3 DEF Step, ResetStatus, Check, InitBegin, InitEnd, TestUsable,
              GetPointer, CloneConnection, Enter, Transact, Store, CloseProbe,
              Checked, Assign, managerVars
<1>. QED  BY <1>1, <1>2, <1>3 DEF Next

\* While any thread runs a transaction, no thread replaces the connection
\* object: initDBConnection waits for the transactions, and they for it.
THEOREM NoReplacement == SafeSpec => NoReplacementUnderTransaction
<1>1. Init => LockInv
  BY DEF Init, LockInv
<1>2. TypeOK /\ LockInv /\ [Next]_vars =>
        [(\E t \in Thread : pc[t] = "transact") => connection' = connection]_vars
  BY OnlyMaking, CallAssumption DEF LockInv
<1>. QED
  BY <1>1, <1>2, LockStep, ManagerTypes, PTL
     DEF SafeSpec, NoReplacementUnderTransaction

-----------------------------------------------------------------------------
(* The pointer                                                             *)

\* Once there is an object, nobody is on the way to making another one, and
\* a pointer taken is a pointer to it.
PointerInv ==
  /\ ~IsNull(connection)
  /\ \A t \in Thread : /\ pc[t] \notin {"init", "make"}
                       /\ pc[t] = "clone" => pointer[t] = connection

\* Every step keeps the object and the pointers to it.
LEMMA PointerStep == TypeOK /\ PointerInv /\ [Next]_vars => PointerInv'
<1> SUFFICES ASSUME TypeOK, PointerInv, [Next]_vars PROVE PointerInv'
  OBVIOUS
<1>0. /\ pc \in [Thread -> Place] /\ pointer \in [Thread -> Object]
      /\ connection' = connection
  BY OnlyMaking DEF TypeOK, PointerInv
<1>1. ASSUME NEW t \in Thread, GetPointer(t) PROVE PointerInv'
  BY <1>0, <1>1 DEF GetPointer, Go, PointerInv
<1>2. ASSUME NEW t \in Thread, UNCHANGED pointer,
             \E p \in Place \ {"init", "make", "clone"} : Go(t, p)
      PROVE  PointerInv'
  BY <1>0, <1>2 DEF Go, PointerInv
<1>3. ASSUME NEW t \in Thread,
             \/ CheckConnection(t) \/ ResetConnectionParameters(t)
             \/ exec_wrap(t) \/ ResetStatus(t) \/ Check(t)
      PROVE  PointerInv'
  BY <1>2, <1>3
     DEF CheckConnection, ResetConnectionParameters, exec_wrap, Begin,
         ResetStatus, Check, NeedsInit, PointerInv, Place, localVars
<1>4. ASSUME NEW t \in Thread,
             TestUsable(t) \/ CloneConnection(t) \/ Enter(t) \/ Transact(t)
      PROVE  PointerInv'
  BY <1>2, <1>4
     DEF TestUsable, CloneConnection, Enter, Transact, GiveUp, Return, Place,
         localVars
<1>5. ASSUME NEW t \in Thread,
             Store(t) \/ CloseProbe(t) \/ Checked(t) \/ Assign(t)
      PROVE  PointerInv'
  BY <1>2, <1>5
     DEF Store, CloseProbe, Checked, Assign, Return, Place, localVars
<1>6. ASSUME NEW t \in Thread, InitBegin(t) \/ InitEnd(t) PROVE FALSE
  BY <1>6 DEF InitBegin, InitEnd, PointerInv
<1>7. CASE UNCHANGED vars
  BY <1>7 DEF vars, managerVars, localVars, PointerInv
<1>. QED  BY <1>1, <1>3, <1>4, <1>5, <1>6, <1>7 DEF Next, Step

\* A manager that has been connected before it is shared never gives a
\* thread a dangling connection, whatever the threads call, new parameters
\* included: db_connection_ is made once and never again.
THEOREM SafeOnceConnected == Connected => (SafeSpec => []NoDanglingClone)
<1> SUFFICES ASSUME Connected PROVE SafeSpec => []NoDanglingClone
  OBVIOUS
<1>1. Init => PointerInv
  BY DEF Init, PointerInv
<1>2. PointerInv => NoDanglingClone
  BY DEF PointerInv, NoDanglingClone, Dangling
<1>. QED
  BY <1>1, <1>2, PointerStep, ManagerTypes, PTL DEF SafeSpec

-----------------------------------------------------------------------------
(* One thread alone                                                        *)

\* A thread that has not called the manager is at rest.
Called == \A t \in Thread : call[t] = "none" => pc[t] = "idle"

\* The only thread of the manager: where in which function it can be, ...
PlaceInv(t) ==
  /\ pc[t] \in {"reset", "check", "init", "make", "store", "close", "checked",
                "assign"} => stage[t] = "check"
  /\ stage[t] = "exec" /\ pc[t] # "idle" => call[t] = "exec"
  /\ pc[t] = "assign" => call[t] = "exec"

\* ... what it knows of the manager on the way to a transaction, ...
ProbeInv(t) ==
  /\ status = "HAVE_ERROR" /\ IsNull(connection) => error
  /\ pc[t] = "init" => IsNull(connection) /\ status # "HAVE_ERROR"
  /\ pc[t] = "make" => status = "OK"
  /\ pc[t] = "usable" /\ stage[t] = "exec" => status # "DEFAULT"
  /\ pc[t] \in {"get", "clone", "enter", "transact", "store"} =>
       /\ Usable
       /\ stage[t] = "exec" => status = "OK"
  /\ pc[t] \in {"clone", "enter", "transact"} => pointer[t] = connection
  /\ status = "OK" =>
       \/ probed = connection
       \/ /\ stage[t] = "check"
          /\ pc[t] \in {"make", "usable", "get", "clone", "enter", "transact",
                        "store"}
  /\ pc[t] = "store" /\ outcome[t] = "OK" => probed = connection

\* ... and what the check has found.
Sound == status \in {"OK", "HAVE_ERROR"} /\ (status = "OK" => Usable /\ ~error)

AnswerInv(t) ==
  /\ pc[t] \in {"store", "close"} =>
       outcome[t] \in {"OK", "HAVE_ERROR"}
  /\ pc[t] \in {"close", "checked", "assign"} => Sound
  /\ pc[t] \in {"close", "assign"} => outcome[t] = status
  /\ pc[t] = "idle" /\ call[t] \in {"check", "reset"} =>
       Sound /\ (answer[t] = "OK" <=> status = "OK")

AloneInv(t) == PlaceInv(t) /\ ProbeInv(t) /\ AnswerInv(t)

\* Beginning a call, and the way to the connection object.
LEMMA AloneMake ==
  ASSUME TypeOK, NEW t \in Thread, AloneInv(t),
         \/ CheckConnection(t) \/ ResetConnectionParameters(t) \/ exec_wrap(t)
         \/ ResetStatus(t) \/ Check(t) \/ InitBegin(t) \/ InitEnd(t)
  PROVE  AloneInv(t)'
<1>. USE DEF AloneInv, PlaceInv, ProbeInv, AnswerInv, Sound, Usable,
             is_status_aval, Go, TypeOK
<1>1. CASE CheckConnection(t) \/ ResetConnectionParameters(t)
  BY <1>1 DEF CheckConnection, ResetConnectionParameters, Begin
<1>2. CASE exec_wrap(t)
  BY <1>2 DEF exec_wrap, managerVars
<1>3. CASE ResetStatus(t)
  BY <1>3 DEF ResetStatus, localVars
<1>4. CASE Check(t)
  BY <1>4 DEF Check, NeedsInit, managerVars, localVars
<1>5. CASE InitBegin(t)
  BY <1>5 DEF InitBegin, localVars
<1>6. CASE InitEnd(t)
  BY <1>6 DEF InitEnd, localVars
<1>. QED  BY <1>1, <1>2, <1>3, <1>4, <1>5, <1>6

\* The way through a transaction.
LEMMA AloneUse ==
  ASSUME TypeOK, NEW t \in Thread, AloneInv(t),
         \/ TestUsable(t) \/ GetPointer(t) \/ CloneConnection(t) \/ Enter(t)
         \/ Transact(t)
  PROVE  AloneInv(t)'
<1>. USE DEF AloneInv, PlaceInv, ProbeInv, AnswerInv, Sound, Usable,
             is_status_aval, Go, TypeOK
<1>1. CASE TestUsable(t)
  BY <1>1 DEF TestUsable, GiveUp, Return, Status
<1>2. CASE GetPointer(t)
  BY <1>2 DEF GetPointer, managerVars
<1>3. CASE CloneConnection(t)
  BY <1>3 DEF CloneConnection
<1>4. CASE Enter(t)
  BY <1>4 DEF Enter, managerVars, localVars
<1>5. CASE Transact(t)
  BY <1>5 DEF Transact, Return
<1>. QED  BY <1>1, <1>2, <1>3, <1>4, <1>5

\* The end of the check.
LEMMA AloneEnd ==
  ASSUME TypeOK, NEW t \in Thread, AloneInv(t),
         Store(t) \/ CloseProbe(t) \/ Checked(t) \/ Assign(t)
  PROVE  AloneInv(t)'
<1>. USE DEF AloneInv, PlaceInv, ProbeInv, AnswerInv, Sound, Usable,
             is_status_aval, Go, TypeOK
<1>1. CASE Store(t)
  BY <1>1 DEF Store, localVars
<1>2. CASE CloseProbe(t)
  BY <1>2 DEF CloseProbe, Return, managerVars
<1>3. CASE Checked(t)
  BY <1>3 DEF Checked, Return, managerVars
<1>4. CASE Assign(t)
  BY <1>4 DEF Assign
<1>. QED  BY <1>1, <1>2, <1>3, <1>4

\* Who acts is inside a call afterwards or has made one, and the others stay
\* where they are.
LEMMA Acts ==
  ASSUME TypeOK, Called, NEW t \in Thread,
         \/ CheckConnection(t) \/ ResetConnectionParameters(t) \/ exec_wrap(t)
         \/ Step(t)
  PROVE  /\ call'[t] # "none"
         /\ \A u \in Thread \ {t} : call'[u] = call[u] /\ pc'[u] = pc[u]
<1>. USE DEF Go, Return, TypeOK
<1>1. CASE \/ CheckConnection(t) \/ ResetConnectionParameters(t)
           \/ exec_wrap(t)
  BY <1>1, CallAssumption
     DEF CheckConnection, ResetConnectionParameters, exec_wrap, Begin
<1>2. CASE Step(t)
  <2>1. pc[t] # "idle"
    BY <1>2 DEF Step, ResetStatus, Check, InitBegin, InitEnd, TestUsable,
                GetPointer, CloneConnection, Enter, Transact, Store,
                CloseProbe, Checked, Assign
  <2>2. call' = call
    BY <1>2 DEF Step, ResetStatus, Check, InitBegin, InitEnd, TestUsable,
                GetPointer, CloneConnection, Enter, Transact, Store,
                CloseProbe, Checked, Assign, localVars
  <2>3. \E p \in Place : Go(t, p)
    BY <1>2 DEF Step, ResetStatus, Check, InitBegin, InitEnd, TestUsable,
                GetPointer, CloneConnection, Enter, Transact, Store,
                CloseProbe, Checked, Assign, GiveUp, Place
  <2>. QED  BY <2>1, <2>2, <2>3 DEF Called
<1>. QED  BY <1>1, <1>2

AloneHolds == Called /\ \A t \in Thread : Alone(t) => AloneInv(t)

\* In a step after which a thread is still alone, it is that thread that acts.
LEMMA AloneStep == TypeOK /\ AloneHolds /\ [Next]_vars => AloneHolds'
<1>. SUFFICES ASSUME TypeOK, AloneHolds, [Next]_vars PROVE AloneHolds'
  OBVIOUS
<1>1. CASE UNCHANGED vars
  BY <1>1 DEF vars, managerVars, localVars, AloneHolds, Called, Alone,
              AloneInv, PlaceInv, ProbeInv, AnswerInv, Sound, Usable,
              is_status_aval
<1>2. ASSUME NEW u \in Thread,
             \/ CheckConnection(u) \/ ResetConnectionParameters(u)
             \/ exec_wrap(u) \/ Step(u)
      PROVE  AloneHolds'
  <2>1. /\ call'[u] # "none"
        /\ \A v \in Thread \ {u} : call'[v] = call[v] /\ pc'[v] = pc[v]
    BY <1>2, Acts DEF AloneHolds
  <2>2. Called'
    BY <2>1 DEF AloneHolds, Called
  <2>3. ASSUME NEW t \in Thread, Alone(t)' PROVE AloneInv(t)'
    <3>1. u = t /\ Alone(t)
      BY <2>1, <2>3 DEF Alone
    <3>2. AloneInv(t)
      BY <3>1 DEF AloneHolds
    <3>. QED  BY <1>2, <3>1, <3>2, AloneMake, AloneUse, AloneEnd DEF Step
  <2>. QED  BY <2>2, <2>3 DEF AloneHolds
<1>. QED  BY <1>1, <1>2 DEF Next

\* A new manager, or one that was connected before, is sound.
LEMMA AloneInit == Init => AloneHolds
  BY DEF Init, AloneHolds, Called, AloneInv, PlaceInv, ProbeInv, AnswerInv

\* As long as one thread calls the manager its invariant holds.
LEMMA AloneAlways == SafeSpec => []AloneHolds
<1>. QED  BY AloneInit, AloneStep, ManagerTypes, PTL DEF SafeSpec

\* A thread that has the manager to itself operates only over the connection
\* object that was probed last with success, and since the last reset.
THEOREM ProbedFirst == SafeSpec => []OnlyProbedConnections
<1>1. AloneHolds => OnlyProbedConnections
  BY DEF AloneHolds, AloneInv, ProbeInv, OnlyProbedConnections, Usable
<1>. QED  BY <1>1, AloneAlways, PTL

\* What a check has answered to a thread that has the manager to itself is
\* what the manager goes by afterwards.
THEOREM AnswerKept == SafeSpec => []CheckAnswerIsKept
<1>1. AloneHolds => CheckAnswerIsKept
  BY DEF AloneHolds, AloneInv, AnswerInv, Sound, CheckAnswerIsKept, Returned
<1>. QED  BY <1>1, AloneAlways, PTL

\* With one thread, nothing but new parameters brings a manager back that has
\* failed: no check, no operation and no connection object made anew.
THEOREM ResetRecovers == SafeSpec => OnlyResetRecovers
<1>. DEFINE Recovers ==
       (\E t \in Thread : Alone(t)') /\ status = "HAVE_ERROR"
       /\ status' # "HAVE_ERROR"
       => \E t \in Thread : pc[t] = "reset"
<1>1. TypeOK /\ AloneHolds /\ [Next]_vars => [Recovers]_vars
  <2>. SUFFICES ASSUME TypeOK, AloneHolds, NEW t \in Thread, Alone(t)', Next,
                       status = "HAVE_ERROR", status' # "HAVE_ERROR"
                PROVE  pc[t] = "reset"
    OBVIOUS
  <2>1. PICK u \in Thread : \/ CheckConnection(u)
                            \/ ResetConnectionParameters(u)
                            \/ exec_wrap(u) \/ Step(u)
    BY DEF Next
  <2>2. u = t /\ Alone(t) /\ AloneInv(t)
    BY <2>1, Acts DEF Alone, AloneHolds
  <2>3. Step(t)
    BY <2>1, <2>2
       DEF CheckConnection, ResetConnectionParameters, exec_wrap, Begin,
           managerVars
  <2>. QED
    BY <2>2, <2>3
       DEF Step, ResetStatus, Check, InitBegin, InitEnd, TestUsable,
           GetPointer, CloneConnection, Enter, Transact, Store, CloseProbe,
           Checked, Assign, managerVars, AloneInv, ProbeInv, AnswerInv, Usable,
           is_status_aval
<1>. QED
  <2>1. SafeSpec => [][Recovers]_vars
    BY <1>1, AloneAlways, ManagerTypes, PTL DEF SafeSpec
  <2>. QED  BY <2>1 DEF OnlyResetRecovers
=============================================================================
