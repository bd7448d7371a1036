----------------------- MODULE FirebirdConnection_proofs -----------------------
(* Proofs about FirebirdConnection: what reaches the server, for any number of *)
(* statements.                                                                 *)
EXTENDS FirebirdConnection, TLAPS

-----------------------------------------------------------------------------
(* The inductive invariant.                                                    *)

(* Nothing is attached before SetupConnection, and never in a dry run.         *)
AttachedBySetup ==
    phase \in {"none", "made"} \/ dry => handle["att"] = "null"

(* InitConnection leaves firebird_work available only with a transaction.      *)
AvailableInTransaction ==
    phase = "open" /\ IsAvailable /\ handle["att"] = "live" => handle["tra"] = "live"

(* A careful caller of a real connection never sees STATUS_OK.                 *)
CarefulIsStopped == careful /\ ~dry => status = "DEFAULT" /\ executed = 0
DryExecutesNothing == dry => executed = 0

IInv ==
    /\ TypeOK
    /\ AttachedBySetup
    /\ AvailableInTransaction
    /\ CarefulIsStopped
    /\ DryExecutesNothing

-----------------------------------------------------------------------------
(* The operators on the pointers.                                              *)

LEMMA WithType ==
    ASSUME NEW h \in [Handles -> Pointers], NEW names \in SUBSET Handles,
           NEW p \in Pointers
    PROVE  /\ With(h, names, p) \in [Handles -> Pointers]
           /\ \A n \in Handles : With(h, names, p)[n] = IF n \in names THEN p ELSE h[n]
  BY DEF With

LEMMA MisuseType ==
    ASSUME NEW h, NEW names
    PROVE  Misuse(h, names) \in Faults
  BY DEF Misuse, Faults

(* Releasing leaves no live pointer and makes none that was null.              *)
LEMMA ReleaseType ==
    ASSUME NEW h \in [Handles -> Pointers]
    PROVE  /\ ReleaseConnection(h).handle \in [Handles -> Pointers]
           /\ ReleaseConnection(h).fault \in Faults
           /\ ReleaseConnection(h).thrown = FALSE
           /\ \A n \in Handles : /\ ReleaseConnection(h).handle[n] # "live"
                                 /\ h[n] = "null" => ReleaseConnection(h).handle[n] = "null"
<1>. DEFINE held == {n \in Handles : h[n] # "null"}
<1>1. /\ With(h, held, "released") \in [Handles -> Pointers]
      /\ \A n \in Handles :
             With(h, held, "released")[n] = IF n \in held THEN "released" ELSE h[n]
  BY WithType, held \in SUBSET Handles, "released" \in Pointers DEF Pointers
<1>2. Misuse(h, held) \in Faults
  BY MisuseType
<1>3. ReleaseConnection(h) = [handle |-> With(h, held, "released"),
                              fault |-> Misuse(h, held), thrown |-> FALSE]
  BY DEF ReleaseConnection, Outcome
<1>. QED  BY <1>1, <1>2, <1>3

(* Whatever a closing does, it attaches nothing, keeps the type, and leaves a  *)
(* live statement only to a live attachment.                                   *)
LEMMA ClosingType ==
    ASSUME NEW h \in [Handles -> Pointers], NEW o \in Closings(h),
           h["stmt"] = "live" => h["att"] = "live"
    PROVE  /\ o.handle \in [Handles -> Pointers]
           /\ o.fault \in Faults
           /\ h["att"] = "null" => o.handle["att"] = "null"
           /\ o.handle["stmt"] = "live" => o.handle["att"] = "live"
<1>. DEFINE first == IF IsAvailable THEN CommitDetach(h) ELSE {Outcome(h, "none", FALSE)}
<1>1. /\ With(h, {"tra"}, "null") \in [Handles -> Pointers]
      /\ \A n \in Handles :
             With(h, {"tra"}, "null")[n] = IF n = "tra" THEN "null" ELSE h[n]
  BY WithType, {"tra"} \in SUBSET Handles, "null" \in Pointers DEF Handles, Pointers
<1>2. PICK f \in first :
          o = IF f.thrown \/ f.fault # "none" THEN f ELSE ReleaseConnection(f.handle)
  BY DEF Closings
<1>3. \/ f = Outcome(h, Misuse(h, {"tra", "att"}), FALSE)
      \/ f = Outcome(With(h, {"tra"}, "null"), "none", FALSE)
      \/ f = Outcome(h, "none", TRUE)
      \/ f = Outcome(h, "none", FALSE)
  BY DEF CommitDetach
<1>4. /\ f.handle \in [Handles -> Pointers]
      /\ f.handle["att"] = h["att"] /\ f.handle["stmt"] = h["stmt"]
      /\ f.fault \in Faults
  <2>1. "none" \in Faults /\ Misuse(h, {"tra", "att"}) \in Faults
    BY MisuseType DEF Faults
  <2>2. "att" \in Handles /\ "stmt" \in Handles
    BY DEF Handles
  <2>. QED  BY <1>1, <1>3, <2>1, <2>2 DEF Outcome
<1>5. CASE f.thrown \/ f.fault # "none"
  BY <1>2, <1>4, <1>5
<1>6. CASE ~(f.thrown \/ f.fault # "none")
  <2>1. o = ReleaseConnection(f.handle)
    BY <1>2, <1>6
  <2>2. "att" \in Handles /\ "stmt" \in Handles
    BY DEF Handles
  <2>. QED  BY <1>4, <2>1, <2>2, ReleaseType
<1>. QED  BY <1>5, <1>6

-----------------------------------------------------------------------------
(* The steps.                                                                  *)

LEMMA HandleNames == "att" \in Handles /\ "stmt" \in Handles /\ "tra" \in Handles
  BY DEF Handles

(* InitConnection, whatever it reaches.                                        *)
LEMMA InitConnectionType ==
    ASSUME TypeOK, InitConnection
    PROVE  /\ work' \in Statuses
           /\ handle' \in [Handles -> Pointers]
           /\ fault' \in Faults
           /\ handle'["stmt"] = handle["stmt"]
           /\ \/ handle'["att"] = handle["att"] /\ handle'["tra"] = handle["tra"]
              \/ handle'["att"] = "live"
           /\ handle["att"] = "null" /\ handle'["att"] = "live" /\ work' = "OK"
                  => handle'["tra"] = "live"
<1>1. CASE fault' = "null" /\ UNCHANGED <<work, handle>>
  BY <1>1 DEF TypeOK, Faults
<1>2. ASSUME NEW made \in {{}, {"dpb"}, {"dpb", "att"}, {"dpb", "att", "tra"}},
             handle' = With(handle, made, "live"),
             work' = IF "tra" \in made THEN work ELSE "HAVE_ERROR",
             UNCHANGED fault
      PROVE  /\ work' \in Statuses
             /\ handle' \in [Handles -> Pointers]
             /\ fault' \in Faults
             /\ handle'["stmt"] = handle["stmt"]
             /\ \/ handle'["att"] = handle["att"] /\ handle'["tra"] = handle["tra"]
                \/ handle'["att"] = "live"
             /\ handle["att"] = "null" /\ handle'["att"] = "live" /\ work' = "OK"
                    => handle'["tra"] = "live"
  <2>1. made \in SUBSET Handles /\ "live" \in Pointers /\ handle \in [Handles -> Pointers]
    BY <1>2 DEF Handles, Pointers, TypeOK
  <2>2. /\ handle' \in [Handles -> Pointers]
        /\ \A n \in Handles : handle'[n] = IF n \in made THEN "live" ELSE handle[n]
    BY <1>2, <2>1, WithType
  <2>3. work' \in Statuses /\ fault' \in Faults
    BY <1>2 DEF TypeOK, Statuses
  <2>4. "stmt" \notin made
    BY <1>2
  <2>. QED  BY <1>2, <2>2, <2>3, <2>4, HandleNames
<1>. QED  BY <1>1, <1>2 DEF InitConnection

(* A statement that gets as far as exec_wrap.                                  *)
Answered ==
    /\ status' \in Statuses /\ fault' \in Faults
    /\ handle' \in [Handles -> Pointers]
    /\ handle'["att"] = handle["att"] /\ handle'["tra"] = handle["tra"]
    /\ handle'["stmt"] = "live" => handle'["att"] = "live"
    /\ \/ executed' = executed
       \/ executed' = executed + 1 /\ IsAvailable /\ handle["att"] = "live"

LEMMA UnsentAnswers ==
    ASSUME TypeOK, fault = "none", Unsent
    PROVE  Answered
  BY DEF Answered, Unsent, TypeOK, Statuses

LEMMA ExecuteAnswers ==
    ASSUME TypeOK, IsAvailable, Execute
    PROVE  Answered
  BY DEF Answered, Execute, TypeOK

LEMMA DescribeAnswers ==
    ASSUME TypeOK, NEW place \in BOOLEAN, PrepareAndDescribe(place)
    PROVE  Answered
<1>. USE DEF PrepareAndDescribe
<1>1. handle \in [Handles -> Pointers]
  BY DEF TypeOK
<1>2. status' \in Statuses /\ executed' = executed
  BY DEF TypeOK, Statuses
<1>3. fault' \in Faults
  BY MisuseType DEF Faults
<1>4. PICK stmt \in {"null", "live"} :
          /\ stmt = "live" => handle["att"] = "live"
          /\ handle' = IF handle["att"] = "live" THEN With(handle, {"stmt"}, stmt)
                       ELSE handle
  OBVIOUS
<1>5. CASE handle["att"] = "live"
  <2>1. {"stmt"} \in SUBSET Handles /\ stmt \in Pointers
    BY DEF Handles, Pointers
  <2>2. /\ handle' \in [Handles -> Pointers]
        /\ \A n \in Handles : handle'[n] = IF n = "stmt" THEN stmt ELSE handle[n]
    BY <1>1, <1>4, <1>5, <2>1, WithType
  <2>. QED  BY <1>2, <1>3, <1>5, <2>2, HandleNames DEF Answered
<1>6. CASE handle["att"] # "live"
  BY <1>1, <1>2, <1>3, <1>4, <1>6 DEF Answered, TypeOK
<1>. QED  BY <1>5, <1>6

(* The four kinds of statements are alike.                                     *)
LEMMA StatementAnswers ==
    ASSUME TypeOK, Command \/ UpdateRows \/ Question \/ InsertRows
    PROVE  Statement /\ Answered
<1>1. CASE Command
  BY <1>1, ExecuteAnswers, UnsentAnswers DEF Command, exec_wrap, Statement, Running
<1>2. CASE UpdateRows
  BY <1>2, ExecuteAnswers, UnsentAnswers DEF UpdateRows, exec_wrap, Statement, Running
<1>3. CASE Question
  BY <1>3, DescribeAnswers, UnsentAnswers DEF Question, exec_wrap, Statement, Running
<1>4. CASE InsertRows
  BY <1>4, DescribeAnswers, UnsentAnswers DEF InsertRows, exec_wrap, Statement, Running
<1>. QED  BY <1>1, <1>2, <1>3, <1>4

LEMMA Initially == Init => IInv
<1>. SUFFICES ASSUME Init PROVE IInv
  OBVIOUS
<1>1. TypeOK
  BY MaxCallsAssumption
     DEF Init, TypeOK, Statuses, Pointers, Faults, Handles
<1>2. handle["att"] = "null"
  BY HandleNames DEF Init
<1>. QED  BY <1>1, <1>2
     DEF Init, IInv, AttachedBySetup, AvailableInTransaction, CarefulIsStopped,
         DryExecutesNothing

LEMMA Constructed == ASSUME IInv, Construct PROVE IInv'
<1>. USE DEF IInv, Construct, Running
<1>1. {"st", "prov"} \in SUBSET Handles /\ "live" \in Pointers
  BY DEF Handles, Pointers
<1>2. /\ With(handle, {"st", "prov"}, "live") \in [Handles -> Pointers]
      /\ \A n \in Handles : With(handle, {"st", "prov"}, "live")[n]
                           = IF n \in {"st", "prov"} THEN "live" ELSE handle[n]
  BY <1>1, WithType DEF TypeOK
<1>3. /\ handle' \in [Handles -> Pointers]
      /\ handle'["att"] = handle["att"] /\ handle'["stmt"] = handle["stmt"]
  BY <1>2, HandleNames DEF TypeOK
<1>4. TypeOK'
  BY <1>3 DEF TypeOK, Statuses
<1>. QED  BY <1>3, <1>4
     DEF AttachedBySetup, AvailableInTransaction, CarefulIsStopped, DryExecutesNothing

LEMMA SetUp == ASSUME IInv, SetupConnection PROVE IInv'
<1>. USE DEF IInv, SetupConnection, Running
<1>1. CASE dry
  BY <1>1 DEF TypeOK, Statuses, AttachedBySetup, AvailableInTransaction,
              CarefulIsStopped, DryExecutesNothing
<1>2. CASE ~dry
  <2>1. handle["att"] = "null" /\ InitConnection
    BY <1>2 DEF AttachedBySetup
  <2>2. TypeOK'
    <3>1. handle["stmt"] # "live"
      BY <2>1 DEF TypeOK
    <3>. QED  BY <1>2, <2>1, <3>1, InitConnectionType DEF TypeOK
  <2>3. AvailableInTransaction'
    BY <2>1, InitConnectionType DEF AvailableInTransaction, IsAvailable
  <2>. QED  BY <1>2, <2>2, <2>3
       DEF AttachedBySetup, CarefulIsStopped, DryExecutesNothing
<1>. QED  BY <1>1, <1>2

LEMMA Stated == ASSUME IInv, Statement, Answered PROVE IInv'
<1>. USE DEF IInv, Statement, Answered, Running
<1>1. TypeOK'
  BY MaxCallsAssumption DEF TypeOK
<1>2. AttachedBySetup' /\ AvailableInTransaction'
  BY DEF AttachedBySetup, AvailableInTransaction, IsAvailable
<1>3. CarefulIsStopped'
  BY DEF CarefulIsStopped
<1>4. DryExecutesNothing'
  BY DEF DryExecutesNothing, AttachedBySetup
<1>. QED  BY <1>1, <1>2, <1>3, <1>4

LEMMA Closed == ASSUME IInv, CloseConnection \/ Destroy PROVE IInv'
<1>1. PICK o \in Closings(handle) : handle' = o.handle /\
          (fault' = o.fault \/ fault' = "terminate"
             \/ fault' = ReleaseConnection(o.handle).fault)
  BY DEF CloseConnection, Destroy
<1>2. /\ handle' \in [Handles -> Pointers]
      /\ o.fault \in Faults
      /\ handle["att"] = "null" => handle'["att"] = "null"
      /\ handle'["stmt"] = "live" => handle'["att"] = "live"
  BY <1>1, ClosingType DEF IInv, TypeOK
<1>3. fault' \in Faults
  BY <1>1, <1>2, ReleaseType DEF Faults
<1>4. /\ phase' \in {"closed", "destroyed"} /\ phase \notin {"none"}
      /\ UNCHANGED <<careful, dry, work, calls, executed>>
      /\ status' = status \/ (dry /\ status' = "OK")
  BY DEF CloseConnection, Destroy, Running
<1>5. TypeOK'
  BY <1>2, <1>3, <1>4 DEF IInv, TypeOK, Statuses
<1>. QED  BY <1>2, <1>4, <1>5
     DEF IInv, AttachedBySetup, AvailableInTransaction, CarefulIsStopped,
         DryExecutesNothing

-----------------------------------------------------------------------------
(* The theorems.                                                               *)

LEMMA Inductive == IInv /\ [Next]_vars => IInv'
<1>. SUFFICES ASSUME IInv, [Next]_vars PROVE IInv'
  OBVIOUS
<1>1. CASE Construct
  BY <1>1, Constructed
<1>2. CASE SetupConnection
  BY <1>2, SetUp
<1>3. CASE Command \/ UpdateRows \/ Question \/ InsertRows
  <2>1. TypeOK
    BY DEF IInv
  <2>. QED  BY <1>3, <2>1, StatementAnswers, Stated
<1>4. CASE CloseConnection \/ Destroy
  BY <1>4, Closed
<1>5. CASE UNCHANGED vars
  BY <1>5 DEF vars, IInv, TypeOK, AttachedBySetup, AvailableInTransaction,
              CarefulIsStopped, DryExecutesNothing, IsAvailable
<1>. QED  BY <1>1, <1>2, <1>3, <1>4, <1>5 DEF Next

LEMMA Invariant == Spec => []IInv
<1>. QED  BY Initially, Inductive, PTL DEF Spec

(* The fields keep their types, no call executes its statement twice, and a    *)
(* prepared statement belongs to an attachment, after any number of statements.*)
THEOREM FirebirdTypes == Spec => []TypeOK
<1>1. IInv => TypeOK
  BY DEF IInv
<1>. QED  BY <1>1, Invariant, PTL

(* A dry run never attaches to a database.                                     *)
THEOREM DryRunIsLocal == Spec => []DryRunStaysLocal
<1>1. IInv => DryRunStaysLocal
  BY DEF IInv, AttachedBySetup, DryRunStaysLocal
<1>. QED  BY <1>1, Invariant, PTL

(* A caller who looks at each answer, as Transaction does, gets no statement   *)
(* executed, real connection or not.                                           *)
THEOREM TransactionExecutesNothing == Spec => []NothingThroughTransaction
<1>1. IInv => NothingThroughTransaction
  BY DEF IInv, CarefulIsStopped, DryExecutesNothing, NothingThroughTransaction
<1>. QED  BY <1>1, Invariant, PTL

(* A statement is executed only inside a transaction, although execute looks   *)
(* at the attachment alone.                                                    *)
THEOREM ExecutedInTransaction == Spec => OnlyInTransaction
<1>1. ASSUME IInv, [Next]_vars
      PROVE  [executed' # executed => handle["att"] = "live" /\ handle["tra"] = "live"]_vars
  <2>1. CASE Command \/ UpdateRows \/ Question \/ InsertRows
    <3>1. Statement /\ Answered
      BY <1>1, <2>1, StatementAnswers DEF IInv
    <3>. QED  BY <1>1, <3>1
         DEF Statement, Answered, Running, IInv, AvailableInTransaction
  <2>2. CASE Construct \/ SetupConnection \/ CloseConnection \/ Destroy
    BY <2>2 DEF Construct, SetupConnection, CloseConnection, Destroy
  <2>3. CASE UNCHANGED vars
    BY <2>3
  <2>. QED  BY <1>1, <2>1, <2>2, <2>3 DEF Next
<1>. QED  BY <1>1, Invariant, PTL DEF Spec, OnlyInTransaction
=============================================================================
