-------------------------- MODULE FirebirdConnection --------------------------
(* DBConnectionFireBird: the life of one object over the interfaces of the     *)
(* Firebird client, from its constructor to its destructor.                    *)
(*                                                                             *)
(* An interface is a pointer that is null, live, or released but still held.   *)
(* Calling through a pointer that is not live is undefined behaviour: it ends  *)
(* the history with a fault.                                                   *)
EXTENDS Naturals

CONSTANTS
    MaxCalls  \* bound on the statements that the caller tries

ASSUME MaxCallsAssumption == MaxCalls \in Nat

VARIABLES
    phase,     \* what the caller has done with the object
    careful,   \* the caller stops at the first status but STATUS_OK, as
               \* Transaction::ExecuteQueries does
    dry,       \* parameters_.is_dry_run
    status,    \* status_ of the connection, which every method returns
    work,      \* firebird_work.status_
    handle,    \* the pointers of firebird_work
    calls,     \* statements tried
    executed,  \* statements that the server has executed
    fault      \* what went wrong for good

vars == <<phase, careful, dry, status, work, handle, calls, executed, fault>>

Handles == {"st", "prov", "dpb", "att", "tra", "stmt"}
Pointers == {"null", "live", "released"}
Statuses == {"DEFAULT", "OK", "NOT", "HAVE_ERROR"}
Faults == {"none", "null", "released", "terminate"}

With(h, names, p) == [n \in Handles |-> IF n \in names THEN p ELSE h[n]]

(* What a call through one of the pointers leads to.                           *)
Misuse(h, names) ==
    IF \E n \in names : h[n] = "null" THEN "null"
    ELSE IF \E n \in names : h[n] = "released" THEN "released"
    ELSE "none"

IsAvailable == work = "OK"
Running(p) == phase = p /\ fault = "none"

-----------------------------------------------------------------------------
(* The constructor: the interfaces of the master, if there is one.             *)
Construct == \E master \in BOOLEAN :
    /\ Running("none")
    /\ phase' = "made"
    /\ work' = IF master THEN "OK" ELSE "HAVE_ERROR"
    /\ handle' = IF master THEN With(handle, {"st", "prov"}, "live") ELSE handle
    /\ UNCHANGED <<careful, dry, status, calls, executed, fault>>

(* InitConnection.  Every exception stays inside; attached without tra is what *)
(* a refused user or a refused transaction leaves.                             *)
InitConnection ==
    \/ /\ handle["st"] = "null"  \* no utl either
       /\ fault' = "null"
       /\ UNCHANGED <<work, handle>>
    \/ \E made \in {{}, {"dpb"}, {"dpb", "att"}, {"dpb", "att", "tra"}} :
       /\ handle["st"] = "live"
       /\ handle' = With(handle, made, "live")
       /\ work' = IF "tra" \in made THEN work ELSE "HAVE_ERROR"
       /\ UNCHANGED fault

(* Mutant: a dry run connects as well.                                         *)
SetupAlwaysConnects ==
    /\ Running("made")
    /\ phase' = "open"
    /\ InitConnection
    /\ status' = IF dry THEN "OK" ELSE status
    /\ UNCHANGED <<careful, dry, calls, executed>>

(* Mutant: the answer of InitConnection becomes the status.                    *)
SetupReports ==
    /\ Running("made")
    /\ phase' = "open"
    /\ IF dry THEN UNCHANGED <<work, handle, fault>> ELSE InitConnection
    /\ status' = IF dry THEN "OK" ELSE work'
    /\ UNCHANGED <<careful, dry, calls, executed>>

(* SetupConnection: what InitConnection answers is not looked at.              *)
SetupConnection ==
    /\ Running("made")
    /\ phase' = "open"
    /\ IF dry
       THEN /\ status' = "OK"
            /\ UNCHANGED <<work, handle, fault>>
       ELSE InitConnection /\ UNCHANGED status
    /\ UNCHANGED <<careful, dry, calls, executed>>

-----------------------------------------------------------------------------
(* exec_wrap and the functions that it calls.                                  *)

(* Mutant: what failed is sent once more, though it may have been executed.     *)
ExecuteAgain ==
    /\ \/ handle["att"] = "live" /\ executed' \in {executed + 1, executed + 2}
       \/ UNCHANGED executed
    /\ UNCHANGED <<status, handle, fault>>

(* execute: nothing without an attachment; an error stays in firebird_work.    *)
Execute ==
    /\ \/ handle["att"] = "live" /\ executed' = executed + 1
       \/ UNCHANGED executed
    /\ UNCHANGED <<status, handle, fault>>

(* prepare and get_result: the statement is described and never executed.      *)
(* place says whether there is somewhere to put the result.                    *)
PrepareAndDescribe(place) ==
    /\ \E stmt \in {"null", "live"} :
           /\ stmt = "live" => handle["att"] = "live"
           /\ handle' = IF handle["att"] = "live" THEN With(handle, {"stmt"}, stmt)
                        ELSE handle
    /\ fault' = IF place THEN Misuse(handle', {"stmt"}) ELSE "null"
    /\ status' \in {status, "HAVE_ERROR"}  \* what the description throws
    /\ UNCHANGED executed

(* A dry run and a connection that is not available get here.                  *)
Unsent ==
    /\ status' = IF dry THEN "OK" ELSE "NOT"
    /\ UNCHANGED <<handle, executed, fault>>

(* Mutant: whoever has an attachment may send.                                 *)
SendToAttachment(text, Send) ==
    IF (IsAvailable \/ handle["att"] = "live") /\ text THEN Send ELSE Unsent

(* text: the statement has one.                                                *)
exec_wrap(text, Send) == IF IsAvailable /\ text THEN Send ELSE Unsent

Statement ==
    /\ Running("open")
    /\ calls < MaxCalls
    /\ careful => status = "OK"
    /\ calls' = calls + 1
    /\ UNCHANGED <<phase, careful, dry, work>>

(* AddSavePoint, RollbackToSavePoint, CreateTable, DropTable, DeleteRows.      *)
Command == Statement /\ exec_wrap(TRUE, Execute)

(* UpdateRows has no text without values.                                      *)
UpdateRows == Statement /\ \E text \in BOOLEAN : exec_wrap(text, Execute)

(* IsTableExists and SelectRows.                                               *)
Question == Statement /\ exec_wrap(TRUE, PrepareAndDescribe(TRUE))

(* InsertRows passes no place for the result.                                  *)
InsertRows == Statement /\ \E text \in BOOLEAN : exec_wrap(text, PrepareAndDescribe(FALSE))

-----------------------------------------------------------------------------
(* The end.                                                                    *)

Outcome(h, misuse, thrown) == [handle |-> h, fault |-> misuse, thrown |-> thrown]

(* commit_detach: throws when the server refuses.                              *)
CommitDetach(h) ==
    IF Misuse(h, {"tra", "att"}) # "none"
    THEN {Outcome(h, Misuse(h, {"tra", "att"}), FALSE)}
    ELSE {Outcome(With(h, {"tra"}, "null"), "none", FALSE), Outcome(h, "none", TRUE)}

(* ReleaseConnection: the pointers stay what they are.                         *)
ReleaseConnection(h) ==
    LET held == {n \in Handles : h[n] # "null"}
    IN  Outcome(With(h, held, "released"), Misuse(h, held), FALSE)

Closings(h) ==
    {IF o.thrown \/ o.fault # "none" THEN o ELSE ReleaseConnection(o.handle) :
        o \in IF IsAvailable THEN CommitDetach(h) ELSE {Outcome(h, "none", FALSE)}}

(* By the close query, or when setup is rolled back.                           *)
CloseConnection ==
    /\ Running("open")
    /\ careful => status # "DEFAULT"
    /\ phase' = "closed"
    /\ \E o \in Closings(handle) :
           /\ handle' = o.handle
           /\ fault' = o.fault
           /\ status' = IF dry /\ ~o.thrown /\ o.fault = "none" THEN "OK" ELSE status
    /\ UNCHANGED <<careful, dry, work, calls, executed>>

(* Both destructors: close, and then release what firebird_work holds.         *)
Destroy ==
    /\ fault = "none" /\ phase \in {"made", "open", "closed"}
    /\ phase' = "destroyed"
    /\ \E o \in Closings(handle) :
           /\ handle' = o.handle
           /\ fault' = IF o.thrown THEN "terminate"
                       ELSE IF o.fault # "none" THEN o.fault
                       ELSE ReleaseConnection(o.handle).fault
    /\ UNCHANGED <<careful, dry, status, work, calls, executed>>

-----------------------------------------------------------------------------
Init ==
    /\ phase = "none"
    /\ careful \in BOOLEAN
    /\ dry \in BOOLEAN
    /\ status = "DEFAULT"
    /\ work = "DEFAULT"
    /\ handle = [n \in Handles |-> "null"]
    /\ calls = 0
    /\ executed = 0
    /\ fault = "none"

Next ==
    \/ Construct \/ SetupConnection \/ Command \/ UpdateRows \/ Question
    \/ InsertRows \/ CloseConnection \/ Destroy

Spec == Init /\ [][Next]_vars

-----------------------------------------------------------------------------
(* Properties.                                                                 *)

(* The fields keep their types; no call executes its statement twice, and a    *)
(* prepared statement belongs to an attachment.                                *)
TypeOK ==
    /\ phase \in {"none", "made", "open", "closed", "destroyed"}
    /\ careful \in BOOLEAN /\ dry \in BOOLEAN
    /\ status \in Statuses /\ work \in Statuses
    /\ handle \in [Handles -> Pointers]
    /\ calls \in 0 .. MaxCalls
    /\ executed \in 0 .. calls
    /\ fault \in Faults
    /\ handle["stmt"] = "live" => handle["att"] = "live"

(* A dry run never attaches to a database ("blocks the physical connection",   *)
(* db_connection.h:67-70), also when statements are tried without regard to    *)
(* what the methods answer.                                                    *)
DryRunStaysLocal == dry => handle["att"] = "null"

(* A statement is executed only inside a transaction: execute asks for the     *)
(* attachment alone, and InitConnection may fail between the two.              *)
OnlyInTransaction ==
    [][executed' # executed => handle["att"] = "live" /\ handle["tra"] = "live"]_vars

(* Through a Transaction nothing is ever executed: SetupConnection leaves the  *)
(* status of a real connection at STATUS_DEFAULT, which ends the transaction,  *)
(* and a dry run has no attachment.                                            *)
NothingThroughTransaction == careful => executed = 0
=============================================================================
