----------------------------- MODULE AtomicCalls -----------------------------
(***************************************************************************)
(* What a call of DBConnectionManager promises, without connections,       *)
(* queries or statuses of the clone: a call writes its rows all together   *)
(* or not at all, once, and the status it reports says which - except when *)
(* the acknowledgement of the commit was lost.  The process may end inside *)
(* a call.                                                                 *)
(***************************************************************************)
EXTENDS Naturals

CONSTANTS Client, MaxCalls

VARIABLES
  table,      \* the committed rows
  unacked,    \* committed rows whose acknowledgement was lost
  alive,      \* the process runs
  calls,      \* calls made by each client
  busy,       \* is the client inside a call
  target,     \* the rows of the client's current or last call
  reported    \* the answer to the client's last call

vars == <<table, unacked, alive, calls, busy, target, reported>>

Answer == {"DEFAULT", "OK", "HAVE_ERROR", "NOT", "EXCEPTION"}

Init ==
  /\ table = {} /\ unacked = {} /\ alive = TRUE
  /\ calls = [c \in Client |-> 0]
  /\ busy = [c \in Client |-> FALSE]
  /\ target \in [Client -> SUBSET (Client \X Nat \X Nat)]
  /\ reported = [c \in Client |-> "DEFAULT"]

\* A client asks for rows of its own to be written.
Invoke(c) ==
  /\ ~busy[c] /\ calls[c] < MaxCalls
  /\ calls' = [calls EXCEPT ![c] = @ + 1]
  /\ busy' = [busy EXCEPT ![c] = TRUE]
  /\ target'[c] \subseteq ({c} \X {calls[c] + 1} \X Nat)
  /\ target' = [target EXCEPT ![c] = target'[c]]
  /\ UNCHANGED <<table, unacked, alive, reported>>

\* All of them are written, at most once; the acknowledgement may be lost.
Commit(c) ==
  /\ busy[c]
  /\ target[c] # {} /\ target[c] \cap table = {}
  /\ table' = table \cup target[c]
  /\ unacked' \in {unacked, unacked \cup target[c]}
  /\ UNCHANGED <<alive, calls, busy, target, reported>>

Return(c) ==
  /\ busy[c]
  /\ busy' = [busy EXCEPT ![c] = FALSE]
  /\ \E st \in Answer :
       /\ reported' = [reported EXCEPT ![c] = st]
       /\ IF st = "OK"
          THEN target[c] \subseteq table
          ELSE target[c] \cap table = {} \/ target[c] \subseteq unacked
  /\ UNCHANGED <<table, unacked, alive, calls, target>>

Die ==
  /\ \E c \in Client : busy[c]
  /\ alive' = FALSE
  /\ UNCHANGED <<table, unacked, calls, busy, target, reported>>

Next ==
  /\ alive
  /\ Die \/ \E c \in Client : Invoke(c) \/ Commit(c) \/ Return(c)

Spec == Init /\ [][Next]_vars
=============================================================================
