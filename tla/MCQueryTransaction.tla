------------------------- MODULE MCQueryTransaction -------------------------
(***************************************************************************)
(* Instances of QueryTransaction for TLC.                                  *)
(***************************************************************************)
EXTENDS QueryTransactionInv

CONSTANTS c1, c2

OneClient == {c1}
TwoClients == {c1, c2}
BothModes == BOOLEAN
RealOnly == {FALSE}
BuildThrows == {"build"}
ConvertThrows == {"convert"}

ManagerOp == DOMAIN ManagerPlan

\* The operations of the manager, and a transaction that the Transaction class
\* allows and no call of the manager assembles: a query after the insert that
\* may still fail.
EveryOp == ManagerOp \cup {"batch"}
EveryPlan == [o \in EveryOp |->
                IF o = "batch"
                THEN <<"setup", "savepoint", "insert", "exists", "close">>
                ELSE ManagerPlan[o]]
=============================================================================
