------------------------ MODULE MCConnectionManager ------------------------
(***************************************************************************)
(* Instances of ConnectionManager for TLC.                                 *)
(***************************************************************************)
EXTENDS ConnectionManager

CONSTANTS t1, t2, good, down, nobackend, noone, nobody

OneThread == {t1}
TwoThreads == {t1, t2}

\* A server, one that refuses connections, and a supplier that this build has
\* no client for.
EveryParams == {good, down, nobackend}
GoodOnly == {good}
UpAndDown == {good, down}

EveryCall == {"check", "reset", "exec"}
=============================================================================
