----------------------------- MODULE MCGraphLock -----------------------------
(* Instances of GraphLock for TLC: a server of two threads and a CLI run. *)
EXTENDS GraphLock

CONSTANTS serve, cli, t1

ServeAndCli == [p \in Proc |-> IF p = cli THEN {t1} ELSE Thread]
=============================================================================
