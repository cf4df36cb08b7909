----------------------------- MODULE MCTaskQueue -----------------------------
(* Instances of TaskQueue for TLC. *)
EXTENDS TaskQueue, TLC

Updates == {[kind |-> "update", payload |-> Everything]}

\* An edit hook, and the coverage backfill of a session start.
EditsAndBackfill == Updates \cup {[kind |-> "embed", payload |-> Everything]}

\* Workers differ in nothing but their names.
WorkerSymmetry == Permutations(Worker)
=============================================================================
