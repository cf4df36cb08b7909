-------------------------- MODULE MCUpdatePipeline --------------------------
(* Instances of UpdatePipeline: `b` imports `a`. *)
EXTENDS UpdatePipeline

ImportsOfB == [f \in Files |-> IF f = "b" THEN {"a"} ELSE {}]
=============================================================================
