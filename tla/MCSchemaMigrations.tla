------------------------- MODULE MCSchemaMigrations -------------------------
(* Instances of SchemaMigrations: `old` is a binary that stops at v19, the
   others are today's and differ in nothing but their names. *)
EXTENDS SchemaMigrations, TLC

CONSTANTS old
Binaries == [p \in Openers |-> IF p = old THEN 19 ELSE 20]
Symmetry == Permutations(Openers \ {old})
=============================================================================
