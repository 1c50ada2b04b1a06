---------------------------- MODULE MCSchemaInit ----------------------------
(* Bounds for SchemaInit: the callers of init_db are interchangeable. *)
EXTENDS SchemaInit, TLC

Symmetry == Permutations(Procs)
=============================================================================
