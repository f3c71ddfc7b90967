----------------------------- MODULE MCSchemaSet -----------------------------
(* Values of SchemaSet's constants for TLC. *)
EXTENDS SchemaSet, TLC

Symmetry == Permutations(Ids) \cup Permutations(Owners) \cup Permutations(Types)
=============================================================================
