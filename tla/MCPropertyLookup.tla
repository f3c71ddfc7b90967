-------------------------- MODULE MCPropertyLookup --------------------------
(* Values of PropertyLookup's constants for TLC. *)
EXTENDS PropertyLookup, FiniteSets, TLC

CONSTANT t

\* No traits, or the one trait.
OneTrait == {<<>>, <<t>>}

Symmetry == Permutations(Ids)

\* Graphs of three classes; or of two, which name no third, and an object.
ThreeClassesOrAnObject ==
  LET declared == {i \in Ids : class'[i] # Nothing}
  IN \/ \A o \in Objects : object'[o] = Nothing
     \/ Cardinality(declared) <= 1
     \/ Cardinality(declared) = 2 /\ \A i \in declared : class'[i].of_class \in declared \cup {Nothing}
BoundedSpec == Init /\ [][Next /\ ThreeClassesOrAnObject]_vars
=============================================================================
