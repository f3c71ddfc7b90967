----------------------------- MODULE Conditions -----------------------------
(***************************************************************************)
(* Condition blocks, and what they mean when a game runs (spec 10.1-10.5). *)
(* The passes that judge them without running them are in Narrowing and    *)
(* Messages; this module is what those are judged by.                      *)
(*                                                                         *)
(* A statement has a key, what it names, and the block that is its value.  *)
(* A test of a property has the key "test"; any key not listed here is a   *)
(* predicate on something else.  A place in a file is a path of positions. *)
(***************************************************************************)
EXTENDS PropertyLookup, FiniteSets, SequencesExt

CONSTANT Slots           \* names of object slots

Statement(key, named, body) == [key |-> key, named |-> named, body |-> body]

\* The keys of staged forms.  A stage has the place of its key; the i-th
\* declaration in another comes after them.
Keys == <<"when", "conditions", "restrictions", "effects", "successMsg", "failureMsg",
          "complete_when">>
Place(key) == CHOOSE i \in DOMAIN Keys : Keys[i] = key
Nested(i) == Len(Keys) + i

Barriers == {"NOT", "OR", "COUNT_AT_LEAST"}
Neutral == {"failureMsg", "n"}

\* Where the statements are that a block is a combination of.
Weighed(body) == {i \in DOMAIN body : body[i].key \notin Neutral}

\* The n of a COUNT_AT_LEAST.
Threshold(body) == body[CHOOSE i \in DOMAIN body : body[i].key = "n"].named

-----------------------------------------------------------------------------
(* The objects *)

HasTrait(o, t) ==
    LET mixed(list) == \E i \in DOMAIN list : list[i] = t
    IN  mixed(object[o].traits) \/ \E a \in Ancestors(object[o].class) : mixed(class[a].traits)

IsA(o, id) == id \in Ancestors(object[o].class) \/ HasTrait(o, id)

-----------------------------------------------------------------------------
(* A world: the object in each slot, and the places of the predicates that *)
(* come out true in it without being about an object's class or property   *)

RECURSIVE Holds(_, _, _, _)

HoldingIn(slot, body, path, world) ==
    {i \in Weighed(body) : Holds(slot, body[i], Append(path, i), world)}

Conjunction(slot, body, path, world) == HoldingIn(slot, body, path, world) = Weighed(body)

Holds(slot, s, path, world) ==
    CASE s.key = "NOT" -> ~Conjunction(slot, s.body, path, world)
      [] s.key = "OR" -> HoldingIn(slot, s.body, path, world) # {}
      [] s.key = "COUNT_AT_LEAST" ->
             Cardinality(HoldingIn(slot, s.body, path, world)) >= Threshold(s.body)
      [] s.key = "AND" -> Conjunction(slot, s.body, path, world)
      [] s.key \in Slots -> Conjunction(s.key, s.body, path, world)
      [] s.key = "of_class" -> s.named \in Ancestors(object[world.holds[slot]].class)
      [] s.key = "has_trait" -> HasTrait(world.holds[slot], s.named)
      [] s.key = "is" -> world.holds[slot] = s.named
      [] s.key = "has_prop" -> ObjectHas(world.holds[slot], s.named)
      [] OTHER -> path \in world.chance

\* The predicates a world settles by chance.
RECURSIVE ChancesOf(_, _)
Chances(body, path) == UNION {ChancesOf(body[i], Append(path, i)) : i \in Weighed(body)}
ChancesOf(s, path) ==
    IF s.key \in Barriers \cup Slots \cup {"AND"} THEN Chances(s.body, path)
    ELSE IF s.key \in {"of_class", "has_trait", "is", "has_prop"} THEN {}
    ELSE {path}

\* The tests of properties that evaluation comes to: in order, no further
\* than what fails, but any of several alternatives.
RECURSIVE TestsOf(_, _, _, _)
Tests(slot, body, path, world) ==
    UNION {TestsOf(slot, body[i], Append(path, i), world) :
              i \in {i \in DOMAIN body : \A j \in Weighed(body) :
                         j < i => Holds(slot, body[j], Append(path, j), world)}}
TestsOf(slot, s, path, world) ==
    CASE s.key \in {"OR", "COUNT_AT_LEAST"} ->
             UNION {TestsOf(slot, s.body[i], Append(path, i), world) : i \in DOMAIN s.body}
      [] s.key \in {"NOT", "AND"} -> Tests(slot, s.body, path, world)
      [] s.key \in Slots -> Tests(s.key, s.body, path, world)
      [] s.key = "test" -> {[path |-> path, slot |-> slot, property |-> s.named]}
      [] OTHER -> {}

\* The place of the message a failing block shows: that of the innermost
\* block whose own failure is the reason, or the nearest around it that has
\* one.  No place when none has.
MessagesOf(body) == {i \in DOMAIN body : body[i].key = "failureMsg"}

RECURSIVE Shown(_, _, _, _)
Shown(slot, body, path, world) ==
    LET own == {Append(path, i) : i \in MessagesOf(body)}
        first == CHOOSE i \in Weighed(body) \ HoldingIn(slot, body, path, world) :
                     \A j \in Weighed(body) \ HoldingIn(slot, body, path, world) : i <= j
        failed == body[first]
        inner == IF failed.key \in Barriers
                 THEN {path \o <<first, i>> : i \in MessagesOf(failed.body)}
                 ELSE IF failed.key \in Slots \cup {"AND"}
                 THEN Shown(IF failed.key = "AND" THEN slot ELSE failed.key,
                            failed.body, Append(path, first), world)
                 ELSE {path \o <<first, i>> : i \in MessagesOf(failed.body)}
    IN  IF inner # {} THEN inner ELSE own
=============================================================================
