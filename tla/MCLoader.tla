------------------------------ MODULE MCLoader ------------------------------
(***************************************************************************)
(* Programs for TLC: a core of a few statements, and  after it every        *)
(* sequence of a few statements from a pool.                               *)
(***************************************************************************)
EXTENDS Loader, SequencesExt, TLC

CONSTANTS library, room, hall, x,   \* ids: a form, two classes, and what they name
          name, tag,            \* keys
          uid, int,             \* types: an id unique among libraries, and a plain one
          thing,                \* the class others derive from, by name
          core, lib, game       \* owners

Plain(key, id) == [key |-> key, id |-> id, of |-> Undeclared, members |-> NoMembers,
                   parent |-> Undeclared, provides |-> Undeclared,
                   sealed |-> FALSE, root |-> FALSE, reparent |-> FALSE, replaces |-> NoReplaces]
With(s, n, type) == [s EXCEPT !.members = [NoMembers EXCEPT ![n] = type]]
Of(s, of) == [s EXCEPT !.of = of]
Reparenting(s) == [s EXCEPT !.reparent = TRUE]
Under(s, parent) == [s EXCEPT !.parent = parent]
Providing(s, forms) == [s EXCEPT !.provides = forms]
Sealed(s) == [s EXCEPT !.sealed = TRUE]
Replacing(s, owner) == [s EXCEPT !.replaces = owner]

CoreGroup == [owner |-> core, core |-> TRUE, statements |->
    <<With(Plain("schema", library), name, uid),
      Of(Plain("core_requirement", room), "class"),
      With(Of(Plain("core_requirement", room), "property"), name, int),
      Under(Of(Plain("core_requirement", room), "parent"), thing),
      Under(With(Sealed(Plain("class", room)), name, int), thing)>>]

GroupOf(owner, statements) == [owner |-> owner, core |-> FALSE, statements |-> statements]

\* A library or project that declares, instantiates, extends and collides.
Pool == {Plain("class", hall), Plain("class", room), Plain("schema", library),
         Plain(room, x), Plain(hall, x), Of(Plain("object", x), hall),
         With(Plain(library, x), name, int), With(Plain("schema_extension", library), tag, int),
         With(Of(Plain("class_extension", hall), "class"), tag, int), Plain("enum", x),
         Replacing(Plain("class", room), core), Plain("core_requirement", hall)}

\* Every other form, for the programs that end with a few of them.
Others == {Plain("trait", hall), Plain("global", x), Plain("object", x),
           Reparenting(With(Of(Plain("class_extension", room), "class"), tag, int)),
           With(Of(Plain("class_extension", hall), "trait"), tag, uid),
           Plain("class_extension", room)}

TwoGroups == {<<CoreGroup, GroupOf(game, s)>> :
                  s \in BoundedSeq(Pool, 2) \cup {<<t, u>> : t \in Others, u \in Others}}

\* A superseding third group, over a library with one of each.
ReplacePool == {Replacing(Plain("class", room), core), Replacing(Plain("class", hall), lib),
                Sealed(Plain("class", room)), Replacing(Plain("schema", library), core),
                With(Of(Plain("class_extension", room), "class"), tag, int), Of(Plain("object", x), room)}

ThreeGroups == {<<CoreGroup, GroupOf(lib, <<Plain("class", hall), s>>), GroupOf(game, <<t, u>>)>> :
                    s \in ReplacePool, t \in ReplacePool, u \in ReplacePool}

\* A library's manifest beside a form of its own or one it takes from core,
\* and a project that may take them from it or repeat the manifest.
Manifest(forms) == Providing(With(Plain(library, x), name, int), forms)
Manifests == {<<CoreGroup, GroupOf(lib, <<Manifest(forms), s>>), GroupOf(game, <<t>>)>> :
                  forms \in {{}, {hall}, {hall, library}, Undeclared},
                  s \in {Plain("schema", hall), Plain("class", hall), Replacing(Plain("schema", library), core)},
                  t \in {Plain("schema", hall), Replacing(Plain("schema", hall), lib), Manifest({hall}),
                         Replacing(Plain("schema", library), lib)}}

AllPrograms == TwoGroups \cup ThreeGroups \cup Manifests

LateKeyPool == {With(Plain(hall, x), name, int),
                With(Plain("schema_extension", hall), name, uid)}

\* An extension that gives a form without unique ids one.
LateUniqueKey == {<<CoreGroup, GroupOf(game, <<Plain("schema", hall), s, t>>)>> :
                    s \in LateKeyPool, t \in LateKeyPool}

\* Core requires a property of a trait, and a library has a class of its id.
ClassOfTraitId == {<<[owner |-> core, core |-> TRUE, statements |->
                        <<With(Sealed(Plain("trait", hall)), name, int),
                          With(Of(Plain("core_requirement", hall), "property"), name, int)>>],
                     GroupOf(lib, <<s, t>>)>> : s \in Pool, t \in Pool}

UniqueTypes == [type \in {uid, int} |-> IF type = uid THEN "library" ELSE NoSpace]
=============================================================================
