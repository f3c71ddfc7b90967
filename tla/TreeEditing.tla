---------------------------- MODULE TreeEditing ----------------------------
(***************************************************************************)
(* What building and editing promise.  A tree is a value: its kind, its    *)
(* text, and its children.  A parse answers a tree of exactly the tokens   *)
(* it was fed, in order.  An edit answers the whole tree it was given,     *)
(* with one change in one place, decided when it was called -- whatever    *)
(* anyone else does before it answers.                                     *)
(***************************************************************************)
EXTENDS Naturals, Sequences, SequencesExt

CONSTANTS Builders, Editors,
          Leaves,                  \* the trees that are one token
          Nothing                  \* no cursor; no result

VARIABLES trees,     \* what the callers hold
          fed,       \* the tokens each parse was fed
          cursor,    \* where each editor stands: [tree, path]
          result     \* what the edit it has begun will answer

vars == <<trees, fed, cursor, result>>

\* The tokens of a tree in the order of its text.
RECURSIVE TextOf(_)
TextOf(tree) ==
    IF tree \in Leaves THEN <<tree>>
    ELSE FlattenSeq([i \in DOMAIN tree.children |-> TextOf(tree.children[i])])

\* What is at a path below a tree, and the tree with something else there.
RECURSIVE At(_, _), Put(_, _, _)
At(tree, path) ==
    IF path = <<>> THEN tree ELSE At(tree.children[Head(path)], Tail(path))
Put(tree, path, other) ==
    IF path = <<>> THEN other
    ELSE [tree EXCEPT !.children[Head(path)] = Put(@, Tail(path), other)]

\* The tree with the node at a path given other children.
WithChildren(tree, path, kids) ==
    Put(tree, path, [At(tree, path) EXCEPT !.children = kids])

Inserted(tree, path, i, other) ==
    WithChildren(tree, path, InsertAt(At(tree, path).children, i, other))

Removed(tree, path, i) ==
    WithChildren(tree, path, RemoveAt(At(tree, path).children, i))

-----------------------------------------------------------------------------

Init ==
    /\ trees = {}
    /\ fed = [b \in Builders |-> <<>>]
    /\ cursor = [e \in Editors |-> Nothing]
    /\ result = [e \in Editors |-> Nothing]

Feed(b) ==
    /\ \E t \in Leaves : fed' = [fed EXCEPT ![b] = Append(@, t)]
    /\ UNCHANGED <<trees, cursor, result>>

Parsed(b) ==
    /\ \E tree \in trees' : TextOf(tree) = fed[b] /\ trees' = trees \cup {tree}
    /\ fed' = [fed EXCEPT ![b] = <<>>]
    /\ UNCHANGED <<cursor, result>>

Walk(e) ==
    /\ result[e] = Nothing
    /\ \/ /\ cursor[e] = Nothing
          /\ \E tree \in trees : cursor' = [cursor EXCEPT ![e] = [tree |-> tree, path |-> <<>>]]
       \/ /\ cursor[e] # Nothing
          /\ \E i \in DOMAIN At(cursor[e].tree, cursor[e].path).children :
                 cursor' = [cursor EXCEPT ![e].path = Append(@, i)]
       \/ cursor' = [cursor EXCEPT ![e] = Nothing]
    /\ UNCHANGED <<trees, fed, result>>

\* The trees an edit at a path may answer.
Edits(tree, path) ==
    {Put(tree, path, other) : other \in IF At(tree, path) \in Leaves THEN Leaves ELSE trees}
    \cup (IF At(tree, path) \in Leaves THEN {}
          ELSE LET width == Len(At(tree, path).children) IN
               {Inserted(tree, path, i, other) : i \in 1..width + 1, other \in trees}
               \cup {Removed(tree, path, i) : i \in 1..width}
               \cup (IF path = <<>> THEN {}
                     ELSE {Removed(tree, Front(path), Last(path))}
                          \cup {Inserted(tree, Front(path), Last(path) + 1, other) : other \in trees}))

Begin(e) ==
    /\ cursor[e] # Nothing
    /\ result[e] = Nothing
    /\ \E tree \in Edits(cursor[e].tree, cursor[e].path) : result' = [result EXCEPT ![e] = tree]
    /\ UNCHANGED <<trees, fed, cursor>>

\* An edit answers; one that had nothing to do, the tree as it was.
Finish(e) ==
    /\ cursor[e] # Nothing
    /\ trees' = trees \cup {IF result[e] = Nothing THEN cursor[e].tree ELSE result[e]}
    /\ cursor' = [cursor EXCEPT ![e] = Nothing]
    /\ result' = [result EXCEPT ![e] = Nothing]
    /\ UNCHANGED fed

\* A caller drops a tree, or holds a part of one.
Handle ==
    /\ \/ \E tree \in trees : trees' = trees \ {tree}
       \/ \E tree \in trees : \E i \in DOMAIN tree.children : trees' = trees \cup {tree.children[i]}
    /\ UNCHANGED <<fed, cursor, result>>

Next ==
    \/ \E b \in Builders : Feed(b) \/ Parsed(b)
    \/ \E e \in Editors : Walk(e) \/ Begin(e) \/ Finish(e)
    \/ Handle

Spec == Init /\ [][Next]_vars
=============================================================================
