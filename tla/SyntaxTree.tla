----------------------------- MODULE SyntaxTree -----------------------------
(***************************************************************************)
(* The red tree: cursors over a green tree.  A cursor is its path, the     *)
(* position of each node of the spine among its parent's children; where   *)
(* it is in the file it learns on the way down, from the lengths of what   *)
(* comes before it.  And what a green tree means: the value it stands for, *)
(* by which building and editing keep what they promise.                   *)
(***************************************************************************)
EXTENDS GreenTree, Integers

CONSTANT TextSize     \* bytes of each text

\* The tree an object stands for, and its leaves in order.
RECURSIVE Value(_), LeavesUnder(_), TextLength(_)
Value(a) ==
    [heap[a] EXCEPT !.children = [i \in DOMAIN @ |-> Value(@[i])]]

LeavesUnder(a) ==
    IF IsNode(a)
    THEN FlattenSeq([i \in 1..Width(a) |-> LeavesUnder(heap[a].children[i])])
    ELSE <<heap[a]>>

TextLength(a) ==
    IF IsNode(a)
    THEN FoldLeft(LAMBDA n, child : n + TextLength(child), 0, heap[a].children)
    ELSE TextSize[heap[a].text]

-----------------------------------------------------------------------------
(* Navigation in the tree of a root *)

RECURSIVE GreenAt(_, _), Offset(_, _)
GreenAt(root, path) ==
    IF path = <<>> THEN root ELSE GreenAt(heap[root].children[Head(path)], Tail(path))

\* Where a cursor stands in the text.
Offset(root, path) ==
    IF path = <<>> THEN 0
    ELSE LET siblings == heap[GreenAt(root, Front(path))].children IN
         FoldLeft(LAMBDA n, child : n + TextLength(child),
                  Offset(root, Front(path)), SubSeq(siblings, 1, Last(path) - 1))

\* The child it would have at a position, or no cursor.
Child(root, path, i) ==
    IF i \in 1..Width(GreenAt(root, path)) THEN {Append(path, i)} ELSE {}

\* Its next sibling, or with -1 the previous one.
Sibling(root, path, step) ==
    IF path = <<>> THEN {} ELSE Child(root, Front(path), Last(path) + step)

\* `tokens()`: the paths of the leaves below a cursor, in order.
RECURSIVE TokensOf(_, _)
TokensOf(root, path) ==
    FlattenSeq([i \in 1..Width(GreenAt(root, path)) |->
        LET child == Append(path, i) IN
        IF IsNode(GreenAt(root, child)) THEN TokensOf(root, child) ELSE <<child>>])

RECURSIVE Beside(_, _, _)

\* (A mutant: either way, the first leaf.)
BesideFirst(root, path, step) ==
    IF path = <<>> THEN {}
    ELSE IF Sibling(root, path, step) = {} THEN Beside(root, Front(path), step)
    ELSE LET next == CHOOSE p \in Sibling(root, path, step) : TRUE
             leaves == TokensOf(root, next)
         IN IF ~IsNode(GreenAt(root, next)) THEN {next}
            ELSE IF leaves = <<>> THEN Beside(root, next, step)
            ELSE {Head(leaves)}

\* Up until something is next to it on that side, down to its first leaf,
\* and on from a node without any.
Beside(root, path, step) ==
    IF path = <<>> THEN {}
    ELSE IF Sibling(root, path, step) = {} THEN Beside(root, Front(path), step)
    ELSE LET next == CHOOSE p \in Sibling(root, path, step) : TRUE
             leaves == TokensOf(root, next)
         IN IF ~IsNode(GreenAt(root, next)) THEN {next}
            ELSE IF leaves = <<>> THEN Beside(root, next, step)
            ELSE {IF step = 1 THEN Head(leaves) ELSE Last(leaves)}

NextToken(root, path) == Beside(root, path, 1)
PrevToken(root, path) == Beside(root, path, -1)

Covers(root, path, offset) ==
    /\ offset >= Offset(root, path)
    /\ offset < Offset(root, path) + TextLength(GreenAt(root, path))

\* Down through the first child whose range holds the offset.
RECURSIVE TokenAtOffset(_, _, _)
TokenAtOffset(root, path, offset) ==
    LET holding == {i \in 1..Width(GreenAt(root, path)) : Covers(root, Append(path, i), offset)}
        first == Append(path, CHOOSE i \in holding : \A j \in holding : i <= j)
    IN IF ~Covers(root, path, offset) \/ holding = {} THEN {}
       ELSE IF IsNode(GreenAt(root, first)) THEN TokenAtOffset(root, first, offset)
       ELSE {first}

-----------------------------------------------------------------------------
(* Properties *)

LeafPaths(root) == TokensOf(root, <<>>)

\* From any leaf the next token is the next leaf of the text, and the
\* previous one the previous, whatever empty nodes are between them.
TokensInOrder ==
    \A root \in held :
        LET leaves == LeafPaths(root) IN
        \A i \in DOMAIN leaves :
            /\ NextToken(root, leaves[i]) = IF i = Len(leaves) THEN {} ELSE {leaves[i + 1]}
            /\ PrevToken(root, leaves[i]) = IF i = 1 THEN {} ELSE {leaves[i - 1]}

\* The leaves tile the text: each starts where the one before it ended, the
\* first at 0, and at any offset there is the one leaf that covers it.
OffsetsTile ==
    \A root \in held :
        LET leaves == LeafPaths(root)
            End(i) == Offset(root, leaves[i]) + TextLength(GreenAt(root, leaves[i]))
        IN /\ \A i \in DOMAIN leaves :
                  Offset(root, leaves[i]) = IF i = 1 THEN 0 ELSE End(i - 1)
           /\ leaves # <<>> => End(Len(leaves)) = TextLength(root)
           /\ \A offset \in 0..TextLength(root) :
                  TokenAtOffset(root, <<>>, offset) =
                      {leaves[i] : i \in {j \in DOMAIN leaves : Covers(root, leaves[j], offset)}}

\* Walking, measuring and searching a tree agree with its text at every place
\* of every tree held, empty nodes at its edges included.
CursorsAgree == TokensInOrder /\ OffsetsTile

-----------------------------------------------------------------------------
(* What building and editing promise *)

\* The value of the first n frames of a spine, the element in the place of
\* what they led to.
RECURSIVE Around(_, _, _)
Around(e, n, value) ==
    IF n = 1 THEN value
    ELSE Around(e, n - 1, [Value(spine[e][n - 1].green) EXCEPT
                               !.children[spine[e][n].index] = value])

Promise == INSTANCE TreeEditing WITH
    Leaves <- {GreenToken(kind, text) : kind \in TokenKinds, text \in Texts},
    trees <- {Value(a) : a \in held},
    fed <- [b \in Builders |->
               FlattenSeq([i \in DOMAIN children[b] |-> LeavesUnder(children[b][i])])],
    cursor <- [e \in Editors |->
                  IF spine[e] = <<>> THEN Nothing
                  ELSE [tree |-> Value(spine[e][1].green),
                        path |-> [i \in 1..Len(spine[e]) - 1 |-> spine[e][i + 1].index]]],
    result <- [e \in Editors |-> IF level[e] = 0 THEN Nothing
                                 ELSE Around(e, level[e], Value(element[e]))]

\* A tree is the tokens its parse was fed, an edit answers the tree it was
\* called on with that one change, and neither sees what others do to the
\* cache in between.
KeepsPromise == Promise!Spec
=============================================================================
