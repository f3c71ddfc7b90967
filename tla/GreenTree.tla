----------------------------- MODULE GreenTree -----------------------------
(***************************************************************************)
(* Green trees: immutable objects a cache hands out and shares, the        *)
(* builders that make trees of them while they parse, and the editors that *)
(* make a new tree out of an old one.  Builders and editors share one      *)
(* cache and run at the same time; a call of the cache holds its mutex and *)
(* is one step, and whatever a caller does between two calls is its own.   *)
(*                                                                         *)
(* The objects live at addresses.  One that nobody refers to any more is   *)
(* destroyed, and its address may then be the next object's: what the      *)
(* cache looks nodes up by is the addresses of their children.             *)
(***************************************************************************)
EXTENDS Naturals, Sequences, SequencesExt

CONSTANTS Addr,            \* addresses of objects
          Allocate(_),     \* where among the free addresses a new object may go
          TokenKinds, NodeKinds,
          Texts,           \* what a token may cover
          MaxInterned,     \* kMaxInternedChildren
          Builders,        \* the parses in progress
          Editors,         \* and the edits
          Free, NoText,    \* no object; what a node covers is its leaves'
          Nothing,         \* no element
          OutOfRange       \* whether callers remove past the last child of
                           \* a node below the root, as they may of a root's

ASSUME AllocateAssumption == \A S \in SUBSET Addr : Allocate(S) \subseteq S
ASSUME KindsAssumption == TokenKinds \cap NodeKinds = {}
ASSUME SentinelAssumption == NoText \notin Texts /\ Nothing \notin Addr
ASSUME ParametersAssumption == MaxInterned \in Nat /\ OutOfRange \in BOOLEAN

VARIABLES heap,      \* the object at each address, or Free
          tokens,    \* the cache: (kind, text) -> token,
          nodes,     \* (kind, addresses of the children) -> node
          children,  \* of each builder: finished and not yet claimed by a node
          open,      \* of each builder: [kind, first] of the nodes it is inside
          spine,     \* of each editor: [green, index] from a root to the target
          element,   \* of each editor: the element to put in the target's place
          level,     \* of each editor: how much of the spine is still to rebuild
          held       \* nodes the callers hold

vars == <<heap, tokens, nodes, children, open, spine, element, level, held>>
cache == <<heap, tokens, nodes>>
building == <<children, open>>
editing == <<spine, element, level>>

Object == [kind : TokenKinds, text : Texts, children : {<<>>}]
          \cup [kind : NodeKinds, text : {NoText}, children : Seq(Addr)]
OpenNode == [kind : NodeKinds, first : Nat \ {0}]
Frame == [green : Addr, index : Nat]

ASSUME FreeAssumption == Free \notin Object

Allocated == {a \in Addr : heap[a] # Free}
IsNode(a) == heap[a].kind \in NodeKinds
Width(a) == Len(heap[a].children)

GreenToken(kind, text) == [kind |-> kind, text |-> text, children |-> <<>>]
GreenNode(kind, kids) == [kind |-> kind, text |-> NoText, children |-> kids]

-----------------------------------------------------------------------------
(* The cache *)

\* An entry added to one of its maps.
With(map, key, a) == [k \in DOMAIN map \cup {key} |-> IF k = key THEN a ELSE map[k]]

\* A new object at address a.
Create(object, a) ==
    /\ a \in Allocate(Addr \ Allocated)
    /\ heap' = [heap EXCEPT ![a] = object]

\* The cache answers a when asked for a token.
CacheToken(kind, text, a) ==
    LET key == <<kind, text>> IN
    \/ /\ key \in DOMAIN tokens
       /\ a = tokens[key]
       /\ UNCHANGED cache
    \/ /\ key \notin DOMAIN tokens
       /\ Create(GreenToken(kind, text), a)
       /\ tokens' = With(tokens, key, a)
       /\ UNCHANGED nodes

\* (A mutant: the key is made once the children have been moved from.)
CacheNodeMovedFrom(kind, kids, a) ==
    LET key == <<kind, kids>> IN
    \/ /\ Len(kids) <= MaxInterned
       /\ key \in DOMAIN nodes
       /\ a = nodes[key]
       /\ UNCHANGED cache
    \/ /\ key \notin DOMAIN nodes
       /\ Create(GreenNode(kind, kids), a)
       /\ nodes' = IF Len(kids) > MaxInterned THEN nodes ELSE With(nodes, <<kind, <<>>>>, a)
       /\ UNCHANGED tokens

\* The cache answers a when asked for a node of these children.
CacheNode(kind, kids, a) ==
    LET key == <<kind, kids>> IN
    \/ /\ Len(kids) > MaxInterned
       /\ Create(GreenNode(kind, kids), a)
       /\ UNCHANGED <<tokens, nodes>>
    \/ /\ Len(kids) <= MaxInterned
       /\ key \in DOMAIN nodes
       /\ a = nodes[key]
       /\ UNCHANGED cache
    \/ /\ Len(kids) <= MaxInterned
       /\ key \notin DOMAIN nodes
       /\ Create(GreenNode(kind, kids), a)
       /\ nodes' = With(nodes, key, a)
       /\ UNCHANGED tokens

-----------------------------------------------------------------------------
(* A builder *)

Innermost(b) == Last(open[b])

\* The root is started first, and nothing after it has been finished.
InsideNode(b) == open[b] # <<>>

\* (A mutant: the node starts after the next child.)
StartNodeLate(b, kind) ==
    /\ InsideNode(b) \/ children[b] = <<>>
    /\ open' = [open EXCEPT ![b] = Append(@, [kind |-> kind, first |-> Len(children[b]) + 2])]
    /\ UNCHANGED <<cache, children, editing, held>>

StartNode(b, kind) ==
    /\ InsideNode(b) \/ children[b] = <<>>
    /\ open' = [open EXCEPT ![b] = Append(@, [kind |-> kind, first |-> Len(children[b]) + 1])]
    /\ UNCHANGED <<cache, children, editing, held>>

\* A checkpoint was taken inside the innermost node.
StartNodeAt(b, checkpoint, kind) ==
    /\ InsideNode(b)
    /\ checkpoint >= Innermost(b).first
    /\ open' = [open EXCEPT ![b] = Append(@, [kind |-> kind, first |-> checkpoint])]
    /\ UNCHANGED <<cache, children, editing, held>>

AddToken(b, kind, text) ==
    /\ InsideNode(b)
    /\ \E a \in Addr :
           /\ CacheToken(kind, text, a)
           /\ children' = [children EXCEPT ![b] = Append(@, a)]
    /\ UNCHANGED <<open, editing, held>>

\* The innermost node takes what was finished since it was started.
FinishNode(b) ==
    /\ InsideNode(b)
    /\ \E a \in Addr :
           /\ CacheNode(Innermost(b).kind,
                        SubSeq(children[b], Innermost(b).first, Len(children[b])), a)
           /\ children' = [children EXCEPT ![b] =
                               Append(SubSeq(@, 1, Innermost(b).first - 1), a)]
    /\ open' = [open EXCEPT ![b] = Front(@)]
    /\ UNCHANGED <<editing, held>>

FinishTree(b) ==
    /\ ~InsideNode(b)
    /\ Len(children[b]) = 1
    /\ held' = held \cup {children[b][1]}
    /\ children' = [children EXCEPT ![b] = <<>>]
    /\ UNCHANGED <<cache, open, editing>>

-----------------------------------------------------------------------------
(* An editor: it walks down to a target, and rebuilds what is above it *)

Target(e) == Last(spine[e])
Walking(e) == spine[e] # <<>> /\ level[e] = 0
AtNode(e) == IsNode(Target(e).green)
HasParent(e) == Len(spine[e]) > 1
Parent(e) == spine[e][Len(spine[e]) - 1].green

Root(e, a) ==
    /\ spine[e] = <<>>
    /\ spine' = [spine EXCEPT ![e] = <<[green |-> a, index |-> 0]>>]
    /\ UNCHANGED <<cache, building, element, level, held>>

ChildAt(e, i) ==
    /\ Walking(e)
    /\ AtNode(e)
    /\ i <= Width(Target(e).green)
    /\ spine' = [spine EXCEPT ![e] =
                     Append(@, [green |-> heap[Target(e).green].children[i], index |-> i])]
    /\ UNCHANGED <<cache, building, element, level, held>>

\* The first n frames are to be rebuilt around the element.
RebuildFrom(e, n, a) ==
    /\ element' = [element EXCEPT ![e] = a]
    /\ level' = [level EXCEPT ![e] = n]
    /\ UNCHANGED spine

\* Its own children rewritten, a node is the first to be rebuilt.
RebuildWithChildren(e, n, kids) ==
    \E a \in Addr :
        /\ CacheNode(heap[spine[e][n].green].kind, kids, a)
        /\ RebuildFrom(e, n, a)

\* An edit that has nothing to do answers at once.
Answer(e, a) ==
    /\ held' = held \cup {a}
    /\ spine' = [spine EXCEPT ![e] = <<>>]
    /\ UNCHANGED <<cache, building, element, level>>

ReplaceNode(e, a) ==
    /\ Walking(e)
    /\ AtNode(e)
    /\ RebuildFrom(e, Len(spine[e]), a)
    /\ UNCHANGED <<cache, building, held>>

\* The caller had the replacement from the cache.
ReplaceToken(e, a) ==
    /\ Walking(e)
    /\ ~AtNode(e)
    /\ RebuildWithChildren(e, Len(spine[e]) - 1,
                           ReplaceAt(heap[Parent(e)].children, Target(e).index, a))
    /\ UNCHANGED <<building, held>>

\* An index past the children appends.
InsertInto(e, n, i, a) ==
    LET kids == heap[spine[e][n].green].children IN
    RebuildWithChildren(e, n, InsertAt(kids, IF i > Len(kids) THEN Len(kids) + 1 ELSE i, a))

RemoveFrom(e, n, i) ==
    LET kids == heap[spine[e][n].green].children IN
    RebuildWithChildren(e, n, RemoveAt(kids, i))

InsertChild(e, i, a) ==
    /\ Walking(e)
    /\ AtNode(e)
    /\ InsertInto(e, Len(spine[e]), i, a)
    /\ UNCHANGED <<building, held>>

RemoveChild(e, i) ==
    /\ Walking(e)
    /\ AtNode(e)
    /\ \/ /\ i <= Width(Target(e).green)
          /\ RemoveFrom(e, Len(spine[e]), i)
          /\ UNCHANGED <<building, held>>
       \/ /\ HasParent(e) => OutOfRange
          /\ i > Width(Target(e).green)
          /\ Answer(e, Target(e).green)

RemoveStatement(e) ==
    /\ Walking(e)
    /\ AtNode(e)
    /\ \/ /\ HasParent(e)
          /\ RemoveFrom(e, Len(spine[e]) - 1, Target(e).index)
          /\ UNCHANGED <<building, held>>
       \/ /\ ~HasParent(e)
          /\ Answer(e, Target(e).green)

\* (A mutant: the statement goes before the anchor.)
InsertStatementBefore(e, a) ==
    /\ Walking(e)
    /\ AtNode(e)
    /\ \/ /\ HasParent(e)
          /\ InsertInto(e, Len(spine[e]) - 1, Target(e).index, a)
          /\ UNCHANGED <<building, held>>
       \/ /\ ~HasParent(e)
          /\ Answer(e, Target(e).green)

InsertStatementAfter(e, a) ==
    /\ Walking(e)
    /\ AtNode(e)
    /\ \/ /\ HasParent(e)
          /\ InsertInto(e, Len(spine[e]) - 1, Target(e).index + 1, a)
          /\ UNCHANGED <<building, held>>
       \/ /\ ~HasParent(e)
          /\ Answer(e, Target(e).green)

\* (A mutant: the child is changed where it is.)
RebuildInPlace(e) ==
    /\ level[e] > 1
    /\ heap' = [heap EXCEPT ![spine[e][level[e] - 1].green].children[spine[e][level[e]].index] =
                                 element[e]]
    /\ RebuildFrom(e, level[e] - 1, spine[e][level[e] - 1].green)
    /\ UNCHANGED <<tokens, nodes, building, held>>

\* One node of the spine, with the element in the place of its old child.
Rebuild(e) ==
    /\ level[e] > 1
    /\ RebuildWithChildren(e, level[e] - 1,
           ReplaceAt(heap[spine[e][level[e] - 1].green].children,
                     spine[e][level[e]].index, element[e]))
    /\ UNCHANGED <<building, held>>

\* The root is rebuilt, and the caller drops its cursor.
NewRoot(e) ==
    /\ level[e] = 1
    /\ held' = held \cup {element[e]}
    /\ element' = [element EXCEPT ![e] = Nothing]
    /\ level' = [level EXCEPT ![e] = 0]
    /\ spine' = [spine EXCEPT ![e] = <<>>]
    /\ UNCHANGED <<cache, building>>

-----------------------------------------------------------------------------
(* The callers' handles, and the objects nobody has a handle on *)

DropCursor(e) ==
    /\ Walking(e)
    /\ spine' = [spine EXCEPT ![e] = <<>>]
    /\ UNCHANGED <<cache, building, element, level, held>>

Drop(a) ==
    /\ held' = held \ {a}
    /\ UNCHANGED <<cache, building, editing>>

\* A child outlives the tree it came from if the caller holds it.
Hold(a, i) ==
    /\ IsNode(heap[a].children[i])
    /\ held' = held \cup {heap[a].children[i]}
    /\ UNCHANGED <<cache, building, editing>>

Referenced(a) ==
    \/ a \in held
    \/ \E key \in DOMAIN tokens : tokens[key] = a
    \/ \E key \in DOMAIN nodes : nodes[key] = a
    \/ \E b \in Builders : \E i \in DOMAIN children[b] : children[b][i] = a
    \/ \E e \in Editors : \/ element[e] = a
                          \/ \E i \in DOMAIN spine[e] : spine[e][i].green = a
    \/ \E p \in Allocated : \E i \in DOMAIN heap[p].children : heap[p].children[i] = a

Destroy(a) ==
    /\ ~Referenced(a)
    /\ heap' = [heap EXCEPT ![a] = Free]
    /\ UNCHANGED <<tokens, nodes, building, editing, held>>

-----------------------------------------------------------------------------

Init ==
    /\ heap = [a \in Addr |-> Free]
    /\ tokens = <<>>
    /\ nodes = <<>>
    /\ children = [b \in Builders |-> <<>>]
    /\ open = [b \in Builders |-> <<>>]
    /\ spine = [e \in Editors |-> <<>>]
    /\ element = [e \in Editors |-> Nothing]
    /\ level = [e \in Editors |-> 0]
    /\ held = {}

Build(b) ==
    \/ \E kind \in NodeKinds : StartNode(b, kind)
    \/ \E checkpoint \in 1..Len(children[b]) + 1, kind \in NodeKinds : StartNodeAt(b, checkpoint, kind)
    \/ \E kind \in TokenKinds, text \in Texts : AddToken(b, kind, text)
    \/ FinishNode(b)
    \/ FinishTree(b)

Edit(e) ==
    \/ \E a \in held : Root(e, a) \/ ReplaceNode(e, a) \/ InsertStatementAfter(e, a)
    \/ /\ Walking(e)
       /\ AtNode(e)
       /\ \E i \in 1..Width(Target(e).green) + 1 :
              ChildAt(e, i) \/ RemoveChild(e, i) \/ \E a \in held : InsertChild(e, i, a)
    \/ \E key \in DOMAIN tokens : ReplaceToken(e, tokens[key])
    \/ RemoveStatement(e)
    \/ Rebuild(e)
    \/ NewRoot(e)
    \/ DropCursor(e)

Handle ==
    \/ \E a \in held : Drop(a) \/ \E i \in 1..Width(a) : Hold(a, i)
    \/ \E a \in Allocated : Destroy(a)

Next == (\E b \in Builders : Build(b)) \/ (\E e \in Editors : Edit(e)) \/ Handle

Spec == Init /\ [][Next]_vars

-----------------------------------------------------------------------------
(* Properties *)

\* Every variable has its type, and an open node starts within what is
\* finished, and no earlier than the one around it.
TypeOK ==
    /\ heap \in [Addr -> Object \cup {Free}]
    /\ DOMAIN tokens \subseteq TokenKinds \X Texts
    /\ tokens \in [DOMAIN tokens -> Addr]
    /\ DOMAIN nodes \subseteq NodeKinds \X Seq(Addr)
    /\ nodes \in [DOMAIN nodes -> Addr]
    /\ children \in [Builders -> Seq(Addr)]
    /\ open \in [Builders -> Seq(OpenNode)]
    /\ \A b \in Builders : \A i \in DOMAIN open[b] :
           /\ open[b][i].first <= Len(children[b]) + 1
           /\ \A j \in 1..i : open[b][j].first <= open[b][i].first
    /\ spine \in [Editors -> Seq(Frame)]
    /\ element \in [Editors -> Addr \cup {Nothing}]
    /\ level \in [Editors -> Nat]
    /\ held \subseteq Addr

\* What the cache looks a node up by is still the addresses of that node's
\* children, though it holds them raw: none was destroyed, and no other
\* object took an address over.
KeysExact ==
    /\ \A key \in DOMAIN tokens : heap[tokens[key]] = GreenToken(key[1], key[2])
    /\ \A key \in DOMAIN nodes : heap[nodes[key]] = GreenNode(key[1], key[2])

\* Two equal tokens are one object, and so are two nodes of the same few
\* children, whoever asked for them.
Interned ==
    \A a, b \in Allocated :
        heap[a] = heap[b] /\ Width(a) <= MaxInterned => a = b

\* Looking a node up by the addresses of its children finds the one node
\* that has those children, whatever was destroyed and made in between.
CacheExact == KeysExact /\ Interned

\* What anybody refers to is neither altered nor destroyed: a caller who
\* holds a tree sees nothing of an edit to it.
Immutable ==
    [][\A a \in Allocated : Referenced(a) => heap'[a] = heap[a]]_vars
=============================================================================
