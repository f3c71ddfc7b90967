-------------------------- MODULE GreenTreeProofs --------------------------
(***************************************************************************)
(* What holds of the cache, its builders and its editors, however many     *)
(* there are and wherever the allocator puts an object.  The invariant is  *)
(* the cache's -- keys exact, small objects registered, children alive --  *)
(* and each holder's: what it refers to is there.                          *)
(***************************************************************************)
EXTENDS GreenTree, TLAPS

HeapType == heap \in [Addr -> Object \cup {Free}]

CacheType ==
    /\ HeapType
    /\ DOMAIN tokens \subseteq TokenKinds \X Texts
    /\ tokens \in [DOMAIN tokens -> Addr]
    /\ DOMAIN nodes \subseteq NodeKinds \X Seq(Addr)
    /\ nodes \in [DOMAIN nodes -> Addr]

HolderType ==
    /\ children \in [Builders -> Seq(Addr)]
    /\ open \in [Builders -> Seq(OpenNode)]
    /\ spine \in [Editors -> Seq(Frame)]
    /\ element \in [Editors -> Addr \cup {Nothing}]
    /\ level \in [Editors -> Nat]
    /\ held \subseteq Addr

\* An object is a node that exists.
NodeAt(a) == heap[a] # Free /\ IsNode(a)

\* A token, or a node of few children, is what the cache answers.
Registered ==
    \A a \in Allocated :
        /\ ~IsNode(a) => /\ <<heap[a].kind, heap[a].text>> \in DOMAIN tokens
                         /\ tokens[<<heap[a].kind, heap[a].text>>] = a
        /\ IsNode(a) /\ Width(a) <= MaxInterned =>
               /\ <<heap[a].kind, heap[a].children>> \in DOMAIN nodes
               /\ nodes[<<heap[a].kind, heap[a].children>>] = a

ChildrenLive ==
    \A p \in Allocated : \A i \in DOMAIN heap[p].children : heap[p].children[i] \in Allocated

CacheInv == CacheType /\ KeysExact /\ Registered /\ ChildrenLive

BuilderOK(b) ==
    /\ \A i \in DOMAIN children[b] : children[b][i] \in Allocated
    /\ \A i \in DOMAIN open[b] :
           /\ open[b][i].first <= Len(children[b]) + 1
           /\ \A j \in 1..i : open[b][j].first <= open[b][i].first
    /\ open[b] # <<>> => open[b][1].first = 1
    /\ open[b] = <<>> => /\ Len(children[b]) <= 1
                         /\ \A i \in DOMAIN children[b] : NodeAt(children[b][i])

EditorOK(e) ==
    /\ \A i \in DOMAIN spine[e] :
           /\ spine[e][i].green \in Allocated
           /\ i = 1 \/ i < Len(spine[e]) => IsNode(spine[e][i].green)
           /\ i > 1 => spine[e][i].index \in 1..Width(spine[e][i - 1].green)
    /\ level[e] <= Len(spine[e])
    /\ level[e] # 0 => element[e] \in Addr /\ NodeAt(element[e])

HeldOK == \A a \in held : NodeAt(a)

IInv ==
    /\ CacheInv
    /\ HolderType
    /\ \A b \in Builders : BuilderOK(b)
    /\ \A e \in Editors : EditorOK(e)
    /\ HeldOK

\* What anybody refers to stays as it is.
Keeps == \A a \in Allocated : Referenced(a) => heap'[a] = heap[a]

-----------------------------------------------------------------------------
(* Objects *)

LEMMA ObjectFacts ==
    ASSUME HeapType, NEW a \in Allocated
    PROVE  /\ a \in Addr
           /\ heap[a] \in Object
           /\ heap[a].children \in Seq(Addr)
           /\ IsNode(a) => heap[a] = GreenNode(heap[a].kind, heap[a].children)
           /\ ~IsNode(a) => /\ heap[a].kind \in TokenKinds /\ heap[a].text \in Texts
                            /\ heap[a] = GreenToken(heap[a].kind, heap[a].text)
<1>1. a \in Addr /\ heap[a] \in Object
  BY DEF HeapType, Allocated
<1>2. CASE heap[a] \in [kind : TokenKinds, text : Texts, children : {<<>>}]
  <2>1. heap[a].kind \in TokenKinds /\ heap[a].text \in Texts /\ heap[a].children = <<>>
    BY <1>2
  <2>2. heap[a] = GreenToken(heap[a].kind, heap[a].text)
    BY <1>2 DEF GreenToken
  <2> QED BY <1>1, <2>1, <2>2, KindsAssumption DEF IsNode
<1>3. CASE heap[a] \in [kind : NodeKinds, text : {NoText}, children : Seq(Addr)]
  <2>1. heap[a].kind \in NodeKinds /\ heap[a].text = NoText /\ heap[a].children \in Seq(Addr)
    BY <1>3
  <2>2. heap[a] = GreenNode(heap[a].kind, heap[a].children)
    BY <1>3 DEF GreenNode
  <2> QED BY <1>1, <2>1, <2>2 DEF IsNode
<1> QED BY <1>1, <1>2, <1>3 DEF Object

LEMMA NewObjects ==
    /\ \A kind \in TokenKinds, text \in Texts :
           /\ GreenToken(kind, text) \in Object
           /\ GreenToken(kind, text) # Free
           /\ GreenToken(kind, text).kind \notin NodeKinds
    /\ \A kind \in NodeKinds, kids \in Seq(Addr) :
           /\ GreenNode(kind, kids) \in Object
           /\ GreenNode(kind, kids) # Free
<1>1. \A kind \in TokenKinds, text \in Texts :
          GreenToken(kind, text) \in Object /\ GreenToken(kind, text).kind \notin NodeKinds
  BY KindsAssumption DEF GreenToken, Object
<1>2. \A kind \in NodeKinds, kids \in Seq(Addr) : GreenNode(kind, kids) \in Object
  BY DEF GreenNode, Object
<1> QED BY <1>1, <1>2, FreeAssumption

\* A new object goes where none was, and nothing else moves.
LEMMA CreateEffect ==
    ASSUME HeapType, NEW object \in Object, NEW a, Create(object, a)
    PROVE  /\ a \in Addr
           /\ heap[a] = Free
           /\ HeapType'
           /\ heap'[a] = object
           /\ \A x \in Addr \ {a} : heap'[x] = heap[x]
           /\ Allocated' = Allocated \cup {a}
<1>1. a \in Addr \ Allocated
  BY AllocateAssumption DEF Create
<1>2. heap' = [heap EXCEPT ![a] = object]
  BY DEF Create
<1>3. a \in Addr /\ heap[a] = Free
  BY <1>1 DEF Allocated
<1>4. heap'[a] = object /\ \A x \in Addr \ {a} : heap'[x] = heap[x]
  BY <1>2, <1>3 DEF HeapType
<1>5. HeapType'
  BY <1>2, <1>3 DEF HeapType
<1>6. Allocated' = Allocated \cup {a}
  BY <1>3, <1>4, FreeAssumption DEF Allocated
<1> QED BY <1>3, <1>4, <1>5, <1>6

-----------------------------------------------------------------------------
(* The cache *)

\* Every object there was is still there, as it was.
Grown == \A x \in Allocated : x \in Allocated' /\ heap'[x] = heap[x]

\* What the cache has is there.
LEMMA EntriesLive ==
    ASSUME CacheInv
    PROVE  /\ \A key \in DOMAIN tokens : tokens[key] \in Allocated
           /\ \A key \in DOMAIN nodes : nodes[key] \in Allocated
<1>1. ASSUME NEW key \in DOMAIN tokens PROVE tokens[key] \in Allocated
  <2>1. key[1] \in TokenKinds /\ key[2] \in Texts /\ tokens[key] \in Addr
    BY DEF CacheInv, CacheType
  <2> QED BY <2>1, NewObjects DEF CacheInv, KeysExact, Allocated
<1>2. ASSUME NEW key \in DOMAIN nodes PROVE nodes[key] \in Allocated
  <2>1. key[1] \in NodeKinds /\ key[2] \in Seq(Addr) /\ nodes[key] \in Addr
    BY DEF CacheInv, CacheType
  <2> QED BY <2>1, NewObjects DEF CacheInv, KeysExact, Allocated
<1> QED BY <1>1, <1>2

\* A new object keeps the children of all alive if its own are.
LEMMA CreateKeepsChildren ==
    ASSUME CacheInv, NEW object \in Object, NEW a, Create(object, a),
           \A i \in DOMAIN object.children : object.children[i] \in Allocated
    PROVE  ChildrenLive' /\ Grown
<1>1. /\ HeapType' /\ a \in Addr /\ heap[a] = Free /\ heap'[a] = object
      /\ Allocated' = Allocated \cup {a}
      /\ \A x \in Addr \ {a} : heap'[x] = heap[x]
  BY CreateEffect DEF CacheInv, CacheType
<1>2. Grown
  BY <1>1 DEF Grown, Allocated
<1>3. ASSUME NEW p \in Allocated', NEW i \in DOMAIN heap'[p].children
      PROVE  heap'[p].children[i] \in Allocated'
  <2>1. CASE p = a
    BY <1>1, <2>1
  <2>2. CASE p \in Allocated
    BY <1>1, <1>2, <2>2 DEF CacheInv, ChildrenLive, Grown
  <2> QED BY <1>1, <2>1, <2>2
<1> QED BY <1>2, <1>3 DEF ChildrenLive

\* A call for a token leaves the cache as it must be, whatever it answers.
LEMMA TokenCall ==
    ASSUME CacheInv, NEW kind \in TokenKinds, NEW text \in Texts, NEW a,
           CacheToken(kind, text, a)
    PROVE  CacheInv' /\ Grown /\ a \in Allocated'
<1> DEFINE key == <<kind, text>>
           object == GreenToken(kind, text)
<1>1. CASE key \in DOMAIN tokens /\ a = tokens[key] /\ UNCHANGED cache
  <2>1. heap' = heap /\ tokens' = tokens /\ nodes' = nodes
    BY <1>1 DEF cache
  <2>2. a \in Allocated
    BY <1>1, EntriesLive
  <2> QED BY <2>1, <2>2 DEF CacheInv, CacheType, HeapType, KeysExact, Registered, ChildrenLive,
                            Allocated, IsNode, Width, Grown
<1>2. CASE /\ key \notin DOMAIN tokens
           /\ Create(object, a)
           /\ tokens' = With(tokens, key, a)
           /\ nodes' = nodes
  <2>1. object \in Object /\ object # Free /\ object.kind \notin NodeKinds
        /\ object.children = <<>> /\ object.kind = kind /\ object.text = text
    BY NewObjects DEF GreenToken
  <2>2. /\ a \in Addr /\ heap[a] = Free /\ HeapType' /\ heap'[a] = object
        /\ \A x \in Addr \ {a} : heap'[x] = heap[x]
        /\ Allocated' = Allocated \cup {a}
    BY <1>2, <2>1, CreateEffect DEF CacheInv, CacheType
  <2>3. ChildrenLive' /\ Grown
    BY <1>2, <2>1, CreateKeepsChildren
  <2>4. /\ DOMAIN tokens' = DOMAIN tokens \cup {key}
        /\ tokens'[key] = a
        /\ \A k \in DOMAIN tokens : tokens'[k] = tokens[k]
        /\ tokens' \in [DOMAIN tokens' -> Addr]
    <3>1. tokens \in [DOMAIN tokens -> Addr]
      BY DEF CacheInv, CacheType
    <3>2. tokens' = [k \in DOMAIN tokens \cup {key} |-> IF k = key THEN a ELSE tokens[k]]
      BY <1>2 DEF With
    <3> QED BY <1>2, <2>2, <3>1, <3>2
  <2>5. CacheType'
    <3>1. DOMAIN tokens' \subseteq TokenKinds \X Texts
      BY <2>4 DEF CacheInv, CacheType
    <3> QED BY <1>2, <2>2, <2>4, <3>1 DEF CacheInv, CacheType
  <2>6. KeysExact'
    <3>1. ASSUME NEW k \in DOMAIN tokens' PROVE heap'[tokens'[k]] = GreenToken(k[1], k[2])
      <4>1. CASE k = key
        BY <2>2, <2>4, <4>1
      <4>2. CASE k \in DOMAIN tokens
        BY <2>3, <2>4, <4>2, EntriesLive DEF CacheInv, KeysExact, Grown
      <4> QED BY <2>4, <4>1, <4>2
    <3>2. ASSUME NEW k \in DOMAIN nodes PROVE heap'[nodes[k]] = GreenNode(k[1], k[2])
      BY <2>3, EntriesLive DEF CacheInv, KeysExact, Grown
    <3> QED BY <1>2, <3>1, <3>2 DEF KeysExact
  <2>7. Registered'
    <3> SUFFICES ASSUME NEW x \in Allocated'
                 PROVE  /\ ~IsNode(x)' => /\ <<heap'[x].kind, heap'[x].text>> \in DOMAIN tokens'
                                          /\ tokens'[<<heap'[x].kind, heap'[x].text>>] = x
                        /\ IsNode(x)' /\ Width(x)' <= MaxInterned =>
                               /\ <<heap'[x].kind, heap'[x].children>> \in DOMAIN nodes'
                               /\ nodes'[<<heap'[x].kind, heap'[x].children>>] = x
      BY DEF Registered
    <3>1. CASE x = a
      BY <2>1, <2>2, <2>4, <3>1 DEF IsNode
    <3>2. CASE x \in Allocated
      BY <1>2, <2>3, <2>4, <3>2 DEF CacheInv, Registered, Grown, IsNode, Width
    <3> QED BY <2>2, <3>1, <3>2
  <2> QED BY <2>2, <2>3, <2>5, <2>6, <2>7 DEF CacheInv
<1> QED BY <1>1, <1>2 DEF CacheToken

\* So does a call for a node, if the children it is asked for are there.
LEMMA NodeCall ==
    ASSUME CacheInv, NEW kind \in NodeKinds, NEW kids \in Seq(Addr), NEW a,
           \A i \in DOMAIN kids : kids[i] \in Allocated,
           CacheNode(kind, kids, a)
    PROVE  CacheInv' /\ Grown /\ a \in Allocated' /\ NodeAt(a)'
<1> DEFINE key == <<kind, kids>>
           object == GreenNode(kind, kids)
<1>1. object \in Object /\ object # Free /\ object.kind = kind /\ object.children = kids
  BY NewObjects DEF GreenNode
<1>2. CASE Len(kids) <= MaxInterned /\ key \in DOMAIN nodes /\ a = nodes[key] /\ UNCHANGED cache
  <2>1. heap' = heap /\ tokens' = tokens /\ nodes' = nodes
    BY <1>2 DEF cache
  <2>2. a \in Allocated /\ heap[a] = object
    BY <1>2, EntriesLive DEF CacheInv, KeysExact
  <2> QED BY <1>1, <2>1, <2>2 DEF CacheInv, CacheType, HeapType, KeysExact, Registered,
                            ChildrenLive, Allocated, IsNode, Width, Grown, NodeAt
<1>3. CASE Create(object, a) /\ tokens' = tokens
           /\ \/ Len(kids) > MaxInterned /\ nodes' = nodes
              \/ key \notin DOMAIN nodes /\ nodes' = With(nodes, key, a)
  <2>2. /\ a \in Addr /\ heap[a] = Free /\ HeapType' /\ heap'[a] = object
        /\ \A x \in Addr \ {a} : heap'[x] = heap[x]
        /\ Allocated' = Allocated \cup {a}
    BY <1>1, <1>3, CreateEffect DEF CacheInv, CacheType
  <2>3. ChildrenLive' /\ Grown
    BY <1>1, <1>3, CreateKeepsChildren
  <2>4. /\ DOMAIN nodes' \subseteq DOMAIN nodes \cup {key}
        /\ DOMAIN nodes \subseteq DOMAIN nodes'
        /\ Len(kids) <= MaxInterned => key \in DOMAIN nodes'
        /\ key \in DOMAIN nodes' /\ Len(kids) <= MaxInterned => nodes'[key] = a
        /\ \A k \in DOMAIN nodes : nodes'[k] = nodes[k]
        /\ \A k \in DOMAIN nodes' : k \in DOMAIN nodes \/ (k = key /\ nodes'[k] = a)
        /\ nodes' \in [DOMAIN nodes' -> Addr]
    <3>1. Len(kids) \in Nat /\ MaxInterned \in Nat
      BY ParametersAssumption
    <3>2. CASE Len(kids) > MaxInterned /\ nodes' = nodes
      BY <3>1, <3>2 DEF CacheInv, CacheType
    <3>3. CASE key \notin DOMAIN nodes /\ nodes' = With(nodes, key, a)
      <4>1. nodes \in [DOMAIN nodes -> Addr]
        BY DEF CacheInv, CacheType
      <4>2. nodes' = [k \in DOMAIN nodes \cup {key} |-> IF k = key THEN a ELSE nodes[k]]
        BY <3>3 DEF With
      <4> QED BY <2>2, <3>3, <4>1, <4>2
    <3> QED BY <1>3, <3>2, <3>3
  <2>5. CacheType'
    BY <1>3, <2>2, <2>4 DEF CacheInv, CacheType
  <2>6. KeysExact'
    <3>1. ASSUME NEW k \in DOMAIN nodes' PROVE heap'[nodes'[k]] = GreenNode(k[1], k[2])
      <4>1. CASE k = key /\ nodes'[k] = a
        BY <2>2, <4>1
      <4>2. CASE k \in DOMAIN nodes
        BY <2>3, <2>4, <4>2, EntriesLive DEF CacheInv, KeysExact, Grown
      <4> QED BY <2>4, <4>1, <4>2
    <3>2. ASSUME NEW k \in DOMAIN tokens PROVE heap'[tokens[k]] = GreenToken(k[1], k[2])
      BY <2>3, EntriesLive DEF CacheInv, KeysExact, Grown
    <3> QED BY <1>3, <3>1, <3>2 DEF KeysExact
  <2>7. Registered'
    <3> SUFFICES ASSUME NEW x \in Allocated'
                 PROVE  /\ ~IsNode(x)' => /\ <<heap'[x].kind, heap'[x].text>> \in DOMAIN tokens'
                                          /\ tokens'[<<heap'[x].kind, heap'[x].text>>] = x
                        /\ IsNode(x)' /\ Width(x)' <= MaxInterned =>
                               /\ <<heap'[x].kind, heap'[x].children>> \in DOMAIN nodes'
                               /\ nodes'[<<heap'[x].kind, heap'[x].children>>] = x
      BY DEF Registered
    <3>1. CASE x = a
      BY <1>1, <2>2, <2>4, <3>1 DEF IsNode, Width
    <3>2. CASE x \in Allocated
      BY <1>3, <2>3, <2>4, <3>2 DEF CacheInv, Registered, Grown, IsNode, Width
    <3> QED BY <2>2, <3>1, <3>2
  <2> QED BY <1>1, <2>2, <2>3, <2>5, <2>6, <2>7 DEF CacheInv, NodeAt, IsNode
<1> QED BY <1>2, <1>3 DEF CacheNode

-----------------------------------------------------------------------------
(* The holders: one that does nothing still has what it refers to *)

LEMMA StaysAllocated ==
    ASSUME Keeps, NEW a \in Allocated, Referenced(a)
    PROVE  a \in Allocated' /\ heap'[a] = heap[a]
BY DEF Keeps, Allocated

LEMMA BuilderStays ==
    ASSUME HolderType, Keeps, NEW b \in Builders, BuilderOK(b),
           children'[b] = children[b], open'[b] = open[b]
    PROVE  BuilderOK(b)'
<1>1. \A i \in DOMAIN children[b] : Referenced(children[b][i])
  BY DEF Referenced
<1>2. \A i \in DOMAIN children[b] :
          /\ children[b][i] \in Allocated'
          /\ heap'[children[b][i]] = heap[children[b][i]]
  BY <1>1, StaysAllocated DEF BuilderOK
<1> QED BY <1>2 DEF BuilderOK, NodeAt, IsNode

LEMMA EditorStays ==
    ASSUME HolderType, Keeps, NEW e \in Editors, EditorOK(e),
           spine'[e] = spine[e], element'[e] = element[e], level'[e] = level[e]
    PROVE  EditorOK(e)'
<1>1. \A i \in DOMAIN spine[e] : Referenced(spine[e][i].green)
  BY DEF Referenced
<1>2. \A i \in DOMAIN spine[e] :
          /\ spine[e][i].green \in Allocated'
          /\ heap'[spine[e][i].green] = heap[spine[e][i].green]
  BY <1>1, StaysAllocated DEF EditorOK
<1>3. spine[e] \in Seq(Frame) /\ level[e] \in Nat
  BY DEF HolderType
<1>4. ASSUME NEW i \in DOMAIN spine[e], i > 1 PROVE Width(spine[e][i - 1].green)' = Width(spine[e][i - 1].green)
  <2>1. i - 1 \in DOMAIN spine[e]
    BY <1>3, <1>4
  <2> QED BY <1>2, <2>1 DEF Width
<1>5. level[e] # 0 => NodeAt(element[e])'
  <2>1. level[e] # 0 => element[e] \in Allocated /\ Referenced(element[e])
    BY DEF EditorOK, NodeAt, Allocated, Referenced
  <2> QED BY <2>1, StaysAllocated DEF EditorOK, NodeAt, IsNode
<1> QED BY <1>2, <1>3, <1>4, <1>5 DEF EditorOK, IsNode

LEMMA HeldStays ==
    ASSUME HolderType, Keeps, HeldOK
    PROVE  \A a \in held : NodeAt(a)'
<1>1. \A a \in held : a \in Allocated /\ Referenced(a)
  BY DEF HolderType, HeldOK, NodeAt, Allocated, Referenced
<1> QED BY <1>1, StaysAllocated DEF HeldOK, NodeAt, IsNode

LEMMA GrownKeeps == ASSUME Grown PROVE Keeps
BY DEF Grown, Keeps

\* What is left to show of a step of one builder.
LEMMA BuilderStep ==
    ASSUME IInv, NEW b \in Builders, CacheInv', Grown, HolderType',
           \A c \in Builders \ {b} : children'[c] = children[c] /\ open'[c] = open[c],
           UNCHANGED editing, BuilderOK(b)',
           \A a \in held' \ held : NodeAt(a)'
    PROVE  IInv' /\ Keeps
<1>1. Keeps
  BY GrownKeeps
<1>2. \A c \in Builders : BuilderOK(c)'
  BY <1>1, BuilderStays DEF IInv
<1>3. spine' = spine /\ element' = element /\ level' = level
  BY DEF editing
<1>4. \A e \in Editors : EditorOK(e)'
  BY <1>1, <1>3, EditorStays DEF IInv
<1>5. HeldOK'
  BY <1>1, HeldStays DEF IInv, HeldOK
<1> QED BY <1>1, <1>2, <1>4, <1>5 DEF IInv

\* And of one editor.
LEMMA EditorStep ==
    ASSUME IInv, NEW e \in Editors, CacheInv', Grown, HolderType', UNCHANGED building,
           \A f \in Editors \ {e} :
               spine'[f] = spine[f] /\ element'[f] = element[f] /\ level'[f] = level[f],
           EditorOK(e)',
           \A a \in held' \ held : NodeAt(a)'
    PROVE  IInv' /\ Keeps
<1>1. Keeps
  BY GrownKeeps
<1>2. children' = children /\ open' = open
  BY DEF building
<1>3. \A c \in Builders : BuilderOK(c)'
  BY <1>1, <1>2, BuilderStays DEF IInv
<1>4. \A f \in Editors : EditorOK(f)'
  BY <1>1, EditorStays DEF IInv
<1>5. HeldOK'
  BY <1>1, HeldStays DEF IInv, HeldOK
<1> QED BY <1>1, <1>3, <1>4, <1>5 DEF IInv

\* The cache untouched is as it must be.
LEMMA CacheStays ==
    ASSUME CacheInv, UNCHANGED cache
    PROVE  CacheInv' /\ Grown
<1>1. heap' = heap /\ tokens' = tokens /\ nodes' = nodes
  BY DEF cache
<1> QED BY <1>1 DEF CacheInv, CacheType, HeapType, KeysExact, Registered, ChildrenLive,
                    Allocated, IsNode, Width, Grown

-----------------------------------------------------------------------------
(* The steps of a builder *)

LEMMA OpenFacts ==
    ASSUME IInv, NEW b \in Builders
    PROVE  \A i \in DOMAIN open[b] : open[b][i].first \in Nat \ {0} /\ open[b][i].kind \in NodeKinds
<1>1. open[b] \in Seq(OpenNode)
  BY DEF IInv, HolderType
<1>2. \A i \in DOMAIN open[b] : open[b][i] \in OpenNode
  BY <1>1
<1> QED BY <1>2 DEF OpenNode

LEMMA AppendFacts ==
    ASSUME NEW S, NEW s \in Seq(S), NEW x \in S
    PROVE  /\ Append(s, x) \in Seq(S)
           /\ Len(Append(s, x)) = Len(s) + 1
           /\ \A i \in DOMAIN s : Append(s, x)[i] = s[i]
           /\ Append(s, x)[Len(s) + 1] = x
           /\ \A i \in DOMAIN Append(s, x) : i \in DOMAIN s \/ i = Len(s) + 1
OBVIOUS

LEMMA FrontFacts ==
    ASSUME NEW S, NEW s \in Seq(S), s # <<>>
    PROVE  /\ Front(s) \in Seq(S)
           /\ Len(Front(s)) = Len(s) - 1
           /\ \A i \in DOMAIN Front(s) : Front(s)[i] = s[i] /\ i \in DOMAIN s
BY DEF Front

LEMMA InnermostFacts ==
    ASSUME IInv, NEW b \in Builders, InsideNode(b)
    PROVE  /\ Len(open[b]) \in Nat \ {0}
           /\ Innermost(b) = open[b][Len(open[b])]
           /\ Innermost(b).kind \in NodeKinds
           /\ Innermost(b).first \in 1..Len(children[b]) + 1
           /\ \A i \in DOMAIN open[b] : open[b][i].first <= Innermost(b).first
<1>1. open[b] \in Seq(OpenNode) /\ open[b] # <<>>
  BY DEF IInv, HolderType, InsideNode
<1>2. Len(open[b]) \in Nat \ {0} /\ Innermost(b) = open[b][Len(open[b])]
  BY <1>1 DEF Innermost, Last
<1>3. Innermost(b) \in OpenNode
  BY <1>1, <1>2
<1>4. Len(open[b]) \in DOMAIN open[b]
  BY <1>1, <1>2
<1> QED BY <1>1, <1>2, <1>3, <1>4, SMTT(30) DEF IInv, BuilderOK, OpenNode

\* A node opened within what is open, and not before the innermost one.
LEMMA OpensAt ==
    ASSUME IInv, NEW b \in Builders, NEW kind \in NodeKinds, NEW first \in Nat \ {0},
           first <= Len(children[b]) + 1,
           InsideNode(b) => first >= Innermost(b).first,
           InsideNode(b) \/ first = 1,
           open' = [open EXCEPT ![b] = Append(@, [kind |-> kind, first |-> first])],
           UNCHANGED <<cache, children, editing, held>>
    PROVE  IInv' /\ Keeps
<1> DEFINE new == [kind |-> kind, first |-> first]
<1>1. open \in [Builders -> Seq(OpenNode)] /\ new \in OpenNode
  BY DEF IInv, HolderType, OpenNode
<1>2. open'[b] = Append(open[b], new) /\ open' \in [Builders -> Seq(OpenNode)]
  BY <1>1
<1>3. CacheInv' /\ Grown
  BY CacheStays DEF IInv
<1>4. HolderType'
  BY <1>2 DEF IInv, HolderType, editing
<1>5. BuilderOK(b)'
  <2>1. children'[b] = children[b] /\ children[b] \in Seq(Addr)
    BY DEF IInv, HolderType
  <2>2. \A i \in DOMAIN children'[b] : children'[b][i] \in Allocated'
    BY <1>3, <2>1 DEF IInv, BuilderOK, Grown
  <2>3. ASSUME NEW i \in DOMAIN open'[b]
        PROVE  /\ open'[b][i].first <= Len(children'[b]) + 1
               /\ \A j \in 1..i : open'[b][j].first <= open'[b][i].first
    <3>1. open[b] \in Seq(OpenNode)
      BY <1>1
    <3>2. CASE i \in DOMAIN open[b]
      <4>1. \A j \in 1..i : open'[b][j] = open[b][j]
        BY <1>1, <1>2, <3>1, <3>2
      <4> QED BY <2>1, <3>1, <3>2, <4>1 DEF IInv, BuilderOK
    <3>3. CASE i = Len(open[b]) + 1
      <4>1. open'[b][i] = new
        BY <1>1, <1>2, <3>1, <3>3
      <4>2. \A j \in DOMAIN open[b] : open'[b][j] = open[b][j] /\ open[b][j].first \in Nat
        BY <1>1, <1>2, <3>1, OpenFacts, AppendFacts
      <4>3. \A j \in DOMAIN open[b] : open[b][j].first <= first
        <5>1. CASE InsideNode(b)
          BY <4>2, <5>1, InnermostFacts
        <5>2. CASE ~InsideNode(b)
          BY <5>2 DEF InsideNode
        <5> QED BY <5>1, <5>2
      <4> QED BY <2>1, <3>1, <3>3, <4>1, <4>2, <4>3
    <3> QED BY <1>1, <1>2, <3>1, <3>2, <3>3
  <2>4. open'[b] # <<>> /\ open'[b][1].first = 1
    <3>1. open[b] \in Seq(OpenNode)
      BY <1>1
    <3>2. CASE InsideNode(b)
      <4>1. open'[b][1] = open[b][1] /\ open'[b] # <<>>
        BY <1>1, <1>2, <3>1, <3>2 DEF InsideNode
      <4> QED BY <3>2, <4>1 DEF IInv, BuilderOK, InsideNode
    <3>3. CASE ~InsideNode(b)
      BY <1>1, <1>2, <3>3 DEF InsideNode
    <3> QED BY <3>2, <3>3
  <2> QED BY <2>2, <2>3, <2>4 DEF BuilderOK
<1>6. \A c \in Builders \ {b} : children'[c] = children[c] /\ open'[c] = open[c]
  BY <1>1
<1> QED BY <1>3, <1>4, <1>5, <1>6, BuilderStep

LEMMA StartNodeStep ==
    ASSUME IInv, NEW b \in Builders, NEW kind \in NodeKinds, StartNode(b, kind)
    PROVE  IInv' /\ Keeps
<1>1. children[b] \in Seq(Addr)
  BY DEF IInv, HolderType
<1>2. InsideNode(b) => Innermost(b).first <= Len(children[b]) + 1
  BY <1>1, InnermostFacts
<1> DEFINE first == Len(children[b]) + 1
<1>3. first \in Nat \ {0} /\ first <= Len(children[b]) + 1
  BY <1>1
<1>4. InsideNode(b) => first >= Innermost(b).first
  BY <1>1, <1>2, InnermostFacts
<1>5. InsideNode(b) \/ first = 1
  BY DEF StartNode
<1>6. open' = [open EXCEPT ![b] = Append(@, [kind |-> kind, first |-> first])]
  BY DEF StartNode
<1>7. UNCHANGED <<cache, children, editing, held>>
  BY DEF StartNode
<1> HIDE DEF first
<1> QED BY <1>3, <1>4, <1>5, <1>6, <1>7, OpensAt

LEMMA StartNodeAtStep ==
    ASSUME IInv, NEW b \in Builders, NEW kind \in NodeKinds,
           NEW checkpoint \in 1..Len(children[b]) + 1, StartNodeAt(b, checkpoint, kind)
    PROVE  IInv' /\ Keeps
<1>1. children[b] \in Seq(Addr)
  BY DEF IInv, HolderType
<1>2. checkpoint \in Nat \ {0} /\ checkpoint <= Len(children[b]) + 1
  BY <1>1
<1>3. InsideNode(b) /\ checkpoint >= Innermost(b).first
  BY DEF StartNodeAt
<1>4. open' = [open EXCEPT ![b] = Append(@, [kind |-> kind, first |-> checkpoint])]
  BY DEF StartNodeAt
<1>5. UNCHANGED <<cache, children, editing, held>>
  BY DEF StartNodeAt
<1> QED BY <1>2, <1>3, <1>4, <1>5, OpensAt

LEMMA AddTokenStep ==
    ASSUME IInv, NEW b \in Builders, NEW kind \in TokenKinds, NEW text \in Texts,
           AddToken(b, kind, text)
    PROVE  IInv' /\ Keeps
<1>1. PICK a \in Addr : /\ CacheToken(kind, text, a)
                        /\ children' = [children EXCEPT ![b] = Append(@, a)]
  BY DEF AddToken
<1>2. CacheInv' /\ Grown /\ a \in Allocated'
  BY <1>1, TokenCall DEF IInv
<1>3. children \in [Builders -> Seq(Addr)] /\ children[b] \in Seq(Addr)
  BY DEF IInv, HolderType
<1>4. open' = open /\ held' = held /\ InsideNode(b) /\ UNCHANGED editing
  BY DEF AddToken
<1>5. children'[b] = Append(children[b], a) /\ children' \in [Builders -> Seq(Addr)]
  BY <1>1, <1>3
<1>6. HolderType'
  BY <1>4, <1>5 DEF IInv, HolderType, editing
<1>7. BuilderOK(b)'
  <2>1. \A i \in DOMAIN children'[b] : children'[b][i] \in Allocated'
    BY <1>2, <1>3, <1>5 DEF IInv, BuilderOK, Grown
  <2>2. Len(children'[b]) = Len(children[b]) + 1
    BY <1>3, <1>5
  <2>3. \A i \in DOMAIN open[b] : open[b][i].first \in Nat
    BY OpenFacts
  <2>4. Len(children[b]) \in Nat
    BY <1>3
  <2> QED BY <1>4, <2>1, <2>2, <2>3, <2>4 DEF IInv, BuilderOK, InsideNode
<1>8. \A c \in Builders \ {b} : children'[c] = children[c] /\ open'[c] = open[c]
  BY <1>1, <1>3, <1>4
<1> QED BY <1>2, <1>4, <1>6, <1>7, <1>8, BuilderStep

LEMMA FinishNodeStep ==
    ASSUME IInv, NEW b \in Builders, FinishNode(b)
    PROVE  IInv' /\ Keeps
<1> DEFINE first == Innermost(b).first
           kids == SubSeq(children[b], first, Len(children[b]))
           rest == SubSeq(children[b], 1, first - 1)
<1>1. PICK a \in Addr : /\ CacheNode(Innermost(b).kind, kids, a)
                        /\ children' = [children EXCEPT ![b] = Append(SubSeq(@, 1, first - 1), a)]
  BY DEF FinishNode
<1>2. /\ InsideNode(b) /\ held' = held /\ UNCHANGED editing
      /\ open' = [open EXCEPT ![b] = Front(@)]
  BY DEF FinishNode
<1>3. /\ Innermost(b).kind \in NodeKinds
      /\ first \in 1..Len(children[b]) + 1
      /\ \A i \in DOMAIN open[b] : open[b][i].first <= first
      /\ Len(open[b]) \in Nat \ {0}
      /\ Innermost(b) = open[b][Len(open[b])]
  BY <1>2, InnermostFacts
<1>4. /\ children \in [Builders -> Seq(Addr)] /\ children[b] \in Seq(Addr)
      /\ open \in [Builders -> Seq(OpenNode)] /\ open[b] \in Seq(OpenNode)
  BY DEF IInv, HolderType
<1>5. kids \in Seq(Addr) /\ rest \in Seq(Addr) /\ Len(rest) = first - 1
  BY <1>3, <1>4
<1>6. /\ \A i \in DOMAIN kids : kids[i] = children[b][first + i - 1]
                              /\ first + i - 1 \in DOMAIN children[b]
      /\ \A i \in DOMAIN rest : rest[i] = children[b][i] /\ i \in DOMAIN children[b]
  BY <1>3, <1>4, SMTT(30)
<1>7. \A i \in DOMAIN kids : kids[i] \in Allocated
  BY <1>6 DEF IInv, BuilderOK
<1>8. CacheInv' /\ Grown /\ a \in Allocated' /\ NodeAt(a)'
  BY <1>1, <1>3, <1>5, <1>7, NodeCall DEF IInv
<1>9. children'[b] = Append(rest, a) /\ children' \in [Builders -> Seq(Addr)]
  BY <1>1, <1>4, <1>5
<1>10. /\ open'[b] = Front(open[b]) /\ open'[b] \in Seq(OpenNode)
       /\ Len(open'[b]) = Len(open[b]) - 1
       /\ \A i \in DOMAIN open'[b] : open'[b][i] = open[b][i] /\ i \in DOMAIN open[b]
  <2>1. open[b] # <<>>
    BY <1>2 DEF InsideNode
  <2> QED BY <1>2, <1>4, <2>1, FrontFacts
<1>11. open' \in [Builders -> Seq(OpenNode)]
  BY <1>2, <1>4, <1>10
<1>12. HolderType'
  BY <1>2, <1>9, <1>11 DEF IInv, HolderType, editing
<1>13. BuilderOK(b)'
  <2>1. \A i \in DOMAIN rest : rest[i] \in Allocated'
    BY <1>6, <1>8 DEF IInv, BuilderOK, Grown
  <2>2. \A i \in DOMAIN children'[b] : children'[b][i] \in Allocated'
    BY <1>5, <1>8, <1>9, <2>1
  <2>3. Len(children'[b]) = first
    BY <1>3, <1>4, <1>5, <1>9
  <2>4. ASSUME NEW i \in DOMAIN open'[b]
        PROVE  /\ open'[b][i].first <= Len(children'[b]) + 1
               /\ \A j \in 1..i : open'[b][j].first <= open'[b][i].first
    <3>1. open'[b][i].first <= first /\ open[b][i].first \in Nat
      BY <1>3, <1>10, OpenFacts
    <3>2. \A j \in 1..i : j \in DOMAIN open'[b]
      BY <1>10
    <3>3. \A j \in 1..i : open'[b][j].first <= open'[b][i].first
      BY <1>10, <3>2 DEF IInv, BuilderOK
    <3> QED BY <1>3, <1>10, <2>3, <3>1, <3>3
  <2>5. open'[b] # <<>> => open'[b][1].first = 1
    <3>1. open'[b] # <<>> => 1 \in DOMAIN open'[b]
      BY <1>10
    <3> QED BY <1>2, <1>10, <3>1 DEF IInv, BuilderOK, InsideNode
  <2>6. open'[b] = <<>> => /\ Len(children'[b]) <= 1
                           /\ \A i \in DOMAIN children'[b] : NodeAt(children[b][i])'
    <3> SUFFICES ASSUME open'[b] = <<>>
                 PROVE  /\ Len(children'[b]) <= 1
                        /\ \A i \in DOMAIN children'[b] : NodeAt(children[b][i])'
      OBVIOUS
    <3>1. Len(open[b]) = 1
      BY <1>3, <1>10
    <3>2. first = 1
      BY <1>2, <1>3, <3>1 DEF IInv, BuilderOK, InsideNode
    <3>3. rest = <<>>
      BY <1>4, <1>5, <3>2
    <3>4. Len(children'[b]) = 1 /\ \A i \in DOMAIN children'[b] : children'[b][i] = a
      <4>1. Len(rest) = 0
        BY <1>4, <1>5, <3>2
      <4> HIDE DEF rest
      <4> QED BY <1>5, <1>9, <4>1, AppendFacts
    <3> QED BY <1>8, <3>4 DEF NodeAt, IsNode
  <2> QED BY <2>2, <2>4, <2>5, <2>6 DEF BuilderOK
<1>14. \A c \in Builders \ {b} : children'[c] = children[c] /\ open'[c] = open[c]
  BY <1>1, <1>2, <1>4
<1> QED BY <1>2, <1>8, <1>12, <1>13, <1>14, BuilderStep

LEMMA FinishTreeStep ==
    ASSUME IInv, NEW b \in Builders, FinishTree(b)
    PROVE  IInv' /\ Keeps
<1>1. /\ ~InsideNode(b) /\ Len(children[b]) = 1 /\ held' = held \cup {children[b][1]}
      /\ children' = [children EXCEPT ![b] = <<>>]
      /\ open' = open /\ UNCHANGED cache /\ UNCHANGED editing
  BY DEF FinishTree
<1>2. children \in [Builders -> Seq(Addr)] /\ children[b] \in Seq(Addr)
  BY DEF IInv, HolderType
<1>3. PICK root \in Addr : root = children[b][1] /\ 1 \in DOMAIN children[b]
  <2>1. 1 \in DOMAIN children[b]
    BY <1>1, <1>2
  <2>2. children[b][1] \in Addr
    BY <1>2, <2>1
  <2> QED BY <2>1, <2>2
<1>4. NodeAt(root)
  BY <1>1, <1>3 DEF IInv, BuilderOK, InsideNode
<1>5. CacheInv' /\ Grown
  BY <1>1, CacheStays DEF IInv
<1>6. NodeAt(root)'
  <2>1. root \in Allocated
    BY <1>4 DEF NodeAt, Allocated
  <2>2. heap'[root] = heap[root]
    BY <1>5, <2>1 DEF Grown
  <2> QED BY <1>4, <2>2 DEF NodeAt, IsNode
<1>7. children' \in [Builders -> Seq(Addr)] /\ children'[b] = <<>>
  <2> DEFINE none == <<>>
  <2>1. none \in Seq(Addr) /\ children' = [children EXCEPT ![b] = none]
    BY <1>1
  <2> HIDE DEF none
  <2>2. children' \in [Builders -> Seq(Addr)] /\ children'[b] = none
    BY <1>2, <2>1
  <2> QED BY <2>2 DEF none
<1>8. HolderType'
  BY <1>1, <1>3, <1>7 DEF IInv, HolderType, editing
<1>9. BuilderOK(b)'
  <2>1. Len(children'[b]) = 0 /\ DOMAIN children'[b] = {} /\ open'[b] = <<>> /\ DOMAIN open'[b] = {}
    BY <1>1, <1>7 DEF InsideNode
  <2> QED BY <2>1 DEF BuilderOK
<1>10. \A c \in Builders \ {b} : children'[c] = children[c] /\ open'[c] = open[c]
  BY <1>1, <1>2
<1>11. \A a \in held' \ held : NodeAt(a)'
  BY <1>1, <1>3, <1>6
<1> QED BY <1>1, <1>5, <1>8, <1>9, <1>10, <1>11, BuilderStep

-----------------------------------------------------------------------------
(* The steps of an editor *)

LEMMA FrameFacts ==
    ASSUME IInv, NEW e \in Editors
    PROVE  /\ spine[e] \in Seq(Frame) /\ Len(spine[e]) \in Nat
           /\ \A i \in DOMAIN spine[e] : /\ spine[e][i] \in Frame
                                         /\ spine[e][i].green \in Addr
                                         /\ spine[e][i].index \in Nat
<1>1. spine[e] \in Seq(Frame)
  BY DEF IInv, HolderType
<1>2. \A i \in DOMAIN spine[e] : spine[e][i] \in Frame
  BY <1>1
<1> QED BY <1>1, <1>2 DEF Frame

LEMMA TargetFacts ==
    ASSUME IInv, NEW e \in Editors, spine[e] # <<>>
    PROVE  /\ Len(spine[e]) \in DOMAIN spine[e]
           /\ Target(e) = spine[e][Len(spine[e])]
           /\ Target(e).green \in Allocated
           /\ Target(e).index \in Nat
<1>1. Len(spine[e]) \in DOMAIN spine[e] /\ Target(e) = spine[e][Len(spine[e])]
  BY FrameFacts DEF Target, Last
<1> QED BY <1>1, FrameFacts DEF IInv, EditorOK

\* The children of an object are objects.
LEMMA LiveChildren ==
    ASSUME IInv, NEW a \in Allocated
    PROVE  heap[a].children \in Seq(Allocated)
<1>1. heap[a].children \in Seq(Addr)
  BY ObjectFacts DEF IInv, CacheInv, CacheType
<1>2. \A i \in DOMAIN heap[a].children : heap[a].children[i] \in Allocated
  BY DEF IInv, CacheInv, ChildrenLive
<1> QED BY <1>1, <1>2

LEMMA EditedChildren ==
    ASSUME NEW S, NEW kids \in Seq(S), NEW x \in S
    PROVE  /\ \A i \in Nat : ReplaceAt(kids, i, x) \in Seq(S)
           /\ \A i \in 1..Len(kids) + 1 : InsertAt(kids, i, x) \in Seq(S)
           /\ \A i \in 1..Len(kids) : RemoveAt(kids, i) \in Seq(S)
<1>1. ASSUME NEW i \in Nat PROVE ReplaceAt(kids, i, x) \in Seq(S)
  <2>1. CASE i \in 1..Len(kids)
    BY <2>1 DEF ReplaceAt
  <2>2. CASE i \notin 1..Len(kids)
    <3>1. DOMAIN kids = 1..Len(kids) /\ kids = [j \in 1..Len(kids) |-> kids[j]]
      OBVIOUS
    <3>2. [kids EXCEPT ![i] = x] = kids
      BY <2>2, <3>1
    <3> QED BY <3>2 DEF ReplaceAt
  <2> QED BY <2>1, <2>2
<1>2. ASSUME NEW i \in 1..Len(kids) + 1 PROVE InsertAt(kids, i, x) \in Seq(S)
  <2>1. SubSeq(kids, 1, i - 1) \in Seq(S) /\ SubSeq(kids, i, Len(kids)) \in Seq(S)
    OBVIOUS
  <2>2. <<x>> \in Seq(S)
    OBVIOUS
  <2> QED BY <2>1, <2>2 DEF InsertAt
<1>3. ASSUME NEW i \in 1..Len(kids) PROVE RemoveAt(kids, i) \in Seq(S)
  <2>1. SubSeq(kids, 1, i - 1) \in Seq(S) /\ SubSeq(kids, i + 1, Len(kids)) \in Seq(S)
    OBVIOUS
  <2> QED BY <2>1 DEF RemoveAt
<1> QED BY <1>1, <1>2, <1>3

\* What a spine leads through is nodes, and each frame but the first is a
\* child of the one before it.
LEMMA SpineFacts ==
    ASSUME IInv, NEW e \in Editors, NEW n \in DOMAIN spine[e]
    PROVE  /\ spine[e][n].green \in Allocated
           /\ n = 1 \/ n < Len(spine[e]) => IsNode(spine[e][n].green)
           /\ n > 1 => /\ n - 1 \in DOMAIN spine[e]
                       /\ IsNode(spine[e][n - 1].green)
                       /\ spine[e][n].index \in 1..Width(spine[e][n - 1].green)
<1>1. n > 1 => n - 1 \in DOMAIN spine[e] /\ n - 1 < Len(spine[e])
  BY FrameFacts
<1> QED BY <1>1 DEF IInv, EditorOK

\* A rebuilt node takes the place of the one it was made from.
LEMMA RebuildStep ==
    ASSUME IInv, NEW e \in Editors, NEW n \in DOMAIN spine[e],
           IsNode(spine[e][n].green), NEW kids \in Seq(Allocated),
           RebuildWithChildren(e, n, kids), UNCHANGED <<building, held>>
    PROVE  IInv' /\ Keeps
<1>1. PICK a \in Addr : /\ CacheNode(heap[spine[e][n].green].kind, kids, a)
                        /\ RebuildFrom(e, n, a)
  BY DEF RebuildWithChildren
<1>2. heap[spine[e][n].green].kind \in NodeKinds
  BY DEF IsNode
<1>3. kids \in Seq(Addr) /\ \A i \in DOMAIN kids : kids[i] \in Allocated
  BY DEF Allocated
<1>4. CacheInv' /\ Grown /\ a \in Allocated' /\ NodeAt(a)'
  BY <1>1, <1>2, <1>3, NodeCall DEF IInv
<1>5. /\ spine' = spine
      /\ element' = [element EXCEPT ![e] = a]
      /\ level' = [level EXCEPT ![e] = n]
  BY <1>1 DEF RebuildFrom
<1>6. n \in Nat \ {0} /\ n <= Len(spine[e])
  BY FrameFacts
<1>7. element \in [Editors -> Addr \cup {Nothing}] /\ level \in [Editors -> Nat]
  BY DEF IInv, HolderType
<1>8. element'[e] = a /\ level'[e] = n /\ element' \in [Editors -> Addr \cup {Nothing}]
      /\ level' \in [Editors -> Nat]
  BY <1>5, <1>6, <1>7
<1>9. HolderType'
  BY <1>5, <1>8 DEF IInv, HolderType, building
<1>10. EditorOK(e)'
  <2>1. \A i \in DOMAIN spine[e] : /\ spine[e][i].green \in Allocated'
                                  /\ heap'[spine[e][i].green] = heap[spine[e][i].green]
    BY <1>4, SpineFacts DEF Grown
  <2>2. \A i \in DOMAIN spine[e] : i > 1 => i - 1 \in DOMAIN spine[e]
    BY FrameFacts
  <2>3. \A i \in DOMAIN spine[e] :
            /\ i = 1 \/ i < Len(spine[e]) => IsNode(spine[e][i].green)'
            /\ i > 1 => spine[e][i].index \in 1..Width(spine[e][i - 1].green)'
    BY <1>5, <2>1, <2>2, SpineFacts DEF IsNode, Width
  <2> QED BY <1>4, <1>5, <1>6, <1>8, <2>1, <2>3 DEF EditorOK, NodeAt, IsNode, Width
<1>11. \A f \in Editors \ {e} :
           spine'[f] = spine[f] /\ element'[f] = element[f] /\ level'[f] = level[f]
  BY <1>5, <1>7
<1> QED BY <1>4, <1>9, <1>10, <1>11, EditorStep

LEMMA InsertIntoStep ==
    ASSUME IInv, NEW e \in Editors, NEW n \in DOMAIN spine[e], IsNode(spine[e][n].green),
           NEW i \in Nat \ {0}, NEW a \in Allocated, InsertInto(e, n, i, a),
           UNCHANGED <<building, held>>
    PROVE  IInv' /\ Keeps
<1> DEFINE kids == heap[spine[e][n].green].children
           at == IF i > Len(kids) THEN Len(kids) + 1 ELSE i
<1>1. kids \in Seq(Allocated)
  BY SpineFacts, LiveChildren
<1>2. at \in 1..Len(kids) + 1
  BY <1>1
<1>3. InsertAt(kids, at, a) \in Seq(Allocated)
  BY <1>1, <1>2, EditedChildren
<1>4. RebuildWithChildren(e, n, InsertAt(kids, at, a))
  BY DEF InsertInto
<1> QED BY <1>3, <1>4, RebuildStep

LEMMA RemoveFromStep ==
    ASSUME IInv, NEW e \in Editors, NEW n \in DOMAIN spine[e], IsNode(spine[e][n].green),
           NEW i \in 1..Width(spine[e][n].green), RemoveFrom(e, n, i),
           UNCHANGED <<building, held>>
    PROVE  IInv' /\ Keeps
<1> DEFINE kids == heap[spine[e][n].green].children
<1>1. kids \in Seq(Allocated)
  BY SpineFacts, LiveChildren
<1>2. i \in 1..Len(kids)
  BY DEF Width
<1>3. RemoveAt(kids, i) \in Seq(Allocated)
  BY <1>1, <1>2, EditedChildren
<1>4. RebuildWithChildren(e, n, RemoveAt(kids, i))
  BY DEF RemoveFrom
<1> QED BY <1>3, <1>4, RebuildStep

LEMMA ReplacingStep ==
    ASSUME IInv, NEW e \in Editors, NEW n \in DOMAIN spine[e], IsNode(spine[e][n].green),
           NEW i \in Nat, NEW a \in Allocated,
           RebuildWithChildren(e, n, ReplaceAt(heap[spine[e][n].green].children, i, a)),
           UNCHANGED <<building, held>>
    PROVE  IInv' /\ Keeps
<1> DEFINE kids == heap[spine[e][n].green].children
<1>1. kids \in Seq(Allocated)
  BY SpineFacts, LiveChildren
<1>2. ReplaceAt(kids, i, a) \in Seq(Allocated)
  BY <1>1, EditedChildren
<1> QED BY <1>2, RebuildStep

\* An edit's answer is held, and its cursor is gone.
LEMMA AnsweredStep ==
    ASSUME IInv, NEW e \in Editors, NEW a \in Addr, NodeAt(a),
           held' = held \cup {a}, spine' = [spine EXCEPT ![e] = <<>>],
           \/ UNCHANGED <<element, level>> /\ level[e] = 0
           \/ /\ element' = [element EXCEPT ![e] = Nothing]
              /\ level' = [level EXCEPT ![e] = 0],
           UNCHANGED <<cache, building>>
    PROVE  IInv' /\ Keeps
<1> DEFINE none == <<>>
<1>1. CacheInv' /\ Grown
  BY CacheStays DEF IInv
<1>2. /\ spine \in [Editors -> Seq(Frame)]
      /\ element \in [Editors -> Addr \cup {Nothing}] /\ level \in [Editors -> Nat]
  BY DEF IInv, HolderType
<1>3. spine' \in [Editors -> Seq(Frame)] /\ spine'[e] = none
  <2>1. none \in Seq(Frame) /\ spine' = [spine EXCEPT ![e] = none]
    OBVIOUS
  <2> HIDE DEF none
  <2> QED BY <1>2, <2>1
<1>4. /\ element' \in [Editors -> Addr \cup {Nothing}]
      /\ level' \in [Editors -> Nat] /\ level'[e] = 0
      /\ \A f \in Editors \ {e} : element'[f] = element[f] /\ level'[f] = level[f]
  <2>1. CASE UNCHANGED <<element, level>> /\ level[e] = 0
    BY <1>2, <2>1
  <2>2. CASE /\ element' = [element EXCEPT ![e] = Nothing]
             /\ level' = [level EXCEPT ![e] = 0]
    <3>1. element' \in [Editors -> Addr \cup {Nothing}]
          /\ \A f \in Editors \ {e} : element'[f] = element[f]
      BY <1>2, <2>2
    <3>2. /\ level' \in [Editors -> Nat] /\ level'[e] = 0
          /\ \A f \in Editors \ {e} : level'[f] = level[f]
      BY <1>2, <2>2
    <3> QED BY <3>1, <3>2
  <2> QED BY <2>1, <2>2
<1>5. HolderType'
  BY <1>3, <1>4 DEF IInv, HolderType, building
<1>6. EditorOK(e)'
  <2>1. DOMAIN spine'[e] = {} /\ Len(spine'[e]) = 0
    BY <1>3
  <2> QED BY <1>4, <2>1 DEF EditorOK
<1>7. \A x \in held' \ held : NodeAt(x)'
  BY <1>1 DEF Grown, NodeAt, IsNode, Allocated
<1>8. \A f \in Editors \ {e} :
          spine'[f] = spine[f] /\ element'[f] = element[f] /\ level'[f] = level[f]
  BY <1>2, <1>4
<1> QED BY <1>1, <1>5, <1>6, <1>7, <1>8, EditorStep

LEMMA AnswerStep ==
    ASSUME IInv, NEW e \in Editors, Walking(e), AtNode(e), Answer(e, Target(e).green)
    PROVE  IInv' /\ Keeps
<1>1. Target(e).green \in Addr /\ NodeAt(Target(e).green)
  BY TargetFacts DEF Walking, AtNode, NodeAt, Allocated
<1> QED BY <1>1, AnsweredStep DEF Answer, Walking, editing

LEMMA NewRootStep ==
    ASSUME IInv, NEW e \in Editors, NewRoot(e)
    PROVE  IInv' /\ Keeps
<1>1. element[e] \in Addr /\ NodeAt(element[e])
  BY DEF NewRoot, IInv, EditorOK
<1> QED BY <1>1, AnsweredStep DEF NewRoot

\* A cursor that moves, its editor rebuilding nothing.
LEMMA CursorStep ==
    ASSUME IInv, NEW e \in Editors, NEW frames \in Seq(Frame), level[e] = 0,
           spine' = [spine EXCEPT ![e] = frames],
           UNCHANGED <<cache, building, element, level, held>>,
           \A i \in DOMAIN frames :
               /\ frames[i].green \in Allocated
               /\ i = 1 \/ i < Len(frames) => IsNode(frames[i].green)
               /\ i > 1 => frames[i].index \in 1..Width(frames[i - 1].green)
    PROVE  IInv' /\ Keeps
<1>1. CacheInv' /\ Grown /\ heap' = heap
  BY CacheStays DEF IInv, cache
<1>2. spine \in [Editors -> Seq(Frame)]
  BY DEF IInv, HolderType
<1>3. spine' \in [Editors -> Seq(Frame)] /\ spine'[e] = frames
  BY <1>2
<1>4. HolderType'
  BY <1>3 DEF IInv, HolderType, building
<1>5. EditorOK(e)'
  BY <1>1, <1>3 DEF EditorOK, Allocated, IsNode, Width
<1>6. \A f \in Editors \ {e} :
          spine'[f] = spine[f] /\ element'[f] = element[f] /\ level'[f] = level[f]
  BY <1>2
<1> QED BY <1>1, <1>4, <1>5, <1>6, EditorStep

LEMMA SingletonFacts ==
    ASSUME NEW S, NEW x \in S
    PROVE  <<x>> \in Seq(S) /\ Len(<<x>>) = 1 /\ <<x>>[1] = x
OBVIOUS

LEMMA RootStep ==
    ASSUME IInv, NEW e \in Editors, NEW a \in held, Root(e, a)
    PROVE  IInv' /\ Keeps
<1> DEFINE frames == <<[green |-> a, index |-> 0]>>
<1>1. a \in Allocated /\ IsNode(a)
  BY DEF IInv, HeldOK, HolderType, NodeAt, Allocated
<1>2. [green |-> a, index |-> 0] \in Frame
  BY <1>1 DEF Frame, Allocated
<1>3. frames \in Seq(Frame) /\ Len(frames) = 1 /\ frames[1].green = a
  <2>1. PICK frame \in Frame : frame = [green |-> a, index |-> 0]
    BY <1>2
  <2>2. frame.green = a
    BY <2>1
  <2>3. frames = <<frame>>
    BY <2>1
  <2>4. <<frame>> \in Seq(Frame) /\ Len(<<frame>>) = 1 /\ <<frame>>[1] = frame
    BY Zenon, SingletonFacts
  <2> QED BY <2>2, <2>3, <2>4
<1>4. level[e] = 0
  BY DEF Root, IInv, EditorOK, HolderType
<1>5. spine' = [spine EXCEPT ![e] = frames] /\ UNCHANGED <<cache, building, element, level, held>>
  BY DEF Root
<1> HIDE DEF frames
<1>6. \A i \in DOMAIN frames :
          /\ frames[i].green \in Allocated
          /\ i = 1 \/ i < Len(frames) => IsNode(frames[i].green)
          /\ i > 1 => frames[i].index \in 1..Width(frames[i - 1].green)
  <2>1. \A i \in DOMAIN frames : i = 1
    BY <1>3
  <2> QED BY <1>1, <1>3, <2>1
<1> QED BY <1>3, <1>4, <1>5, <1>6, CursorStep

LEMMA ChildAtStep ==
    ASSUME IInv, NEW e \in Editors, NEW i \in Nat \ {0}, ChildAt(e, i)
    PROVE  IInv' /\ Keeps
<1> DEFINE above == Target(e).green
           frame == [green |-> heap[above].children[i], index |-> i]
           frames == Append(spine[e], frame)
<1>1. /\ spine[e] # <<>> /\ level[e] = 0 /\ IsNode(above) /\ i <= Width(above)
      /\ spine' = [spine EXCEPT ![e] = frames]
      /\ UNCHANGED <<cache, building, element, level, held>>
  BY DEF ChildAt, Walking, AtNode
<1>2. /\ above \in Allocated /\ above = spine[e][Len(spine[e])].green
      /\ Len(spine[e]) \in DOMAIN spine[e]
  BY <1>1, TargetFacts
<1>3. i \in 1..Width(above) /\ heap[above].children[i] \in Allocated
  <2>1. heap[above].children \in Seq(Allocated)
    BY <1>2, LiveChildren
  <2> QED BY <1>1, <2>1 DEF Width
<1>4. frame \in Frame
  BY <1>3 DEF Frame, Allocated
<1>5. spine[e] \in Seq(Frame)
  BY FrameFacts
<1>6. /\ frames \in Seq(Frame) /\ Len(frames) = Len(spine[e]) + 1
      /\ \A j \in DOMAIN spine[e] : frames[j] = spine[e][j]
      /\ frames[Len(spine[e]) + 1] = frame
      /\ \A j \in DOMAIN frames : j \in DOMAIN spine[e] \/ j = Len(spine[e]) + 1
  BY <1>4, <1>5, AppendFacts
<1> HIDE DEF frames
<1>7. ASSUME NEW j \in DOMAIN frames
      PROVE  /\ frames[j].green \in Allocated
             /\ j = 1 \/ j < Len(frames) => IsNode(frames[j].green)
             /\ j > 1 => frames[j].index \in 1..Width(frames[j - 1].green)
  <2>1. CASE j \in DOMAIN spine[e]
    <3>1. j > 1 => j - 1 \in DOMAIN spine[e]
      BY <2>1, SpineFacts
    <3>2. j = Len(spine[e]) \/ j < Len(spine[e])
      BY <1>5, <2>1
    <3>3. IsNode(spine[e][j].green)
      BY <1>1, <1>2, <2>1, <3>2, SpineFacts
    <3> QED BY <1>6, <2>1, <3>1, <3>3, SpineFacts
  <2>2. CASE j = Len(spine[e]) + 1
    <3>1. Len(spine[e]) >= 1 /\ Len(spine[e]) \in Nat /\ j - 1 = Len(spine[e])
      BY <1>2, <1>5, <2>2
    <3>2. frames[j] = frame /\ frames[j - 1] = spine[e][Len(spine[e])]
      BY <1>2, <1>6, <2>2, <3>1
    <3> QED BY <1>2, <1>3, <1>6, <2>2, <3>1, <3>2
  <2> QED BY <1>6, <2>1, <2>2
<1> QED BY <1>1, <1>6, <1>7, CursorStep

LEMMA DropCursorStep ==
    ASSUME IInv, NEW e \in Editors, DropCursor(e)
    PROVE  IInv' /\ Keeps
<1> DEFINE none == <<>>
<1>1. none \in Seq(Frame) /\ level[e] = 0
      /\ spine' = [spine EXCEPT ![e] = none]
      /\ UNCHANGED <<cache, building, element, level, held>>
  BY DEF DropCursor, Walking
<1>2. DOMAIN none = {}
  OBVIOUS
<1> HIDE DEF none
<1>3. \A i \in DOMAIN none :
          /\ none[i].green \in Allocated
          /\ i = 1 \/ i < Len(none) => IsNode(none[i].green)
          /\ i > 1 => none[i].index \in 1..Width(none[i - 1].green)
  BY <1>2
<1> QED BY <1>1, <1>3, CursorStep

\* A tree the callers hold is there.
LEMMA HeldLive == ASSUME IInv, NEW a \in held PROVE a \in Addr /\ a \in Allocated /\ NodeAt(a)
BY DEF IInv, HeldOK, HolderType, NodeAt, Allocated

LEMMA ReplaceNodeStep ==
    ASSUME IInv, NEW e \in Editors, NEW a \in held, ReplaceNode(e, a)
    PROVE  IInv' /\ Keeps
<1>1. /\ spine[e] # <<>> /\ spine' = spine /\ UNCHANGED <<cache, building, held>>
      /\ element' = [element EXCEPT ![e] = a]
      /\ level' = [level EXCEPT ![e] = Len(spine[e])]
  BY DEF ReplaceNode, Walking, RebuildFrom
<1>2. a \in Addr /\ NodeAt(a)
  BY HeldLive
<1>3. CacheInv' /\ Grown /\ heap' = heap
  BY <1>1, CacheStays DEF IInv, cache
<1>4. element \in [Editors -> Addr \cup {Nothing}] /\ level \in [Editors -> Nat]
  BY DEF IInv, HolderType
<1>5. Len(spine[e]) \in Nat
  BY FrameFacts
<1>6. /\ element'[e] = a /\ level'[e] = Len(spine[e])
      /\ element' \in [Editors -> Addr \cup {Nothing}] /\ level' \in [Editors -> Nat]
  BY <1>1, <1>2, <1>4, <1>5
<1>7. HolderType'
  BY <1>1, <1>6 DEF IInv, HolderType, building
<1>8. EditorOK(e)'
  BY <1>1, <1>2, <1>3, <1>5, <1>6 DEF IInv, EditorOK, Allocated, IsNode, Width, NodeAt
<1>9. \A f \in Editors \ {e} :
          spine'[f] = spine[f] /\ element'[f] = element[f] /\ level'[f] = level[f]
  BY <1>1, <1>4
<1> QED BY <1>1, <1>3, <1>7, <1>8, <1>9, EditorStep

\* The frame above the target is a node, and the target one of its children.
LEMMA ParentFacts ==
    ASSUME IInv, NEW e \in Editors, HasParent(e)
    PROVE  /\ Len(spine[e]) - 1 \in DOMAIN spine[e]
           /\ IsNode(spine[e][Len(spine[e]) - 1].green)
           /\ Target(e).index \in 1..Width(Parent(e))
<1>1. spine[e] # <<>> /\ Len(spine[e]) > 1
  BY FrameFacts DEF HasParent
<1>2. Len(spine[e]) \in DOMAIN spine[e] /\ Target(e) = spine[e][Len(spine[e])]
  BY <1>1, TargetFacts
<1> QED BY <1>1, <1>2, SpineFacts DEF Parent

LEMMA LongFacts ==
    ASSUME NEW S, NEW s \in Seq(S), s # <<>>, Len(s) # 1
    PROVE  Len(s) > 1
<1>1. PICK n \in Nat : n = Len(s) /\ n # 0
  <2>1. Len(s) \in Nat /\ Len(s) # 0
    OBVIOUS
  <2> QED BY ONLY <2>1
<1>2. n # 0 /\ n # 1
  BY <1>1
<1>3. n > 1
  BY ONLY <1>2, n \in Nat
<1> QED BY <1>1, <1>3

LEMMA ReplaceTokenStep ==
    ASSUME IInv, NEW e \in Editors, NEW a \in Allocated, ReplaceToken(e, a)
    PROVE  IInv' /\ Keeps
<1>1. spine[e] # <<>> /\ ~IsNode(Target(e).green)
  BY DEF ReplaceToken, Walking, AtNode
<1>2. HasParent(e)
  <2>1. Len(spine[e]) \in DOMAIN spine[e] /\ Target(e) = spine[e][Len(spine[e])]
    BY <1>1, TargetFacts
  <2>2. Len(spine[e]) # 1
    BY <1>1, <2>1, SpineFacts
  <2>3. Len(spine[e]) > 1
    <3>1. spine[e] \in Seq(Frame)
      BY FrameFacts
    <3> QED BY <1>1, <2>2, <3>1, LongFacts
  <2> QED BY <2>3 DEF HasParent
<1>3. Target(e).index \in Nat
  BY <1>1, TargetFacts
<1> QED BY <1>2, <1>3, ParentFacts, ReplacingStep DEF ReplaceToken, Parent

LEMMA InsertChildStep ==
    ASSUME IInv, NEW e \in Editors, NEW i \in Nat \ {0}, NEW a \in held, InsertChild(e, i, a)
    PROVE  IInv' /\ Keeps
<1>1. /\ spine[e] # <<>> /\ IsNode(Target(e).green)
      /\ InsertInto(e, Len(spine[e]), i, a) /\ UNCHANGED <<building, held>>
  BY DEF InsertChild, Walking, AtNode
<1>2. Len(spine[e]) \in DOMAIN spine[e] /\ IsNode(spine[e][Len(spine[e])].green)
  BY <1>1, TargetFacts
<1> QED BY <1>1, <1>2, HeldLive, InsertIntoStep

LEMMA RemoveChildStep ==
    ASSUME IInv, NEW e \in Editors, NEW i \in Nat \ {0}, RemoveChild(e, i)
    PROVE  IInv' /\ Keeps
<1>1. Walking(e) /\ AtNode(e) /\ spine[e] # <<>>
  BY DEF RemoveChild, Walking
<1>2. CASE /\ i <= Width(Target(e).green)
           /\ RemoveFrom(e, Len(spine[e]), i) /\ UNCHANGED <<building, held>>
  <2>1. /\ Len(spine[e]) \in DOMAIN spine[e] /\ IsNode(spine[e][Len(spine[e])].green)
        /\ Target(e) = spine[e][Len(spine[e])]
    BY <1>1, TargetFacts DEF AtNode
  <2>2. heap[Target(e).green].children \in Seq(Allocated)
    BY <1>1, TargetFacts, LiveChildren
  <2>3. i \in 1..Width(spine[e][Len(spine[e])].green)
    BY <1>2, <2>1, <2>2 DEF Width
  <2> QED BY <1>2, <2>1, <2>3, RemoveFromStep
<1>3. CASE Answer(e, Target(e).green)
  BY <1>1, <1>3, AnswerStep
<1> QED BY <1>2, <1>3 DEF RemoveChild

LEMMA RemoveStatementStep ==
    ASSUME IInv, NEW e \in Editors, RemoveStatement(e)
    PROVE  IInv' /\ Keeps
<1>1. Walking(e) /\ AtNode(e)
  BY DEF RemoveStatement
<1>2. CASE /\ HasParent(e)
           /\ RemoveFrom(e, Len(spine[e]) - 1, Target(e).index) /\ UNCHANGED <<building, held>>
  BY <1>2, ParentFacts, RemoveFromStep DEF Parent
<1>3. CASE Answer(e, Target(e).green)
  BY <1>1, <1>3, AnswerStep
<1> QED BY <1>2, <1>3 DEF RemoveStatement

LEMMA InsertStatementAfterStep ==
    ASSUME IInv, NEW e \in Editors, NEW a \in held, InsertStatementAfter(e, a)
    PROVE  IInv' /\ Keeps
<1>1. Walking(e) /\ AtNode(e) /\ spine[e] # <<>>
  BY DEF InsertStatementAfter, Walking
<1>2. CASE /\ HasParent(e)
           /\ InsertInto(e, Len(spine[e]) - 1, Target(e).index + 1, a)
           /\ UNCHANGED <<building, held>>
  <2>1. Target(e).index + 1 \in Nat \ {0}
    BY <1>1, TargetFacts
  <2> QED BY <1>2, <2>1, ParentFacts, HeldLive, InsertIntoStep
<1>3. CASE Answer(e, Target(e).green)
  BY <1>1, <1>3, AnswerStep
<1> QED BY <1>2, <1>3 DEF InsertStatementAfter

LEMMA RebuildsStep ==
    ASSUME IInv, NEW e \in Editors, Rebuild(e)
    PROVE  IInv' /\ Keeps
<1>1. level[e] \in Nat /\ level[e] > 1 /\ level[e] <= Len(spine[e])
      /\ NodeAt(element[e]) /\ element[e] \in Addr
  BY DEF Rebuild, IInv, HolderType, EditorOK
<1>2. level[e] \in DOMAIN spine[e] /\ level[e] - 1 \in DOMAIN spine[e]
  BY <1>1, FrameFacts
<1>3. IsNode(spine[e][level[e] - 1].green)
  BY <1>1, <1>2, SpineFacts
<1>4. element[e] \in Allocated /\ spine[e][level[e]].index \in Nat
  BY <1>1, <1>2, FrameFacts DEF NodeAt, Allocated
<1> QED BY <1>2, <1>3, <1>4, ReplacingStep DEF Rebuild

-----------------------------------------------------------------------------
(* The steps of the callers and of the allocator *)

\* The handles alone change, and on nodes.
LEMMA HandlesStep ==
    ASSUME IInv, held' \subseteq Addr, \A a \in held' : NodeAt(a),
           UNCHANGED <<cache, building, editing>>
    PROVE  IInv' /\ Keeps
<1>1. /\ heap' = heap /\ children' = children /\ open' = open
      /\ spine' = spine /\ element' = element /\ level' = level
  BY DEF cache, building, editing
<1>2. CacheInv' /\ Keeps
  BY CacheStays, GrownKeeps DEF IInv
<1>3. HolderType'
  BY <1>1 DEF IInv, HolderType
<1>4. \A b \in Builders : BuilderOK(b)'
  BY <1>1, <1>2, BuilderStays DEF IInv
<1>5. \A e \in Editors : EditorOK(e)'
  BY <1>1, <1>2, EditorStays DEF IInv
<1>6. HeldOK'
  BY <1>1 DEF HeldOK, NodeAt, IsNode
<1> QED BY <1>2, <1>3, <1>4, <1>5, <1>6 DEF IInv

LEMMA DropStep ==
    ASSUME IInv, NEW a \in held, Drop(a)
    PROVE  IInv' /\ Keeps
BY HandlesStep DEF Drop, IInv, HolderType, HeldOK

LEMMA HoldStep ==
    ASSUME IInv, NEW a \in held, NEW i \in 1..Width(a), Hold(a, i)
    PROVE  IInv' /\ Keeps
<1>1. a \in Allocated
  BY HeldLive
<1>2. heap[a].children[i] \in Allocated
  <2>1. heap[a].children \in Seq(Allocated)
    BY <1>1, LiveChildren
  <2> QED BY <2>1 DEF Width
<1>3. NodeAt(heap[a].children[i]) /\ heap[a].children[i] \in Addr
  BY <1>2 DEF Hold, NodeAt, Allocated
<1> QED BY <1>3, HandlesStep DEF Hold, IInv, HolderType, HeldOK

\* An object nobody refers to is no entry of the cache and no child.
LEMMA DestroyStep ==
    ASSUME IInv, NEW a \in Allocated, Destroy(a)
    PROVE  IInv' /\ Keeps
<1>1. /\ ~Referenced(a) /\ heap' = [heap EXCEPT ![a] = Free]
      /\ tokens' = tokens /\ nodes' = nodes /\ held' = held
      /\ children' = children /\ open' = open
      /\ spine' = spine /\ element' = element /\ level' = level
  BY DEF Destroy, building, editing
<1>2. a \in Addr /\ HeapType
  BY DEF Allocated, IInv, CacheInv, CacheType
<1>3. /\ HeapType' /\ heap'[a] = Free
      /\ \A x \in Addr \ {a} : heap'[x] = heap[x]
  BY <1>1, <1>2 DEF HeapType
<1>4. Keeps
  BY <1>1, <1>3 DEF Keeps, Allocated
<1>5. Allocated' = Allocated \ {a}
  BY <1>2, <1>3 DEF Allocated
<1>6. CacheInv'
  <2>1. CacheType'
    BY <1>1, <1>3 DEF IInv, CacheInv, CacheType
  <2>2. /\ \A key \in DOMAIN tokens : tokens[key] # a /\ tokens[key] \in Allocated
        /\ \A key \in DOMAIN nodes : nodes[key] # a /\ nodes[key] \in Allocated
    BY <1>1, EntriesLive DEF IInv, Referenced
  <2>3. KeysExact'
    BY <1>1, <1>3, <2>2 DEF IInv, CacheInv, KeysExact, Allocated
  <2>4. Registered'
    BY <1>1, <1>3, <1>5 DEF IInv, CacheInv, Registered, Allocated, IsNode, Width
  <2>5. ChildrenLive'
    <3>1. \A p \in Allocated : \A i \in DOMAIN heap[p].children : heap[p].children[i] # a
      BY <1>1 DEF Referenced
    <3>2. \A p \in Allocated' : p \in Allocated /\ heap'[p] = heap[p]
      BY <1>3, <1>5 DEF Allocated
    <3> QED BY <1>5, <3>1, <3>2 DEF IInv, CacheInv, ChildrenLive
  <2> QED BY <2>1, <2>3, <2>4, <2>5 DEF CacheInv
<1>7. HolderType'
  BY <1>1 DEF IInv, HolderType
<1>8. \A b \in Builders : BuilderOK(b)'
  BY <1>1, <1>4, BuilderStays DEF IInv
<1>9. \A e \in Editors : EditorOK(e)'
  BY <1>1, <1>4, EditorStays DEF IInv
<1>10. HeldOK'
  BY <1>1, <1>4, HeldStays DEF IInv, HeldOK
<1> QED BY <1>4, <1>6, <1>7, <1>8, <1>9, <1>10 DEF IInv

-----------------------------------------------------------------------------
(* The invariant *)

LEMMA InitIInv == Init => IInv
<1> SUFFICES ASSUME Init PROVE IInv
  OBVIOUS
<1> DEFINE none == <<>>
<1>1. /\ \A a \in Addr : heap[a] = Free
      /\ heap \in [Addr -> Object \cup {Free}]
      /\ tokens = none /\ nodes = none /\ held = {}
      /\ children = [b \in Builders |-> none] /\ open = [b \in Builders |-> none]
      /\ spine = [e \in Editors |-> none]
      /\ element = [e \in Editors |-> Nothing] /\ level = [e \in Editors |-> 0]
  BY DEF Init
<1>2. none \in Seq(Addr) /\ none \in Seq(OpenNode) /\ none \in Seq(Frame)
      /\ DOMAIN none = {} /\ Len(none) = 0 /\ none \in [{} -> Addr]
  OBVIOUS
<1>3. none = <<>>
  OBVIOUS
<1> HIDE DEF none
<1>4. Allocated = {}
  BY <1>1 DEF Allocated
<1>5. CacheInv
  BY <1>1, <1>2, <1>4
  DEF CacheInv, CacheType, HeapType, KeysExact, Registered, ChildrenLive
<1>6. HolderType
  BY <1>1, <1>2 DEF HolderType
<1>7. \A b \in Builders : BuilderOK(b)
  BY <1>1, <1>2, <1>3 DEF BuilderOK
<1>8. \A e \in Editors : EditorOK(e)
  BY <1>1, <1>2 DEF EditorOK
<1> QED BY <1>1, <1>5, <1>6, <1>7, <1>8 DEF IInv, HeldOK

LEMMA BuildStep ==
    ASSUME IInv, NEW b \in Builders, Build(b)
    PROVE  IInv' /\ Keeps
<1>1. children[b] \in Seq(Addr)
  BY DEF IInv, HolderType
<1>2. CASE \E kind \in NodeKinds : StartNode(b, kind)
  BY <1>2, StartNodeStep
<1>3. CASE \E checkpoint \in 1..Len(children[b]) + 1, kind \in NodeKinds :
               StartNodeAt(b, checkpoint, kind)
  BY <1>1, <1>3, StartNodeAtStep
<1>4. CASE \E kind \in TokenKinds, text \in Texts : AddToken(b, kind, text)
  BY <1>4, AddTokenStep
<1>5. CASE FinishNode(b)
  BY <1>5, FinishNodeStep
<1>6. CASE FinishTree(b)
  BY <1>6, FinishTreeStep
<1> QED BY <1>2, <1>3, <1>4, <1>5, <1>6 DEF Build

LEMMA EditStep ==
    ASSUME IInv, NEW e \in Editors, Edit(e)
    PROVE  IInv' /\ Keeps
<1>1. CASE \E a \in held : Root(e, a) \/ ReplaceNode(e, a) \/ InsertStatementAfter(e, a)
  BY <1>1, RootStep, ReplaceNodeStep, InsertStatementAfterStep
<1>2. CASE /\ Walking(e)
           /\ \E i \in 1..Width(Target(e).green) + 1 :
                  ChildAt(e, i) \/ RemoveChild(e, i) \/ \E a \in held : InsertChild(e, i, a)
  <2>1. PICK i \in 1..Width(Target(e).green) + 1 :
                  ChildAt(e, i) \/ RemoveChild(e, i) \/ \E a \in held : InsertChild(e, i, a)
    BY <1>2
  <2>2. i \in Nat \ {0}
    <3>1. heap[Target(e).green].children \in Seq(Allocated)
      BY <1>2, TargetFacts, LiveChildren DEF Walking
    <3> QED BY <3>1 DEF Width
  <2> QED BY <2>1, <2>2, ChildAtStep, RemoveChildStep, InsertChildStep
<1>3. CASE \E key \in DOMAIN tokens : ReplaceToken(e, tokens[key])
  BY <1>3, EntriesLive, ReplaceTokenStep DEF IInv
<1>4. CASE RemoveStatement(e)
  BY <1>4, RemoveStatementStep
<1>5. CASE Rebuild(e)
  BY <1>5, RebuildsStep
<1>6. CASE NewRoot(e)
  BY <1>6, NewRootStep
<1>7. CASE DropCursor(e)
  BY <1>7, DropCursorStep
<1> QED BY <1>1, <1>2, <1>3, <1>4, <1>5, <1>6, <1>7 DEF Edit

LEMMA HandleStep ==
    ASSUME IInv, Handle
    PROVE  IInv' /\ Keeps
BY DropStep, HoldStep, DestroyStep DEF Handle

\* A step that changes nothing.
LEMMA StutterStep ==
    ASSUME IInv, UNCHANGED vars
    PROVE  IInv' /\ Keeps
<1>1. UNCHANGED <<cache, building, editing>> /\ held' = held
  BY DEF vars, cache, building, editing
<1> QED BY <1>1, HandlesStep DEF IInv, HolderType, HeldOK

LEMMA StepIInv ==
    ASSUME IInv, [Next]_vars
    PROVE  IInv' /\ Keeps
BY BuildStep, EditStep, HandleStep, StutterStep DEF Next

THEOREM Invariant == Spec => []IInv
<1>1. IInv /\ [Next]_vars => IInv'
  BY StepIInv
<1> QED BY InitIInv, <1>1, PTL DEF Spec

-----------------------------------------------------------------------------
(* What the callers rely on *)

\* Every variable keeps its type, and what a parse has open is nested as it
\* was started, whoever else is at work.
THEOREM TypeCorrect == Spec => []TypeOK
<1>1. IInv => TypeOK
  BY DEF IInv, CacheInv, CacheType, HeapType, HolderType, BuilderOK, TypeOK
<1> QED BY Invariant, <1>1, PTL

\* The addresses in the cache's keys never go stale: while a key is there so
\* are the objects at those addresses (the node's own children).
THEOREM KeysStayExact == Spec => []KeysExact
<1>1. IInv => KeysExact
  BY DEF IInv, CacheInv
<1> QED BY Invariant, <1>1, PTL

\* However many parses and edits share the cache and in whatever order their
\* calls fall, equal tokens and equal small nodes are one object.
THEOREM SmallNodesShared == Spec => []Interned
<1>1. IInv => Interned
  <2> SUFFICES ASSUME IInv, NEW a \in Allocated, NEW b \in Allocated,
                      heap[a] = heap[b], Width(a) <= MaxInterned
               PROVE  a = b
    BY DEF Interned
  <2>1. IsNode(a) = IsNode(b) /\ Width(b) <= MaxInterned
    BY DEF IsNode, Width
  <2>2. CASE IsNode(a)
    BY <2>1, <2>2 DEF IInv, CacheInv, Registered
  <2>3. CASE ~IsNode(a)
    BY <2>1, <2>3 DEF IInv, CacheInv, Registered
  <2> QED BY <2>2, <2>3
<1> QED BY Invariant, <1>1, PTL

\* What the cache looks nodes up by stays exact: no key goes stale, and
\* nothing small exists twice.
THEOREM CacheStaysExact == Spec => []CacheExact
<1>1. KeysExact /\ Interned => CacheExact
  BY DEF CacheExact
<1> QED BY KeysStayExact, SmallNodesShared, <1>1, PTL

\* No step of anybody alters or destroys what somebody refers to: an edit
\* leaves the tree it was made from as it was.
THEOREM HeldTreesNeverChange == Spec => Immutable
<1>1. IInv /\ [Next]_vars =>
          [\A a \in Allocated : Referenced(a) => heap'[a] = heap[a]]_vars
  BY StepIInv DEF Keeps
<1> QED BY Invariant, <1>1, PTL DEF Spec, Immutable
=============================================================================
