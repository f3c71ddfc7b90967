------------------------ MODULE PropertyLookupProofs ------------------------
(***************************************************************************)
(* Proofs about PropertyLookup.                                            *)
(***************************************************************************)
EXTENDS PropertyLookup, Integers, FiniteSetTheorems, WellFoundedInduction, TLAPS

-----------------------------------------------------------------------------
(* Natural numbers *)

\* A set of natural numbers that is not empty has a least member: what stands
\* for induction in this module.
LEMMA NatLeast ==
  ASSUME NEW T \in SUBSET Nat, T # {}
  PROVE  \E m \in T : \A n \in T : m <= n
<1>0. PICK R : R = OpToRel(<, Nat)
  OBVIOUS
<1>1. IsWellFoundedOn(R, Nat)
  BY <1>0, NatLessThanWellFounded, Zenon
<1>2. \A x, y \in Nat : <<x, y>> \in R <=> x < y
  BY <1>0, Zenon DEF OpToRel
<1>3. PICK m \in T : \A n \in T : ~(<<n, m>> \in R)
  BY <1>1, WFMin
<1>4. \A n \in T : m <= n
  <2> TAKE n \in T
  <2>1. ~(n < m)
    BY <1>2, <1>3
  <2> QED
    BY <2>1
<1> QED
  BY <1>4

-----------------------------------------------------------------------------
(* The walk up the hierarchy *)

\* What the walk of `lineage` puts after a class.
Above(below) == IF below = Nothing THEN Nothing ELSE ParentOf(below)

\* A chain of n links solves the equation that defines the lineage.
Climbs(chain, id, n) == \A d \in 0..n : chain[d] = IF d = 0 THEN id ELSE Above(chain[d - 1])

LEMMA ChainExists ==
  ASSUME NEW id, NEW n \in Nat
  PROVE  \E chain : Climbs(chain, id, n)
<1> DEFINE T == {k \in Nat : ~\E chain : Climbs(chain, id, k)}
<1> SUFFICES ASSUME T # {}  PROVE FALSE
  OBVIOUS
<1>1. PICK m \in T : \A k \in T : m <= k
  BY NatLeast
<1>2. CASE m = 0
  <2>1. Climbs([d \in 0..0 |-> id], id, 0)
    BY DEF Climbs
  <2> QED
    BY <2>1, <1>2
<1>3. CASE m # 0
  <2>1. m - 1 \in Nat /\ m - 1 \notin T
    BY <1>1, <1>3
  <2>2. PICK f : Climbs(f, id, m - 1)
    BY <2>1
  <2> DEFINE g == [d \in 0..m |-> IF d = m THEN Above(f[m - 1]) ELSE f[d]]
  <2>3. Climbs(g, id, m)
    <3> SUFFICES ASSUME NEW d \in 0..m  PROVE g[d] = IF d = 0 THEN id ELSE Above(g[d - 1])
      BY Zenon DEF Climbs
    <3>1. CASE d = m
      BY <3>1, <1>3
    <3>2. CASE d # m
      <4>1. d \in 0..(m - 1) /\ (d # 0 => d - 1 \in 0..m /\ d - 1 # m)
        BY <3>2
      <4>2. f[d] = IF d = 0 THEN id ELSE Above(f[d - 1])
        BY <2>2, <4>1 DEF Climbs
      <4> QED
        BY <4>1, <4>2, <3>2
    <3> QED
      BY <3>1, <3>2
  <2> QED
    BY <2>3
<1> QED
  BY <1>2, <1>3

\* The equations of `lineage`: the class itself, and above each class its
\* parent, or the root when it writes none.
Law(id) ==
  /\ DOMAIN Lineage(id) = 0..(MaxDepth - 1)
  /\ Lineage(id)[0] = id
  /\ \A d \in 1..(MaxDepth - 1) : Lineage(id)[d] = Above(Lineage(id)[d - 1])

LEMMA LineageUnfolds == \A id : Law(id)
<1> SUFFICES ASSUME NEW id  PROVE Law(id)
  OBVIOUS
<1>0. MaxDepth \in Nat \ {0}
  BY DepthAssumption
<1> DEFINE Body(f) == [d \in 0..(MaxDepth - 1) |->
                         IF d = 0 THEN id
                         ELSE LET below == f[d - 1]
                              IN IF below = Nothing THEN Nothing ELSE ParentOf(below)]
<1>1. PICK f : Climbs(f, id, MaxDepth - 1)
  BY <1>0, ChainExists
<1>2. Body(f) = Body(Body(f))
  <2> SUFFICES ASSUME NEW d \in 0..(MaxDepth - 1), d # 0
               PROVE  f[d - 1] = Body(f)[d - 1]
    OBVIOUS
  <2>1. d - 1 \in 0..(MaxDepth - 1)
    BY <1>0
  <2> QED
    BY <2>1, <1>1 DEF Climbs, Above
<1> DEFINE at == Lineage(id)
<1>3. at = CHOOSE g : g = Body(g)
  BY DEF Lineage
<1> HIDE DEF at
<1>4. at = Body(at)
  BY <1>2, <1>3
<1> QED
  BY <1>0, <1>4 DEF Law, at, Above

\* A class inherits from what the walk steps to.
LEMMA ParentInherits ==
  ASSUME NEW id \in Declared
  PROVE  /\ ParentOf(id) \in Declared \cup {Nothing}
         /\ ParentOf(id) # Nothing => InheritsFrom(id, ParentOf(id))
<1>1. CASE class[id].of_class # Nothing
  BY <1>1 DEF ParentOf, InheritsFrom
<1>2. CASE class[id].of_class = Nothing
  <2>1. CASE \E r \in Declared : class[r].root
    <3>1. RootClass \in Declared /\ class[RootClass].root
      BY <2>1 DEF RootClass
    <3> QED
      BY <3>1, <1>2 DEF ParentOf, InheritsFrom
  <2>2. CASE ~\E r \in Declared : class[r].root
    BY <2>2, <1>2 DEF ParentOf, RootClass
  <2> QED
    BY <2>1, <2>2
<1> QED
  BY <1>1, <1>2

LEMMA LineageDeclared ==
  ASSUME NEW id \in Declared, NEW d \in 0..(MaxDepth - 1)
  PROVE  Lineage(id)[d] \in Declared \cup {Nothing}
<1> DEFINE T == {k \in 0..(MaxDepth - 1) : Lineage(id)[k] \notin Declared \cup {Nothing}}
<1> SUFFICES ASSUME T # {}  PROVE FALSE
  OBVIOUS
<1>0. MaxDepth \in Nat \ {0} /\ T \in SUBSET Nat /\ Law(id)
  BY DepthAssumption, LineageUnfolds
<1>1. PICK m \in T : \A k \in T : m <= k
  BY <1>0, NatLeast
<1>2. m # 0
  BY <1>0 DEF Law
<1>3. m - 1 \in 0..(MaxDepth - 1) /\ m - 1 \notin T /\ m \in 1..(MaxDepth - 1)
  BY <1>0, <1>1, <1>2
<1>4. Lineage(id)[m] = Above(Lineage(id)[m - 1])
  BY <1>0, <1>3 DEF Law
<1> HIDE DEF T
<1>5. Lineage(id)[m - 1] \in Declared \cup {Nothing}
  BY <1>3 DEF T
<1>6. Above(Lineage(id)[m - 1]) \in Declared \cup {Nothing}
  BY <1>5, ParentInherits DEF Above
<1> QED
  BY <1>1, <1>4, <1>6 DEF T

\* A set of classes is closed when it holds what its members inherit from.
Closed(S) == \A c \in S, d \in Declared : InheritsFrom(c, d) => d \in S

LEMMA LineageInherited ==
  ASSUME NEW id \in Declared, NEW d \in 0..(MaxDepth - 1), Lineage(id)[d] # Nothing
  PROVE  Lineage(id)[d] \in Ancestors(id)
<1>1. Lineage(id)[d] \in Declared
  BY LineageDeclared
<1> SUFFICES ASSUME NEW S \in SUBSET Declared, id \in S, Closed(S)
             PROVE  Lineage(id)[d] \in S
  BY <1>1 DEF Ancestors, Closed
<1> DEFINE T == {k \in 0..(MaxDepth - 1) : Lineage(id)[k] \notin S \cup {Nothing}}
<1> SUFFICES ASSUME T # {}  PROVE FALSE
  OBVIOUS
<1>2. MaxDepth \in Nat \ {0} /\ T \in SUBSET Nat /\ Law(id)
  BY DepthAssumption, LineageUnfolds
<1>3. PICK m \in T : \A k \in T : m <= k
  BY <1>2, NatLeast
<1>4. m # 0
  BY <1>2 DEF Law
<1>5. m - 1 \in 0..(MaxDepth - 1) /\ m - 1 \notin T /\ m \in 1..(MaxDepth - 1)
  BY <1>2, <1>3, <1>4
<1> DEFINE below == Lineage(id)[m - 1]
<1>6. Lineage(id)[m] = Above(below)
  BY <1>2, <1>5 DEF Law
<1> HIDE DEF T
<1>7. below \in S \cup {Nothing}
  BY <1>5 DEF T
<1> HIDE DEF below
<1>8. Above(below) \in S \cup {Nothing}
  BY <1>7, ParentInherits DEF Above, Closed
<1> QED
  BY <1>3, <1>6, <1>8 DEF T

\* Inheritance is transitive.
LEMMA AncestorsTransitive ==
  ASSUME NEW a, NEW b, NEW c, a \in Ancestors(b), b \in Ancestors(c)
  PROVE  a \in Ancestors(c)
BY DEF Ancestors

-----------------------------------------------------------------------------
(* What a class has *)

LEMMA FromTraitsDeclared ==
  \A list \in Seq(TraitIds) : \A name :
    FromTraits(list, name) # Nothing <=>
      \E i \in DOMAIN list : list[i] \in DeclaredTraits /\ trait[list[i]][name] # Nothing
<1> TAKE list \in Seq(TraitIds)
<1> TAKE name
<1> DEFINE declaring == {i \in DOMAIN list : /\ list[i] \in DeclaredTraits
                                             /\ trait[list[i]][name] # Nothing}
<1>1. declaring \in SUBSET Nat
  OBVIOUS
<1>2. CASE declaring = {}
  BY <1>2, Zenon DEF FromTraits
<1>3. CASE declaring # {}
  <2> DEFINE first == CHOOSE i \in declaring : \A j \in declaring : i <= j
  <2>1. first \in declaring
    <3>1. \E i \in declaring : \A j \in declaring : i <= j
      BY <1>1, <1>3, NatLeast
    <3> QED
      BY <3>1, Zenon
  <2>2. FromTraits(list, name) = trait[list[first]][name]
    BY <1>3, Zenon DEF FromTraits
  <2> HIDE DEF first
  <2> QED
    BY <1>3, <2>1, <2>2
<1> QED
  BY <1>2, <1>3

\* The lookup finds a property exactly when some class of the lineage has it.
LEMMA InheritedSomewhere ==
  \A id \in Declared : \A name :
    Inherited(id, name) # Nothing <=>
      \E d \in 0..(MaxDepth - 1), a \in Declared :
        Lineage(id)[d] = a /\ HereOrByTrait(a, name) # Nothing
<1> TAKE id \in Declared
<1> TAKE name
<1> DEFINE chain == Lineage(id)
           having == {d \in DOMAIN chain : /\ chain[d] # Nothing
                                           /\ HereOrByTrait(chain[d], name) # Nothing}
<1>1. DOMAIN chain = 0..(MaxDepth - 1) /\ MaxDepth \in Nat
  BY LineageUnfolds, DepthAssumption DEF Law
<1>2. \A d \in DOMAIN chain : chain[d] \in Declared \cup {Nothing}
  BY <1>1, LineageDeclared
<1>3. Nothing \notin Declared
  BY NothingAssumption DEF Declared
<1>4. CASE having = {}
  <2>1. Inherited(id, name) = Nothing
    BY <1>4, Zenon DEF Inherited
  <2> HIDE DEF chain
  <2>2. ~\E d \in DOMAIN chain, a \in Declared : chain[d] = a /\ HereOrByTrait(a, name) # Nothing
    BY <1>3, <1>4
  <2> QED
    BY <1>1, <2>1, <2>2 DEF chain
<1>5. CASE having # {}
  <2> DEFINE first == CHOOSE d \in having : \A e \in having : d <= e
  <2>1. first \in having
    <3>1. having \in SUBSET Nat
      BY <1>1
    <3>2. \E d \in having : \A e \in having : d <= e
      BY <1>5, <3>1, NatLeast
    <3> QED
      BY <3>2, Zenon
  <2>2. Inherited(id, name) = HereOrByTrait(chain[first], name)
    BY <1>5, Zenon DEF Inherited
  <2> HIDE DEF first, chain
  <2>3. first \in DOMAIN chain /\ chain[first] \in Declared /\ HereOrByTrait(chain[first], name) # Nothing
    BY <1>2, <2>1
  <2> QED
    BY <1>1, <2>2, <2>3 DEF chain
<1> QED
  BY <1>4, <1>5

LEMMA PresentIsHad ==
  ASSUME NEW id \in Declared, NEW name, Inherited(id, name) # Nothing,
         NEW c, id \in Ancestors(c)
  PROVE  ClassHas(c, name)
<1>1. PICK d \in 0..(MaxDepth - 1), a \in Declared :
        Lineage(id)[d] = a /\ HereOrByTrait(a, name) # Nothing
  BY InheritedSomewhere
<1>2. a # Nothing
  BY NothingAssumption DEF Declared
<1>3. a \in Ancestors(c)
  BY <1>1, <1>2, LineageInherited, AncestorsTransitive
<1>4. \/ class[a].properties[name] # Nothing
      \/ \E i \in DOMAIN class[a].traits :
           /\ class[a].traits[i] \in DeclaredTraits
           /\ trait[class[a].traits[i]][name] # Nothing
  BY <1>1 DEF HereOrByTrait, FromTraits
<1> QED
  BY <1>3, <1>4 DEF ClassHas

\* A read that is called definitely present compiles to a direct access: in
\* every program, also with a cycle of parents and at every depth, what can
\* be in the slot has the property.
THEOREM PresentIsSound == Spec => []PresentSound
<1>1. PresentSound
  <2> SUFFICES ASSUME NEW id \in Declared, NEW name \in Names, Inherited(id, name) # Nothing
               PROVE  /\ \A c \in Declared : id \in Ancestors(c) => ClassHas(c, name)
                      /\ \A o \in Made : id \in Ancestors(object[o].class) => ObjectHas(o, name)
    BY DEF PresentSound, Classify
  <2> QED
    BY PresentIsHad DEF ObjectHas
<1> QED
  BY <1>1, PTL

-----------------------------------------------------------------------------
(* The programs *)

OneRoot == \A i, j \in Declared : class[i].root /\ class[j].root => i = j

\* What an object declares for itself is noted beside the class it is of.
LocalNoted ==
  \A o \in Made :
    /\ object[o].class \in Declared
    /\ \A n \in object[o].local : [name |-> n, class |-> object[o].class] \in local_properties

WellDeclared ==
  /\ class \in [Ids -> ClassDecl \cup {Nothing}]
  /\ trait \in [TraitIds -> Properties \cup {Nothing}]
  /\ object \in [Objects -> ObjectDecl \cup {Nothing}]
  /\ OneRoot
  /\ LocalNoted

\* What a step keeps: declarations are only added, and the root stays.
Grows ==
  /\ \A id \in Declared : class'[id] = class[id]
  /\ \A id \in DeclaredTraits : trait'[id] = trait[id]
  /\ local_properties \subseteq local_properties'
  /\ RootClass # Nothing => RootClass' = RootClass

LEMMA RootIs ==
  ASSUME OneRoot, NEW r \in Declared, class[r].root
  PROVE  RootClass = r
BY DEF OneRoot, RootClass

LEMMA WellDeclaredStep ==
  ASSUME WellDeclared, [Next]_vars
  PROVE  WellDeclared' /\ Grows
<1>1. ASSUME NEW id \in Ids, NEW decl \in ClassDecl, DeclareClass(id, decl)
      PROVE  WellDeclared' /\ Grows
  <2>1. class' \in [Ids -> ClassDecl \cup {Nothing}]
    BY <1>1 DEF DeclareClass, WellDeclared
  <2>2. \A i \in Ids \ {id} : class'[i] = class[i]
    BY <1>1 DEF DeclareClass, WellDeclared
  <2>3. class'[id] = decl /\ id \notin Declared
    BY <1>1 DEF DeclareClass, WellDeclared, Declared
  <2>4. Declared \subseteq Declared' /\ Declared' \subseteq Declared \cup {id}
    BY <2>2, <2>3 DEF Declared
  <2>5. \A i \in Declared : class'[i] = class[i]
    BY <2>2, <2>3 DEF Declared
  <2>6. decl.root => \A i \in Declared : ~class[i].root
    <3> SUFFICES ASSUME decl.root, NEW i \in Declared, class[i].root  PROVE FALSE
      OBVIOUS
    <3>1. RootClass = Nothing
      BY <1>1 DEF DeclareClass
    <3>2. RootClass = i
      BY RootIs DEF WellDeclared
    <3> QED
      BY <3>1, <3>2, NothingAssumption DEF Declared
  <2>7. OneRoot'
    <3> SUFFICES ASSUME NEW i \in Declared', NEW j \in Declared', class'[i].root, class'[j].root
                 PROVE  i = j
      BY DEF OneRoot
    <3> QED
      BY <2>3, <2>4, <2>5, <2>6 DEF OneRoot, WellDeclared
  <2>8. LocalNoted'
    BY <1>1, <2>4 DEF DeclareClass, WellDeclared, LocalNoted, Made
  <2>9. RootClass # Nothing => RootClass' = RootClass
    <3> SUFFICES ASSUME RootClass # Nothing  PROVE RootClass' = RootClass
      OBVIOUS
    <3>1. RootClass \in Declared /\ class[RootClass].root
      BY DEF RootClass
    <3> DEFINE r == RootClass
    <3> HIDE DEF r
    <3>2. PICK q \in Declared : q = RootClass /\ class[q].root
      BY <3>1
    <3>3. q \in Declared' /\ class'[q].root
      BY <3>2, <2>4, <2>5
    <3>4. \A i \in Declared' : class'[i].root => i = q
      BY <2>7, <3>3 DEF OneRoot
    <3>5. RootClass' = q
      BY <3>3, <3>4 DEF RootClass
    <3> QED
      BY <3>2, <3>5
  <2> QED
    BY <1>1, <2>1, <2>5, <2>7, <2>8, <2>9 DEF DeclareClass, WellDeclared, Grows
<1>2. ASSUME NEW id \in TraitIds, NEW properties \in Properties, DeclareTrait(id, properties)
      PROVE  WellDeclared' /\ Grows
  <2>1. Declared' = Declared /\ RootClass' = RootClass /\ Made' = Made
    BY <1>2 DEF DeclareTrait, Declared, RootClass, Made
  <2>2. OneRoot' /\ LocalNoted'
    BY <1>2, <2>1 DEF DeclareTrait, WellDeclared, OneRoot, LocalNoted
  <2>3. \A i \in DeclaredTraits : trait'[i] = trait[i]
    BY <1>2 DEF DeclareTrait, WellDeclared, DeclaredTraits
  <2> QED
    BY <1>2, <2>1, <2>2, <2>3 DEF DeclareTrait, WellDeclared, Grows
<1>3. ASSUME NEW o \in Objects, NEW decl \in ObjectDecl, Instantiate(o, decl)
      PROVE  WellDeclared' /\ Grows
  <2>1. Declared' = Declared /\ RootClass' = RootClass
    BY <1>3 DEF Instantiate, Declared, RootClass
  <2>2. OneRoot'
    BY <1>3, <2>1 DEF Instantiate, WellDeclared, OneRoot
  <2>3. object' \in [Objects -> ObjectDecl \cup {Nothing}]
    BY <1>3 DEF Instantiate, WellDeclared
  <2>4. LocalNoted'
    <3> SUFFICES ASSUME NEW p \in Made'
                 PROVE  /\ object'[p].class \in Declared
                        /\ \A n \in object'[p].local :
                             [name |-> n, class |-> object'[p].class] \in local_properties'
      BY <2>1 DEF LocalNoted
    <3>1. CASE p = o
      <4>1. object'[p] = decl
        BY <1>3, <3>1 DEF Instantiate, WellDeclared
      <4> QED
        BY <1>3, <4>1 DEF Instantiate
    <3>2. CASE p # o
      <4>1. p \in Made /\ object'[p] = object[p]
        BY <1>3, <3>2 DEF Instantiate, WellDeclared, Made
      <4> QED
        BY <1>3, <4>1 DEF Instantiate, WellDeclared, LocalNoted
    <3> QED
      BY <3>1, <3>2
  <2> QED
    BY <1>3, <2>1, <2>2, <2>3, <2>4 DEF Instantiate, WellDeclared, Grows
<1>4. CASE UNCHANGED vars
  <2>1. Declared' = Declared /\ RootClass' = RootClass /\ Made' = Made
    BY <1>4 DEF vars, Declared, RootClass, Made
  <2>2. OneRoot' /\ LocalNoted'
    BY <1>4, <2>1 DEF vars, WellDeclared, OneRoot, LocalNoted
  <2> QED
    BY <1>4, <2>1, <2>2 DEF vars, WellDeclared, Grows
<1> QED
  BY <1>1, <1>2, <1>3, <1>4 DEF Next

LEMMA ProgramsInvariant == Spec => []WellDeclared
<1>1. Init => WellDeclared
  BY DEF Init, WellDeclared, OneRoot, LocalNoted, Declared, Made
<1>2. WellDeclared /\ [Next]_vars => WellDeclared'
  BY WellDeclaredStep
<1> QED
  BY <1>1, <1>2, PTL DEF Spec

-----------------------------------------------------------------------------
(* A growing program *)

\* What the lemmas above say of a state they say of the next one.
LEMMA NextLineage == (\A id : Law(id))'
<1>1. \A id : Law(id)
  BY LineageUnfolds
<1> QED
  BY <1>1, PTL

LEMMA NextTraits ==
  (\A list \in Seq(TraitIds) : \A name :
     FromTraits(list, name) # Nothing <=>
       \E i \in DOMAIN list : list[i] \in DeclaredTraits /\ trait[list[i]][name] # Nothing)'
<1>1. \A list \in Seq(TraitIds) : \A name :
        FromTraits(list, name) # Nothing <=>
          \E i \in DOMAIN list : list[i] \in DeclaredTraits /\ trait[list[i]][name] # Nothing
  BY FromTraitsDeclared
<1> QED
  BY <1>1, PTL

LEMMA NextInherited ==
  (\A id \in Declared : \A name :
     Inherited(id, name) # Nothing <=>
       \E d \in 0..(MaxDepth - 1), a \in Declared :
         Lineage(id)[d] = a /\ HereOrByTrait(a, name) # Nothing)'
<1>1. \A id \in Declared : \A name :
        Inherited(id, name) # Nothing <=>
          \E d \in 0..(MaxDepth - 1), a \in Declared :
            Lineage(id)[d] = a /\ HereOrByTrait(a, name) # Nothing
  BY InheritedSomewhere
<1> QED
  BY <1>1, PTL

LEMMA DeclaredKept ==
  ASSUME Grows
  PROVE  Declared \subseteq Declared' /\ DeclaredTraits \subseteq DeclaredTraits'
BY DEF Grows, Declared, DeclaredTraits

LEMMA ParentKept ==
  ASSUME Grows, NEW id \in Ids, id \in Declared, ParentOf(id) # Nothing
  PROVE  ParentOf(id)' = ParentOf(id)
<1>1. Declared \subseteq Declared' /\ class'[id] = class[id]
  BY DeclaredKept DEF Grows
<1>2. CASE class[id].of_class # Nothing
  BY <1>1, <1>2 DEF ParentOf
<1>3. CASE class[id].of_class = Nothing
  <2>1. RootClass # Nothing /\ id # RootClass /\ RootClass' = RootClass
    BY <1>3 DEF ParentOf, Grows
  <2> QED
    BY <1>1, <1>3, <2>1 DEF ParentOf
<1> QED
  BY <1>2, <1>3

\* A lineage is only ever continued.
LEMMA LineageKept ==
  ASSUME Grows, NEW id \in Ids, id \in Declared,
         NEW d \in 0..(MaxDepth - 1), Lineage(id)[d] # Nothing
  PROVE  Lineage(id)'[d] = Lineage(id)[d]
<1> DEFINE T == {k \in 0..(MaxDepth - 1) : /\ Lineage(id)[k] # Nothing
                                           /\ Lineage(id)'[k] # Lineage(id)[k]}
<1> SUFFICES ASSUME T # {}  PROVE FALSE
  OBVIOUS
<1>1. MaxDepth \in Nat \ {0} /\ T \in SUBSET Nat /\ Law(id) /\ Law(id)'
  BY DepthAssumption, LineageUnfolds, NextLineage
<1>2. PICK m \in T : \A k \in T : m <= k
  BY <1>1, NatLeast
<1>3. m # 0
  BY <1>1 DEF Law
<1>4. m - 1 \in 0..(MaxDepth - 1) /\ m - 1 \notin T /\ m \in 1..(MaxDepth - 1)
  BY <1>1, <1>2, <1>3
<1>5. Lineage(id)[m] = Above(Lineage(id)[m - 1])
  BY <1>1, <1>4 DEF Law
<1>6. Lineage(id)[m - 1] # Nothing
  BY <1>2, <1>5 DEF Above
<1>7. PICK e \in Ids : e \in Declared /\ e = Lineage(id)[m - 1]
  BY <1>4, <1>6, LineageDeclared DEF Declared
<1>8. Lineage(id)'[m - 1] = e
  BY <1>4, <1>6, <1>7
<1>9. Lineage(id)'[m] = IF Lineage(id)'[m - 1] = Nothing THEN Nothing ELSE ParentOf(Lineage(id)[m - 1])'
  BY <1>1, <1>4 DEF Law, Above
<1>10. ParentOf(Lineage(id)[m - 1])' = ParentOf(e)'
  BY <1>8 DEF ParentOf
<1>11. Lineage(id)[m] = ParentOf(e) /\ ParentOf(e) # Nothing
  BY <1>2, <1>5, <1>6, <1>7 DEF Above
<1>12. Lineage(id)'[m] = Lineage(id)[m]
  BY <1>6, <1>7, <1>8, <1>9, <1>10, <1>11, ParentKept
<1> QED
  BY <1>2, <1>12

LEMMA DescendsKept ==
  ASSUME Grows, NEW c \in Ids, c \in Declared, NEW id \in Ids, DescendsFrom(c, id)
  PROVE  DescendsFrom(c, id)'
<1>1. PICK d \in 0..(MaxDepth - 1) : Lineage(c)[d] = id
  BY LineageUnfolds DEF DescendsFrom, Law
<1>2. Lineage(c)'[d] = id
  BY <1>1, LineageKept, NothingAssumption
<1> QED
  BY <1>2, NextLineage DEF DescendsFrom, Law

LEMMA HereKept ==
  ASSUME WellDeclared, Grows, NEW id \in Ids, id \in Declared, NEW name,
         HereOrByTrait(id, name) # Nothing
  PROVE  HereOrByTrait(id, name)' # Nothing
<1>1. class'[id] = class[id] /\ class[id].traits \in Seq(TraitIds)
  BY MixinAssumption DEF WellDeclared, Grows, Declared, ClassDecl
<1>2. CASE class[id].properties[name] # Nothing
  BY <1>1, <1>2 DEF HereOrByTrait
<1>3. CASE class[id].properties[name] = Nothing
  <2>1. PICK list \in Seq(TraitIds) : list = class[id].traits
    BY <1>1
  <2>2. PICK i \in DOMAIN list : list[i] \in DeclaredTraits /\ trait[list[i]][name] # Nothing
    BY <1>3, <2>1, FromTraitsDeclared DEF HereOrByTrait
  <2>3. list[i] \in DeclaredTraits' /\ trait'[list[i]][name] # Nothing
    BY <2>2, DeclaredKept DEF Grows
  <2>4. FromTraits(list, name)' # Nothing
    BY <2>3, NextTraits
  <2> QED
    BY <1>1, <1>3, <2>1, <2>4 DEF HereOrByTrait, FromTraits
<1> QED
  BY <1>2, <1>3

LEMMA PresentKept ==
  ASSUME WellDeclared, Grows, NEW id \in Ids, id \in Declared, NEW name,
         Inherited(id, name) # Nothing
  PROVE  Inherited(id, name)' # Nothing
<1>1. PICK d \in 0..(MaxDepth - 1), a \in Declared :
        Lineage(id)[d] = a /\ HereOrByTrait(a, name) # Nothing
  BY InheritedSomewhere
<1>2. PICK e \in Ids : e = a /\ e \in Declared /\ e # Nothing
  BY NothingAssumption DEF Declared
<1>3. Lineage(id)'[d] = e
  BY <1>1, <1>2, LineageKept
<1>4. HereOrByTrait(e, name)' # Nothing
  BY <1>1, <1>2, HereKept
<1>5. id \in Declared' /\ e \in Declared'
  BY <1>2, DeclaredKept
<1> QED
  BY <1>3, <1>4, <1>5, NextInherited

LEMMA DescendantsKept ==
  ASSUME WellDeclared, Grows, NEW id \in Ids, id \in Declared, NEW name,
         Descendants(id, name) # {}
  PROVE  Descendants(id, name)' # {}
<1>1. PICK c \in Ids : c \in Descendants(id, name)
  BY DEF Descendants, Declared
<1>2. c \in Declared /\ DescendsFrom(c, id)
  BY <1>1 DEF Descendants
<1>3. c \in Declared' /\ DescendsFrom(c, id)'
  BY <1>2, DeclaredKept, DescendsKept
<1>4. CASE c # id /\ HereOrByTrait(c, name) # Nothing
  <2>1. HereOrByTrait(c, name)' # Nothing
    BY <1>2, <1>4, HereKept
  <2> QED
    BY <1>3, <1>4, <2>1 DEF Descendants
<1>5. CASE [name |-> name, class |-> c] \in local_properties
  <2>1. [name |-> name, class |-> c] \in local_properties'
    BY <1>5 DEF Grows
  <2> QED
    BY <1>3, <2>1 DEF Descendants
<1> QED
  BY <1>1, <1>4, <1>5 DEF Descendants

\* Declaring more never takes a property away: a read that was permitted stays
\* permitted, and one that was direct stays direct.
THEOREM AnswersRise == Spec => Monotone
<1>1. WellDeclared /\ [Next]_vars => AnswersOnlyRise
  <2> SUFFICES ASSUME WellDeclared, [Next]_vars, NEW id \in Ids, id \in Declared, NEW name \in Names
               PROVE  LET before == Classify(name, id)
                          after == Classify(name, id)'
                      IN before # after => before = "Absent" \/ <<before, after>> = <<"Maybe", "Present">>
    BY DEF AnswersOnlyRise, Declared
  <2>1. Grows
    BY WellDeclaredStep
  <2>2. Inherited(id, name) # Nothing => Inherited(id, name)' # Nothing
    BY <2>1, PresentKept
  <2>3. Descendants(id, name) # {} => Descendants(id, name)' # {}
    BY <2>1, DescendantsKept
  <2> QED
    BY <2>2, <2>3 DEF Classify
<1> QED
  BY <1>1, ProgramsInvariant, PTL DEF Spec, Monotone

-----------------------------------------------------------------------------
(* A program the cap on the walk does not cut short *)

\* A line of classes, each of which inherits from the next, one class longer
\* than the walk goes.
LongLine(line) ==
  /\ line \in [0..MaxDepth -> Declared]
  /\ \A d \in 0..(MaxDepth - 1) : InheritsFrom(line[d], line[d + 1])
  /\ \A i, j \in 0..MaxDepth : line[i] = line[j] => i = j

\* No class has more than MaxDepth - 1 ancestors above it (a cycle may be of any
\* length up to that).
Shallow == ~\E line : LongLine(line)

\* The walk misses no class that a class inherits from.
LEMMA InheritsIsParent ==
  ASSUME WellDeclared, NEW id \in Declared, NEW parent \in Declared, InheritsFrom(id, parent)
  PROVE  ParentOf(id) = parent
<1>1. parent # Nothing /\ Nothing \notin Declared
  BY NothingAssumption DEF Declared
<1>2. CASE class[id].of_class = parent
  BY <1>1, <1>2 DEF ParentOf
<1>3. CASE class[id].of_class = Nothing /\ class[parent].root /\ parent # id
  <2>1. RootClass = parent
    BY <1>3, RootIs DEF WellDeclared
  <2> QED
    BY <1>3, <2>1 DEF ParentOf
<1> QED
  BY <1>2, <1>3 DEF InheritsFrom

\* The lineage of a class on a lineage is the rest of it.
LEMMA LineageRest ==
  ASSUME NEW id, NEW i \in 0..(MaxDepth - 1), NEW k \in 0..(MaxDepth - 1 - i)
  PROVE  Lineage(Lineage(id)[i])[k] = Lineage(id)[i + k]
<1> DEFINE from == Lineage(id)[i]
           T == {n \in 0..(MaxDepth - 1 - i) : Lineage(from)[n] # Lineage(id)[i + n]}
<1> HIDE DEF from
<1> SUFFICES ASSUME T # {}  PROVE FALSE
  BY DEF from
<1>1. MaxDepth \in Nat \ {0} /\ T \in SUBSET Nat /\ Law(id) /\ Law(from)
  BY DepthAssumption, LineageUnfolds
<1>2. PICK m \in T : \A n \in T : m <= n
  BY <1>1, NatLeast
<1>3. m # 0
  BY <1>1 DEF Law, from
<1>4. m - 1 \in 0..(MaxDepth - 1 - i) /\ m - 1 \notin T
  BY <1>1, <1>2, <1>3
<1>5. m \in 1..(MaxDepth - 1) /\ i + m \in 1..(MaxDepth - 1) /\ (i + m) - 1 = i + (m - 1)
  BY <1>1, <1>3
<1>6. Lineage(from)[m] = Above(Lineage(from)[m - 1])
  BY <1>1, <1>5 DEF Law
<1>7. Lineage(id)[i + m] = Above(Lineage(id)[i + (m - 1)])
  BY <1>1, <1>5 DEF Law
<1>8. Lineage(from)[m - 1] = Lineage(id)[i + (m - 1)]
  BY <1>4
<1> QED
  BY <1>2, <1>6, <1>7, <1>8

\* Nothing stands above nothing.
LEMMA LineageUnbroken ==
  ASSUME NEW id, NEW i \in 0..(MaxDepth - 1), NEW k \in 0..(MaxDepth - 1 - i),
         Lineage(id)[i] = Nothing
  PROVE  Lineage(id)[i + k] = Nothing
<1> DEFINE T == {n \in 0..(MaxDepth - 1 - i) : Lineage(id)[i + n] # Nothing}
<1> SUFFICES ASSUME T # {}  PROVE FALSE
  OBVIOUS
<1>1. MaxDepth \in Nat \ {0} /\ T \in SUBSET Nat /\ Law(id)
  BY DepthAssumption, LineageUnfolds
<1>2. PICK m \in T : \A n \in T : m <= n
  BY <1>1, NatLeast
<1>3. m # 0
  BY <1>1
<1>4. m - 1 \in 0..(MaxDepth - 1 - i) /\ m - 1 \notin T
  BY <1>1, <1>2, <1>3
<1>5. i + m \in 1..(MaxDepth - 1) /\ (i + m) - 1 = i + (m - 1)
  BY <1>1, <1>3
<1>6. Lineage(id)[i + m] = Above(Lineage(id)[i + (m - 1)])
  BY <1>1, <1>5 DEF Law
<1> QED
  BY <1>2, <1>4, <1>6 DEF Above

LEMMA LineageClosed ==
  ASSUME WellDeclared, Shallow, NEW id \in Declared
  PROVE  Closed({Lineage(id)[d] : d \in 0..(MaxDepth - 1)} \ {Nothing})
<1> DEFINE L == Lineage(id)
           last == MaxDepth - 1
           S == {L[d] : d \in 0..last} \ {Nothing}
<1>0. MaxDepth \in Nat \ {0} /\ last \in Nat /\ Law(id)
  BY DepthAssumption, LineageUnfolds
<1> SUFFICES ASSUME NEW d \in 0..last, L[d] # Nothing,
                    NEW parent \in Declared, InheritsFrom(L[d], parent), parent \notin S
             PROVE  FALSE
  BY DEF Closed
<1>1. \A k \in 0..last : L[k] \in Declared \cup {Nothing}
  BY LineageDeclared
<1>2. parent # Nothing /\ Nothing \notin Declared
  BY NothingAssumption DEF Declared
<1>3. Above(L[d]) = parent
  BY <1>1, InheritsIsParent DEF Above
<1>4. d = last
  <2> SUFFICES ASSUME d # last  PROVE FALSE
    OBVIOUS
  <2>1. d + 1 \in 1..last /\ (d + 1) - 1 = d
    BY <1>0
  <2>2. L[d + 1] = Above(L[d])
    BY <1>0, <2>1 DEF Law
  <2> QED
    BY <1>0, <1>2, <1>3, <2>1, <2>2
<1>5. \A k \in 0..last : L[k] # Nothing
  <2> SUFFICES ASSUME NEW k \in 0..last, L[k] = Nothing  PROVE FALSE
    OBVIOUS
  <2>1. last - k \in 0..(MaxDepth - 1 - k) /\ k + (last - k) = last
    BY <1>0
  <2>2. L[k + (last - k)] = Nothing
    BY <2>1, LineageUnbroken
  <2> QED
    BY <1>4, <2>1, <2>2
<1>6. \A i, j \in 0..last : i < j => L[i] # L[j]
  <2> SUFFICES ASSUME NEW i \in 0..last, NEW j \in 0..last, i < j, L[i] = L[j]  PROVE FALSE
    OBVIOUS
  <2> DEFINE k == last - j
  <2>1. /\ k \in 0..(MaxDepth - 1 - i) /\ k \in 0..(MaxDepth - 1 - j) /\ j + k = last
        /\ i + k \in 0..last /\ (i + k) + 1 \in 1..last /\ ((i + k) + 1) - 1 = i + k
    BY <1>0
  <2>2. L[i + k] = L[last]
    <3>1. Lineage(L[i])[k] = L[i + k] /\ Lineage(L[j])[k] = L[j + k]
      BY <2>1, LineageRest
    <3> QED
      BY <2>1, <3>1
  <2>3. L[(i + k) + 1] = Above(L[i + k])
    BY <1>0, <2>1 DEF Law
  <2>4. L[(i + k) + 1] = parent /\ (i + k) + 1 \in 0..last
    BY <1>0, <1>3, <1>4, <2>1, <2>2, <2>3
  <2> QED
    BY <1>2, <2>4
<1> DEFINE line == [k \in 0..MaxDepth |-> IF k = MaxDepth THEN parent ELSE L[k]]
<1>7. LongLine(line)
  <2>1. \A k \in 0..MaxDepth : line[k] = IF k = MaxDepth THEN parent ELSE L[k]
    OBVIOUS
  <2>2. \A k \in 0..MaxDepth : k # MaxDepth => k \in 0..last
    BY <1>0
  <2>3. line \in [0..MaxDepth -> Declared]
    BY <1>1, <1>5, <2>2
  <2>4. ASSUME NEW k \in 0..(MaxDepth - 1)  PROVE InheritsFrom(line[k], line[k + 1])
    <3>1. k \in 0..MaxDepth /\ k + 1 \in 0..MaxDepth /\ k # MaxDepth /\ line[k] = L[k]
      BY <1>0, <2>1
    <3>2. CASE k = last
      BY <1>0, <1>4, <2>1, <3>1, <3>2
    <3>3. CASE k # last
      <4>1. k + 1 # MaxDepth /\ k + 1 \in 1..last /\ (k + 1) - 1 = k
        BY <1>0, <3>3
      <4>2. line[k + 1] = Above(L[k])
        BY <1>0, <2>1, <3>1, <4>1 DEF Law
      <4>3. L[k] \in Declared /\ Above(L[k]) # Nothing
        BY <1>0, <1>1, <1>5, <2>1, <3>1, <4>1, <4>2
      <4> QED
        BY <3>1, <4>2, <4>3, ParentInherits DEF Above
    <3> QED
      BY <3>2, <3>3
  <2>5. ASSUME NEW i \in 0..MaxDepth, NEW j \in 0..MaxDepth, line[i] = line[j]
        PROVE  i = j
    <3>1. \A k \in 0..last : L[k] # parent
      BY <1>2
    <3>2. (i = MaxDepth) <=> (j = MaxDepth)
      BY <2>1, <2>2, <2>5, <3>1
    <3>3. CASE i # MaxDepth
      <4>1. i \in 0..last /\ j \in 0..last /\ L[i] = L[j]
        BY <2>1, <2>2, <2>5, <3>2, <3>3
      <4>2. ~(i < j) /\ ~(j < i)
        BY <1>6, <4>1
      <4> QED
        BY <1>0, <4>1, <4>2
    <3> QED
      BY <3>2, <3>3
  <2> HIDE DEF line
  <2> QED
    BY <2>3, <2>4, <2>5 DEF LongLine
<1> QED
  BY <1>7 DEF Shallow

LEMMA AncestorsOnLineage ==
  ASSUME WellDeclared, Shallow, NEW id \in Declared, NEW a \in Ancestors(id)
  PROVE  \E d \in 0..(MaxDepth - 1) : Lineage(id)[d] = a
<1> DEFINE S == {Lineage(id)[d] : d \in 0..(MaxDepth - 1)} \ {Nothing}
<1>1. S \in SUBSET Declared
  BY LineageDeclared
<1>2. id \in S
  BY DepthAssumption, LineageUnfolds, NothingAssumption DEF Law, Declared
<1>3. Closed(S)
  BY LineageClosed
<1> HIDE DEF S
<1>4. a \in S
  BY <1>1, <1>2, <1>3 DEF Ancestors, Closed
<1> QED
  BY <1>4 DEF S

\* A class that has a property is above the slot's, below it, or not related.
LEMMA AbsentIsLacked ==
  ASSUME WellDeclared, Shallow, NEW id \in Declared, NEW name,
         Inherited(id, name) = Nothing, Descendants(id, name) = {},
         NEW c \in Declared, id \in Ancestors(c)
  PROVE  ~ClassHas(c, name)
<1> SUFFICES ASSUME ClassHas(c, name)  PROVE FALSE
  OBVIOUS
<1>0. MaxDepth \in Nat \ {0} /\ Nothing \notin Declared
  BY DepthAssumption, NothingAssumption DEF Declared
<1>1. PICK a \in Ancestors(c) :
        \/ class[a].properties[name] # Nothing
        \/ \E i \in DOMAIN class[a].traits :
             /\ class[a].traits[i] \in DeclaredTraits
             /\ trait[class[a].traits[i]][name] # Nothing
  BY DEF ClassHas
<1>2. a \in Declared /\ class[a].traits \in Seq(TraitIds)
  BY MixinAssumption DEF Ancestors, WellDeclared, Declared, ClassDecl
<1>3. HereOrByTrait(a, name) # Nothing
  BY <1>1, <1>2, FromTraitsDeclared DEF HereOrByTrait
<1>4. PICK i \in 0..(MaxDepth - 1) : Lineage(c)[i] = id
  BY AncestorsOnLineage
<1>5. PICK j \in 0..(MaxDepth - 1) : Lineage(c)[j] = a
  BY AncestorsOnLineage
<1>6. CASE i <= j
  <2>1. j - i \in 0..(MaxDepth - 1 - i) /\ i + (j - i) = j /\ j - i \in 0..(MaxDepth - 1)
    BY <1>0, <1>6
  <2>2. Lineage(id)[j - i] = a
    BY <1>4, <1>5, <2>1, LineageRest
  <2> QED
    BY <1>2, <1>3, <2>1, <2>2, InheritedSomewhere
<1>7. CASE j < i
  <2>1. i - j \in 0..(MaxDepth - 1 - j) /\ j + (i - j) = i /\ i - j \in 0..(MaxDepth - 1)
    BY <1>0, <1>7
  <2>2. Lineage(a)[i - j] = id
    BY <1>4, <1>5, <2>1, LineageRest
  <2>3. DescendsFrom(a, id)
    BY <2>1, <2>2, LineageUnfolds DEF DescendsFrom, Law
  <2>4. a # id
    <3> SUFFICES ASSUME a = id  PROVE FALSE
      OBVIOUS
    <3>1. Lineage(id)[0] = a /\ 0 \in 0..(MaxDepth - 1)
      BY <1>0, LineageUnfolds DEF Law
    <3> QED
      BY <1>2, <1>3, <3>1, InheritedSomewhere
  <2> QED
    BY <1>2, <1>3, <2>3, <2>4 DEF Descendants
<1> QED
  BY <1>0, <1>6, <1>7

\* A read is rejected as definitely absent only when nothing below the slot's
\* class has the property: in every program in which no line of inheritance
\* is longer than the walk goes.
THEOREM AbsentIsSound == Spec => [](Shallow => AbsentSound)
<1>1. WellDeclared => (Shallow => AbsentSound)
  <2> SUFFICES ASSUME WellDeclared, Shallow, NEW id \in Declared, NEW name \in Names,
                      Inherited(id, name) = Nothing, Descendants(id, name) = {}
               PROVE  /\ \A c \in Declared : id \in Ancestors(c) => ~ClassHas(c, name)
                      /\ \A o \in Made :
                           id \in Ancestors(object[o].class) => name \notin object[o].local
    BY DEF AbsentSound, Classify
  <2>1. ASSUME NEW o \in Made, id \in Ancestors(object[o].class), name \in object[o].local
        PROVE  FALSE
    <3> DEFINE c == object[o].class
    <3>1. c \in Declared /\ [name |-> name, class |-> c] \in local_properties
      BY <2>1 DEF WellDeclared, LocalNoted
    <3>2. DescendsFrom(c, id)
      <4>1. \E d \in 0..(MaxDepth - 1) : Lineage(c)[d] = id
        BY <2>1, <3>1, AncestorsOnLineage
      <4>2. DOMAIN Lineage(c) = 0..(MaxDepth - 1)
        BY LineageUnfolds DEF Law
      <4> HIDE DEF c
      <4> QED
        BY <4>1, <4>2 DEF DescendsFrom
    <3> QED
      BY <3>1, <3>2 DEF Descendants
  <2> QED
    BY <2>1, AbsentIsLacked
<1> QED
  BY <1>1, ProgramsInvariant, PTL

\* A program of no more classes than the walk goes is shallow, whatever its
\* parents and its cycles.
THEOREM AbsentIsSoundInSmallPrograms ==
  ASSUME IsFiniteSet(Ids), Cardinality(Ids) <= MaxDepth
  PROVE  Spec => []AbsentSound
<1>1. Shallow
  <2> SUFFICES ASSUME NEW line, LongLine(line)  PROVE FALSE
    BY DEF Shallow
  <2>1. MaxDepth \in Nat \ {0}
    BY DepthAssumption
  <2>2. IsFiniteSet(0..MaxDepth) /\ Cardinality(0..MaxDepth) = MaxDepth + 1
    BY <2>1, FS_Interval
  <2>3. line \in [0..MaxDepth -> Ids]
    BY DEF LongLine, Declared
  <2>4. Cardinality(Ids) \in Nat
    BY FS_CardinalityType
  <2>5. \E i, j \in 0..MaxDepth : i # j /\ line[i] = line[j]
    BY <2>1, <2>2, <2>3, <2>4, FS_PigeonHole
  <2> QED
    BY <2>5 DEF LongLine
<1> QED
  BY <1>1, AbsentIsSound, PTL
=============================================================================
