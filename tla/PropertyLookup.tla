--------------------------- MODULE PropertyLookup ---------------------------
(***************************************************************************)
(* The class graph and the three answers a read of a property may get      *)
(* (schema/property.cpp, spec 8.8.2), over a program that grows one        *)
(* declaration at a time.  A class is a record of its parent, its own      *)
(* traits in declaration order and its own properties; the registry also   *)
(* keeps the property names objects declare for themselves, one entry per  *)
(* instantiation, and nothing removes an entry.                            *)
(***************************************************************************)
EXTENDS Naturals, Sequences

CONSTANTS Ids,           \* ids of classes
          TraitIds,      \* ids of traits; the two namespaces may overlap
          Objects,       \* ids of objects
          Names,         \* names of properties
          Types,         \* declared types of properties
          MixinLists,    \* the `traits` lists a class or an object may write
          Nothing,       \* undeclared, absent, or no parent
          MaxDepth       \* kMaxDepth: links a walk up the hierarchy follows

ASSUME DepthAssumption == MaxDepth \in Nat \ {0}
ASSUME NothingAssumption == Nothing \notin Ids
ASSUME MixinAssumption == MixinLists \subseteq Seq(TraitIds)

VARIABLES class,            \* id -> declaration, or Nothing
          trait,            \* id -> its properties, or Nothing
          object,           \* id -> class, own traits and own properties, or Nothing
          local_properties  \* {[name, class]} objects have declared

vars == <<class, trait, object, local_properties>>

Properties == [Names -> Types \cup {Nothing}]

ClassDecl == [of_class : Ids \cup {Nothing}, root : BOOLEAN,
              traits : MixinLists, properties : Properties]

ObjectDecl == [class : Ids, traits : MixinLists, local : SUBSET Names]

Declared == {id \in Ids : class[id] # Nothing}
DeclaredTraits == {id \in TraitIds : trait[id] # Nothing}

-----------------------------------------------------------------------------
(* The walk up the hierarchy *)

RootClass ==
    IF \E id \in Declared : class[id].root
    THEN CHOOSE id \in Declared : class[id].root ELSE Nothing

\* (A mutant: a parent nobody declared is taken for none.)
ParentOrRoot(id) ==
    LET named == class[id].of_class
    IN  IF named \in Declared THEN named
        ELSE IF id = RootClass THEN Nothing ELSE RootClass

\* What `lineage` steps to from a declared class: its parent if that is
\* declared, the root if it writes none, and nothing above the root.
ParentOf(id) ==
    LET named == class[id].of_class
    IN  IF named # Nothing THEN (IF named \in Declared THEN named ELSE Nothing)
        ELSE IF id = RootClass THEN Nothing ELSE RootClass

\* lineage: position d of the chain that starts at class `id`.
Lineage(id) ==
    LET at[d \in 0..(MaxDepth - 1)] ==
            IF d = 0 THEN id
            ELSE LET below == at[d - 1]
                 IN  IF below = Nothing THEN Nothing ELSE ParentOf(below)
    IN  at

DescendsFrom(candidate, ancestor) ==
    \E d \in DOMAIN Lineage(candidate) : Lineage(candidate)[d] = ancestor

\* The type of `name` in the first of the listed traits that declares it.
FromTraits(list, name) ==
    LET declaring == {i \in DOMAIN list : /\ list[i] \in DeclaredTraits
                                          /\ trait[list[i]][name] # Nothing}
    IN  IF declaring = {} THEN Nothing
        ELSE trait[list[CHOOSE i \in declaring : \A j \in declaring : i <= j]][name]

\* declared_here_or_by_trait, for a class.
HereOrByTrait(id, name) ==
    IF class[id].properties[name] # Nothing THEN class[id].properties[name]
    ELSE FromTraits(class[id].traits, name)

\* The type of `name` at the first class of the lineage that has it: what
\* both find_declared_property and classify_property stop at.
Inherited(id, name) ==
    LET chain == Lineage(id)
        having == {d \in DOMAIN chain : /\ chain[d] # Nothing
                                        /\ HereOrByTrait(chain[d], name) # Nothing}
    IN  IF having = {} THEN Nothing
        ELSE HereOrByTrait(chain[CHOOSE d \in having : \A e \in having : d <= e], name)

-----------------------------------------------------------------------------
(* The three answers *)

\* (A mutant: objects' own declarations do not count.)
DescendantClasses(id, name) ==
    {c \in Declared \ {id} : DescendsFrom(c, id) /\ HereOrByTrait(c, name) # Nothing}

\* The classes below `id` that have the property, and the classes of the
\* objects that declared it for themselves.
Descendants(id, name) ==
    {c \in Declared \ {id} : DescendsFrom(c, id) /\ HereOrByTrait(c, name) # Nothing}
      \cup {c \in Declared : /\ [name |-> name, class |-> c] \in local_properties
                             /\ DescendsFrom(c, id)}

\* classify_property, on a slot whose type is class `id`.
Classify(name, id) ==
    IF Inherited(id, name) # Nothing THEN "Present"
    ELSE IF Descendants(id, name) # {} THEN "Maybe" ELSE "Absent"

-----------------------------------------------------------------------------
(* A program, one declaration at a time *)

Init ==
    /\ class = [id \in Ids |-> Nothing]
    /\ trait = [id \in TraitIds |-> Nothing]
    /\ object = [o \in Objects |-> Nothing]
    /\ local_properties = {}

\* A declaration the registry has accepted: a second root was demoted, and
\* the root writes no parent.
DeclareClass(id, decl) ==
    /\ class[id] = Nothing
    /\ decl.root => decl.of_class = Nothing /\ RootClass = Nothing
    /\ class' = [class EXCEPT ![id] = decl]
    /\ UNCHANGED <<trait, object, local_properties>>

DeclareTrait(id, properties) ==
    /\ trait[id] = Nothing
    /\ trait' = [trait EXCEPT ![id] = properties]
    /\ UNCHANGED <<class, object, local_properties>>

\* An instantiation of a declared class: the object is stored, or superseded
\* whole, and each property it declares is noted beside the class.
Instantiate(o, decl) ==
    /\ decl.class \in Declared
    /\ object' = [object EXCEPT ![o] = decl]
    /\ local_properties' = local_properties \cup
                             {[name |-> n, class |-> decl.class] : n \in decl.local}
    /\ UNCHANGED <<class, trait>>

Next ==
    \/ \E id \in Ids, decl \in ClassDecl : DeclareClass(id, decl)
    \/ \E id \in TraitIds, properties \in Properties : DeclareTrait(id, properties)
    \/ \E o \in Objects, decl \in ObjectDecl : Instantiate(o, decl)

Spec == Init /\ [][Next]_vars

-----------------------------------------------------------------------------
(* What an object has, from the specification of the language *)

InheritsFrom(id, parent) ==
    \/ class[id].of_class = parent
    \/ class[id].of_class = Nothing /\ class[parent].root /\ parent # id

\* The classes reachable from `id` by inheritance, however long the way: the
\* least set that holds `id` and whatever a member inherits from.
Ancestors(id) ==
    {a \in Declared : \A S \in SUBSET Declared :
        (id \in S /\ \A c \in S, d \in Declared : InheritsFrom(c, d) => d \in S)
            => a \in S}

ClassHas(id, name) ==
    \E a \in Ancestors(id) :
        \/ class[a].properties[name] # Nothing
        \/ \E i \in DOMAIN class[a].traits :
              /\ class[a].traits[i] \in DeclaredTraits
              /\ trait[class[a].traits[i]][name] # Nothing

ObjectHas(o, name) ==
    \/ name \in object[o].local
    \/ FromTraits(object[o].traits, name) # Nothing
    \/ ClassHas(object[o].class, name)

Made == {o \in Objects : object[o] # Nothing}

-----------------------------------------------------------------------------
(* Properties *)

\* A read that is called definitely present compiles to a direct access, so
\* every class and every object that can be in the slot has the property,
\* also below a cycle of parents and below a parent nobody declared.
PresentSound ==
    \A id \in Declared, name \in Names : Classify(name, id) = "Present" =>
        /\ \A c \in Declared : id \in Ancestors(c) => ClassHas(c, name)
        /\ \A o \in Made : id \in Ancestors(object[o].class) => ObjectHas(o, name)

\* A read is rejected as definitely absent only when no class that descends
\* from the slot's has the property and no object of one declares it.
AbsentSound ==
    \A id \in Declared, name \in Names : Classify(name, id) = "Absent" =>
        /\ \A c \in Declared : id \in Ancestors(c) => ~ClassHas(c, name)
        /\ \A o \in Made :
             id \in Ancestors(object[o].class) => name \notin object[o].local

\* The full claim of spec 8.8.2 for slots typed by a class: nothing that can
\* be in the slot has the property, traits mixed into an object included.
AbsentFromObjects ==
    \A id \in Declared, name \in Names : Classify(name, id) = "Absent" =>
        \A o \in Made : id \in Ancestors(object[o].class) => ~ObjectHas(o, name)

AnswersOnlyRise ==
    \A id \in Declared, name \in Names :
        LET before == Classify(name, id)
            after == Classify(name, id)'
        IN before # after => before = "Absent" \/ <<before, after>> = <<"Maybe", "Present">>

\* Declaring more never takes a property away: a read that was sound before
\* another file was loaded is sound after it, and a rejected read can only
\* become a permitted one.
Monotone == [][AnswersOnlyRise]_vars
=============================================================================
