------------------------------ MODULE SchemaSet ------------------------------
(***************************************************************************)
(* The registry every load folds its declarations into (class SchemaSet of *)
(* libs/stardata).  A declaration first passes the gate `offer`, which     *)
(* keeps one ledger entry per (namespace, id); what the gate accepts is    *)
(* stored in a vector in declaration order with a hash index beside it.    *)
(* Classes and traits share one vector and have one index each.            *)
(*                                                                         *)
(* Index values are positions in the vector beside them, and 0 means that  *)
(* the map holds no such key.  A declaration's members are the keys of a   *)
(* schema or the properties of a class or trait; the shape of a member is  *)
(* a value of Types, compared as the code's `same_as` compares it.         *)
(***************************************************************************)
EXTENDS Naturals, Sequences

CONSTANTS Ids,              \* what a declaration may be called
          Owners,           \* library ids, the values of LoadOptions::owner
          Names,            \* names of keys and properties
          Types,            \* shapes a key or a property may have
          Parents,          \* what `of_class` may name
          GenericSpaces,    \* `unique_in` namespaces of ordinary forms
          NoReplaces,       \* the declaration carries no @replaces
          Undeclared,       \* the member is not declared
          MaxDeclarations   \* bound on the ledger, for model checking

Kinds == {"schema", "class", "trait", "enum", "global", "object"}
Spaces == Kinds \cup GenericSpaces
Stores == {"schemas", "classes", "enums", "globals", "objects"}

ASSUME SentinelAssumption == NoReplaces \notin Owners /\ Undeclared \notin Types
ASSUME BoundAssumption == MaxDeclarations \in Nat

VARIABLES declarations,       \* the ledger, in the order ids were first offered
          declaration_index,  \* (space, id) -> position in declarations
          stores,             \* schemas_, classes_, enums_, globals_, objects_
          index,              \* kind -> id -> position in that kind's store
          last                \* what the last call returned or reported

registry == <<declarations, declaration_index, stores, index>>
vars == <<declarations, declaration_index, stores, index, last>>

-----------------------------------------------------------------------------
(* Types *)

Members == [Names -> Types \cup {Undeclared}]
NoMembers == [n \in Names |-> Undeclared]

StoreOf(kind) ==
    CASE kind = "schema" -> "schemas"
      [] kind \in {"class", "trait"} -> "classes"
      [] kind = "enum" -> "enums"
      [] kind = "global" -> "globals"
      [] kind = "object" -> "objects"

Declaration == [space : Spaces, id : Ids, owner : Owners, sealed : BOOLEAN]

Decl == [kind : Kinds, id : Ids, owner : Owners, sealed : BOOLEAN,
         root : BOOLEAN, parent : Parents \cup {Undeclared}, members : Members]

Refusals == {"SchemaInvalid", "SchemaSealed", "SchemaDuplicate"}
Answers == {"none", "Fresh", "Replaced", "Extended", "PropDefTypeMismatch",
            "CoreReparent"} \cup Refusals

-----------------------------------------------------------------------------
(* Lookups *)

At(space, id) == declaration_index[<<space, id>>]
Existing(space, id) == declarations[At(space, id)]
Stored(kind, id) == stores[StoreOf(kind)][index[kind][id]]

\* root_class: the first class in declaration order that is marked root.
IsRootClass(i) ==
    /\ i \in DOMAIN stores["classes"]
    /\ stores["classes"][i].root
    /\ \A j \in 1..(i - 1) : ~stores["classes"][j].root

-----------------------------------------------------------------------------
(* The gate *)

\* (A mutant of the gate: a sealed declaration may be replaced.)
VerdictUnsealed(d, replaces) ==
    LET at == At(d.space, d.id)
    IN  IF at = 0 THEN IF replaces = NoReplaces THEN "Fresh" ELSE "SchemaInvalid"
        ELSE IF replaces = NoReplaces THEN "SchemaDuplicate"
        ELSE IF declarations[at].owner = replaces THEN "Replaced" ELSE "SchemaInvalid"

Verdict(d, replaces) ==
    LET at == At(d.space, d.id)
        sealed == at # 0 /\ declarations[at].sealed
        owned == at # 0 /\ declarations[at].owner = replaces
    IN  IF replaces # NoReplaces
        THEN IF ~owned THEN "SchemaInvalid"
             ELSE IF sealed THEN "SchemaSealed" ELSE "Replaced"
        ELSE IF at = 0 THEN "Fresh"
             ELSE IF sealed THEN "SchemaSealed" ELSE "SchemaDuplicate"

Offer(d, replaces) ==
    /\ last' = [answer |-> Verdict(d, replaces), named |-> replaces]
    /\ \/ /\ Verdict(d, replaces) = "Fresh"
          /\ Len(declarations) < MaxDeclarations
          /\ declaration_index' = [declaration_index EXCEPT
                                     ![<<d.space, d.id>>] = Len(declarations) + 1]
          /\ declarations' = Append(declarations, d)
       \/ /\ Verdict(d, replaces) = "Replaced"
          /\ declarations' = [declarations EXCEPT ![At(d.space, d.id)] = d]
          /\ UNCHANGED declaration_index
       \/ /\ Verdict(d, replaces) \in Refusals
          /\ UNCHANGED <<declarations, declaration_index>>

\* (A mutant: the position is taken after the append.)
PutOffByOne(decl) ==
    LET store == StoreOf(decl.kind)
    IN  /\ index[decl.kind][decl.id] = 0
        /\ stores' = [stores EXCEPT ![store] = Append(@, decl)]
        /\ index' = [index EXCEPT ![decl.kind][decl.id] = Len(stores[store]) + 2]

\* Overwrites the stored declaration of that id, or appends it and indexes it.
Put(decl) ==
    LET store == StoreOf(decl.kind)
        at == index[decl.kind][decl.id]
    IN  \/ /\ at # 0
           /\ stores' = [stores EXCEPT ![store][at] = decl]
           /\ UNCHANGED index
        \/ /\ at = 0
           /\ stores' = [stores EXCEPT ![store] = Append(@, decl)]
           /\ index' = [index EXCEPT ![decl.kind][decl.id] = Len(stores[store]) + 1]

Entry(decl) == [space |-> decl.kind, id |-> decl.id,
                owner |-> decl.owner, sealed |-> decl.sealed]

\* (A mutant: the answer of the gate is ignored.)
DeclareUnchecked(decl, replaces) == Offer(Entry(decl), replaces) /\ Put(decl)

\* What every declare_* does: offer, and store `decl` unless refused.
Declare(decl, replaces) ==
    /\ Offer(Entry(decl), replaces)
    /\ \/ Verdict(Entry(decl), replaces) \notin Refusals /\ Put(decl)
       \/ Verdict(Entry(decl), replaces) \in Refusals /\ UNCHANGED <<stores, index>>

-----------------------------------------------------------------------------
(* Operations *)

DeclareSchema(id, owner, sealed, members, replaces) ==
    Declare([kind |-> "schema", id |-> id, owner |-> owner, sealed |-> sealed,
             root |-> FALSE, parent |-> Undeclared, members |-> members], replaces)

\* (A mutant: only the class declared last is looked at.)
DemotedByLast(id, root) ==
    LET classes == stores["classes"]
    IN  /\ root
        /\ classes # <<>>
        /\ classes[Len(classes)].root
        /\ classes[Len(classes)].id # id

\* A second root is reported and demoted, and stored all the same.
Demoted(id, root) ==
    root /\ \E i \in DOMAIN stores["classes"] :
              IsRootClass(i) /\ stores["classes"][i].id # id

DeclareClass(id, owner, sealed, root, parent, members, replaces) ==
    Declare([kind |-> "class", id |-> id, owner |-> owner, sealed |-> sealed,
             root |-> root /\ ~Demoted(id, root),
             parent |-> parent, members |-> members], replaces)

\* A trait is never a root and has no parent: read_class refuses both.
DeclareTrait(id, owner, sealed, members, replaces) ==
    Declare([kind |-> "trait", id |-> id, owner |-> owner, sealed |-> sealed,
             root |-> FALSE, parent |-> Undeclared, members |-> members], replaces)

DeclareEnum(id, owner, sealed, replaces) ==
    Declare([kind |-> "enum", id |-> id, owner |-> owner, sealed |-> sealed,
             root |-> FALSE, parent |-> Undeclared, members |-> NoMembers], replaces)

DeclareGlobal(id, owner, replaces) ==
    Declare([kind |-> "global", id |-> id, owner |-> owner, sealed |-> FALSE,
             root |-> FALSE, parent |-> Undeclared, members |-> NoMembers], replaces)

DeclareObject(id, owner, replaces) ==
    Declare([kind |-> "object", id |-> id, owner |-> owner, sealed |-> FALSE,
             root |-> FALSE, parent |-> Undeclared, members |-> NoMembers], replaces)

\* note_generic_declaration: an ordinary form's id is only offered.
OfferGeneric(space, id, owner, replaces) ==
    /\ Offer([space |-> space, id |-> id, owner |-> owner, sealed |-> FALSE], replaces)
    /\ UNCHANGED <<stores, index>>

\* Members an extension brings in that are already declared otherwise.
Clash(old, new) ==
    \E n \in Names : /\ old[n] # Undeclared
                     /\ new[n] # Undeclared
                     /\ old[n] # new[n]

\* (A mutant: the extension wins.)
MergeOverriding(old, new) ==
    [n \in Names |-> IF new[n] = Undeclared THEN old[n] ELSE new[n]]

Merge(old, new) == [n \in Names |-> IF old[n] = Undeclared THEN new[n] ELSE old[n]]

\* The loop adds each absent member even when another one of the same
\* extension is refused.
ExtendMembers(kind, id, new) ==
    stores' = [stores EXCEPT ![StoreOf(kind)][index[kind][id]].members = Merge(@, new)]

ApplySchemaExtension(id, new) ==
    /\ \/ /\ index["schema"][id] = 0
          /\ last' = [answer |-> "SchemaInvalid", named |-> NoReplaces]
          /\ UNCHANGED stores
       \/ /\ index["schema"][id] # 0
          /\ last' = [answer |-> IF Clash(Stored("schema", id).members, new)
                                 THEN "PropDefTypeMismatch" ELSE "Extended",
                      named |-> NoReplaces]
          /\ ExtendMembers("schema", id, new)
    /\ UNCHANGED <<declarations, declaration_index, index>>

\* `kind` is the namespace of_class or of_trait searches; `reparent` is an
\* extension that also writes a parent.
ApplyExtension(kind, id, reparent, new) ==
    /\ \/ /\ index[kind][id] = 0
          /\ last' = [answer |-> "SchemaInvalid", named |-> NoReplaces]
          /\ UNCHANGED stores
       \/ /\ index[kind][id] # 0
          /\ last' = [answer |-> IF Clash(Stored(kind, id).members, new)
                                 THEN "PropDefTypeMismatch"
                                 ELSE IF reparent THEN "CoreReparent" ELSE "Extended",
                      named |-> NoReplaces]
          /\ ExtendMembers(kind, id, new)
    /\ UNCHANGED <<declarations, declaration_index, index>>

-----------------------------------------------------------------------------
(* Specification *)

Init ==
    /\ declarations = <<>>
    /\ declaration_index = [k \in Spaces \X Ids |-> 0]
    /\ stores = [s \in Stores |-> <<>>]
    /\ index = [k \in Kinds |-> [i \in Ids |-> 0]]
    /\ last = [answer |-> "none", named |-> NoReplaces]

Annotations == Owners \cup {NoReplaces}

\* read_class reads no `root` from a class that has a parent.
Rootness(parent) == {parent = Undeclared, FALSE}

DeclareWithMembers(id, owner, replaces) ==
    \E sealed \in BOOLEAN, members \in Members :
        \/ DeclareSchema(id, owner, sealed, members, replaces)
        \/ \E parent \in Parents \cup {Undeclared} : \E root \in Rootness(parent) :
               DeclareClass(id, owner, sealed, root, parent, members, replaces)
        \/ DeclareTrait(id, owner, sealed, members, replaces)

DeclareWithoutMembers(id, owner, replaces) ==
    \/ \E sealed \in BOOLEAN : DeclareEnum(id, owner, sealed, replaces)
    \/ DeclareGlobal(id, owner, replaces)
    \/ DeclareObject(id, owner, replaces)
    \/ \E space \in GenericSpaces : OfferGeneric(space, id, owner, replaces)

Extend(id, members) ==
    \/ ApplySchemaExtension(id, members)
    \/ \E kind \in {"class", "trait"}, reparent \in BOOLEAN :
           ApplyExtension(kind, id, reparent, members)

Next ==
    \E id \in Ids :
        \/ \E owner \in Owners, replaces \in Annotations :
               \/ DeclareWithMembers(id, owner, replaces)
               \/ DeclareWithoutMembers(id, owner, replaces)
        \/ \E members \in Members : Extend(id, members)

Spec == Init /\ [][Next]_vars

-----------------------------------------------------------------------------
(* Properties *)

LedgerTypeOK ==
    /\ declarations \in Seq(Declaration)
    /\ declaration_index \in [Spaces \X Ids -> Nat]
    /\ \A s \in Spaces, i \in Ids : At(s, i) \in 0..Len(declarations)

StoresTypeOK ==
    /\ stores \in [Stores -> Seq(Decl)]
    /\ index \in [Kinds -> [Ids -> Nat]]
    /\ \A k \in Kinds, i \in Ids : index[k][i] \in 0..Len(stores[StoreOf(k)])

\* Type correctness of the registry: every index value is 0 or a position of
\* the vector it indexes, and every entry is a complete record.
TypeOK ==
    /\ LedgerTypeOK
    /\ StoresTypeOK
    /\ last \in [answer : Answers, named : Annotations]

\* declaration_index finds every ledger entry and nothing else, so no
\* (namespace, id) is ever declared twice and a lookup never returns another
\* declaration's entry.
LedgerIndexed ==
    /\ \A s \in Spaces, i \in Ids :
         At(s, i) # 0 => Existing(s, i).space = s /\ Existing(s, i).id = i
    /\ \A p \in DOMAIN declarations :
         At(declarations[p].space, declarations[p].id) = p

\* The same of each store; for the vector classes and traits share it says
\* that a class lookup never returns a trait, nor the reverse.
StoresIndexed ==
    /\ \A k \in Kinds, i \in Ids :
         index[k][i] # 0 => Stored(k, i).kind = k /\ Stored(k, i).id = i
    /\ \A s \in Stores : \A p \in DOMAIN stores[s] :
         /\ StoreOf(stores[s][p].kind) = s
         /\ index[stores[s][p].kind][stores[s][p].id] = p

\* Whatever is stored went through the gate: it has a ledger entry in its
\* own namespace.
StoredIsDeclared ==
    \A k \in Kinds, i \in Ids : index[k][i] # 0 => At(k, i) # 0

\* The ledger and the store agree about who owns a declaration and whether
\* it is sealed, whichever of the two a caller asks.
LedgerMatchesStores ==
    \A k \in Kinds, i \in Ids :
        index[k][i] # 0 => /\ At(k, i) # 0
                           /\ Existing(k, i).owner = Stored(k, i).owner
                           /\ Existing(k, i).sealed = Stored(k, i).sealed

\* At most one declaration in the program is marked root, and it is a class
\* (spec 8.1.1): what a class without of_class descends from does not depend
\* on load order.
OneRoot ==
    \A p, q \in DOMAIN stores["classes"] :
        stores["classes"][p].root =>
            /\ stores["classes"][p].kind = "class"
            /\ stores["classes"][q].root => p = q

\* The registry is consistent: no lookup, by ledger or by store, in the
\* vector classes and traits share least of all, ever answers for another key,
\* nothing was stored past the gate, and one root survives every order of
\* declarations, replacements and refusals.
Consistent == LedgerIndexed /\ StoresIndexed /\ StoredIsDeclared /\ OneRoot

SealedStep ==
    \A s \in Spaces, i \in Ids :
        (At(s, i) # 0 /\ Existing(s, i).sealed) =>
            /\ declaration_index'[<<s, i>>] # 0
            /\ Existing(s, i)' = Existing(s, i)
            /\ (s \in Kinds /\ index[s][i] # 0) =>
                 /\ Stored(s, i)'.parent = Stored(s, i).parent
                 /\ \A n \in Names :
                       Stored(s, i).members[n] # Undeclared =>
                           Stored(s, i)'.members[n] = Stored(s, i).members[n]

\* Sealed means extend freely, never supersede (spec 7.2.2): no sequence of
\* offers, replacements and extensions changes the owner of a sealed
\* declaration, unseals it, gives it another parent, or retypes or removes one
\* of its members.
SealedForever == [][SealedStep]_vars

RetypeStep ==
    \A k \in Kinds, i \in Ids :
        index[k][i] # 0 =>
            \/ /\ Stored(k, i)'.owner = Stored(k, i).owner
               /\ Stored(k, i)'.parent = Stored(k, i).parent
               /\ \A n \in Names : Stored(k, i).members[n] \in
                                     {Undeclared, Stored(k, i)'.members[n]}
            \/ /\ last'.answer = "Replaced"
               /\ last'.named = Stored(k, i).owner

\* A stored declaration changes hands or parents, or loses or retypes a member, only
\* when a declaration whose @replaces names its present owner supersedes it
\* (spec 7.6, 8.2).
RetypedOnlyByReplacement == [][RetypeStep]_vars

\* Both: what a declaration says is taken back by a matching @replaces alone,
\* and by nothing once it is sealed.
Superseding == SealedForever /\ RetypedOnlyByReplacement

\* What each key is held by: the entry its index finds.
Holder == [k \in Spaces \X Ids |->
             IF declaration_index[k] = 0 THEN Undeclared
             ELSE [owner |-> declarations[declaration_index[k]].owner,
                   sealed |-> declarations[declaration_index[k]].sealed]]

Ledger == INSTANCE Ownership
    WITH Keys <- Spaces \X Ids, Free <- Undeclared, owned <- Holder

\* Every run of the registry is a run of Ownership (spec 7.6): `offer` is the
\* only way a key changes hands, whatever kind of declaration passes it.
ImplementsOwnership == Ledger!Spec
=============================================================================
