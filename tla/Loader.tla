------------------------------- MODULE Loader -------------------------------
(***************************************************************************)
(* The passes of `fold_all` over the sources of a program, and the two     *)
(* checks that run when everything has loaded.  A program is a sequence of *)
(* groups -- core, libraries, the project -- loaded one after the other;   *)
(* a group is the sequence of its top-level statements in load order, its  *)
(* files one after the other.  Each pass visits every statement of the     *)
(* group before the next pass begins.                                      *)
(*                                                                         *)
(* A statement is a record: its key, the id it declares or extends, the    *)
(* members it declares, extends with or writes, and its annotations.  The  *)
(* key of an ordinary form or of a short-spelled instantiation is itself   *)
(* an id.                                                                  *)
(***************************************************************************)
EXTENDS SchemaSet

CONSTANTS Programs,     \* the programs to load
          UniqueIn,     \* type of a key -> its `unique_in` namespace, or NoSpace
          NoSpace,      \* the key declares no unique id
          Library       \* the form `library`, whose instances are manifests

VARIABLES program,           \* the program being loaded
          group,             \* the group being loaded
          phase,             \* how many passes of it are done
          at,                \* the next statement of the current pass
          requirements,      \* [kind, subject, members], as core declared them
          local_properties,  \* [name, class] of what objects declared themselves
          libraries,         \* the manifests: where, whose and what they list
          reports            \* what was reported, and of which statement

loading == <<program, group, phase, at>>
lists == <<requirements, local_properties, libraries>>
all == <<declarations, declaration_index, stores, index, last,
         program, group, phase, at, requirements, local_properties, libraries, reports>>

Forms == {"schema", "schema_extension", "class", "trait", "class_extension",
          "enum", "global", "core_requirement"}

\* What a core_requirement may ask for (a `form` is a schema here).
Requirable == {"schema", "class", "trait", "property", "parent"}

\* Its kind is not checked when it is read.
Requirement == [kind : Requirable \cup Ids \cup {Undeclared}, subject : Ids,
                members : Members, parent : Parents \cup {Undeclared}]

\* `id` is what a statement declares, extends, requires or instantiates as;
\* `of` an object's class, the kind core requires, or which of of_class and
\* of_trait an extension writes; `reparent` that it writes it twice.  `parent`
\* is the of_class of a class, or the parent core requires one to have, and
\* `provides` the forms a manifest lists, if it lists any.
Statement == [key : Forms \cup {"object"} \cup Ids, id : Ids,
              of : Requirable \cup Ids \cup {Undeclared}, members : Members,
              parent : Parents \cup {Undeclared}, provides : SUBSET Ids \cup {Undeclared},
              sealed : BOOLEAN, root : BOOLEAN, reparent : BOOLEAN,
              replaces : Annotations]

Group == [owner : Owners, core : BOOLEAN, statements : Seq(Statement)]

ASSUME ProgramsAssumption == Programs \subseteq Seq(Group)
ASSUME UniqueAssumption == UniqueIn \in [Types -> GenericSpaces \cup {NoSpace}]

Owner == program[group].owner
Statements == program[group].statements

-----------------------------------------------------------------------------
(* Lookups *)

IsForm(id) == id \in Ids /\ index["schema"][id] # 0
IsClass(id) == id \in Ids /\ index["class"][id] # 0

\* unique_key: the key of a form that names an instance, if it has one.
UniqueKeys(form) ==
    {n \in Names : LET type == Stored("schema", form).members[n]
                   IN  type # Undeclared /\ UniqueIn[type] # NoSpace}

SpaceOf(form) ==
    UniqueIn[Stored("schema", form).members[CHOOSE n \in UniqueKeys(form) : TRUE]]

\* The statement writes the key that names it.
WritesId(s) == \E n \in UniqueKeys(s.key) : s.members[n] # Undeclared

\* read_object_class: the class a statement instantiates, in either spelling,
\* or Undeclared.
ObjectClass(s) ==
    LET named == IF s.key = "object" THEN s.of ELSE s.key
    IN  IF IsClass(named) THEN named ELSE Undeclared

Report(s, code) == reports' = reports \cup {[group |-> group, at |-> at, code |-> code]}

\* Whatever the registry answered last is reported of the statement.
ReportAnswer(s) ==
    IF last'.answer \in {"Fresh", "Replaced", "Extended"} THEN UNCHANGED reports
    ELSE Report(s, last'.answer)

-----------------------------------------------------------------------------
(* The passes *)

\* Pass one: schemas.
ReadSchemas(s) ==
    \/ /\ s.key = "schema"
       /\ DeclareSchema(s.id, Owner, s.sealed, s.members, s.replaces)
       /\ ReportAnswer(s)
       /\ UNCHANGED lists
    \/ s.key # "schema" /\ UNCHANGED <<vars, lists, reports>>

\* fold_declaration: the forms the loader reads itself.
FoldDeclaration(s) ==
    \/ /\ \/ /\ s.key = "class"
             /\ DeclareClass(s.id, Owner, s.sealed, s.root /\ s.parent = Undeclared, s.parent,
                             s.members, s.replaces)
          \/ s.key = "trait" /\ DeclareTrait(s.id, Owner, s.sealed, s.members, s.replaces)
          \/ s.key = "enum" /\ DeclareEnum(s.id, Owner, s.sealed, s.replaces)
          \/ s.key = "global" /\ DeclareGlobal(s.id, Owner, s.replaces)
          \/ s.key = "schema_extension" /\ ApplySchemaExtension(s.id, s.members)
          \/ /\ s.key = "class_extension" /\ s.of \in {"class", "trait"}
             /\ ApplyExtension(s.of, s.id, s.reparent, s.members)
       /\ ReportAnswer(s)
       /\ UNCHANGED lists
    \/ /\ s.key = "class_extension" /\ s.of \notin {"class", "trait"}
       /\ UNCHANGED <<vars, lists, reports>>
    \/ /\ s.key = "core_requirement" /\ program[group].core
       /\ requirements' = Append(requirements, [kind |-> s.of, subject |-> s.id,
                                                members |-> s.members, parent |-> s.parent])
       /\ UNCHANGED <<vars, local_properties, libraries, reports>>
    \/ /\ s.key = "core_requirement" /\ ~program[group].core
       /\ Report(s, "CoreReserved")
       /\ UNCHANGED <<vars, lists>>

\* collect_library_manifest
CollectManifest(s) ==
    /\ libraries' = IF s.key = Library
                    THEN Append(libraries, [group |-> group, at |-> at, owner |-> Owner,
                                            provides |-> s.provides])
                    ELSE libraries
    /\ UNCHANGED <<requirements, local_properties>>

\* (A mutant: `object` is read like any other form.)
FoldDeclarationsTwice(s) ==
    \/ s.key \in Forms \ {"schema"} /\ FoldDeclaration(s)
    \/ s.key = "object" /\ DeclareObject(s.id, Owner, s.replaces) /\ ReportAnswer(s)
       /\ UNCHANGED lists
    \/ s.key \in Ids /\ CollectManifest(s) /\ UNCHANGED <<vars, reports>>
    \/ s.key = "schema" /\ UNCHANGED <<vars, lists, reports>>

\* Pass two: every other declaration.  The instance of a form is offered in
\* the namespace of the form's unique key; `object` is left to pass three.
FoldDeclarations(s) ==
    \/ s.key \in Forms \ {"schema"} /\ FoldDeclaration(s)
    \/ /\ IsForm(s.key) /\ WritesId(s)
       /\ OfferGeneric(SpaceOf(s.key), s.id, Owner, s.replaces)
       /\ ReportAnswer(s)
       /\ CollectManifest(s)
    \/ /\ s.key \in Ids /\ ~(IsForm(s.key) /\ WritesId(s))
       /\ CollectManifest(s)
       /\ UNCHANGED <<vars, reports>>
    \/ s.key \in {"schema", "object"} /\ UNCHANGED <<vars, lists, reports>>

\* (A mutant: an object is stored without an offer.)
NoteObjectsUngated(s) ==
    \/ /\ ObjectClass(s) # Undeclared
       /\ Put([kind |-> "object", id |-> s.id, owner |-> Owner, sealed |-> FALSE,
               root |-> FALSE, parent |-> Undeclared, members |-> NoMembers])
       /\ UNCHANGED <<declarations, declaration_index, last, lists, reports>>
    \/ ObjectClass(s) = Undeclared /\ UNCHANGED <<vars, lists, reports>>

\* Pass three: objects.  What an object declares for itself is noted whatever
\* became of the object.
NoteObjects(s) ==
    \/ /\ ObjectClass(s) # Undeclared
       /\ DeclareObject(s.id, Owner, s.replaces)
       /\ ReportAnswer(s)
       /\ local_properties' = local_properties \cup
            {[name |-> n, class |-> ObjectClass(s)] :
                n \in {n \in Names : s.members[n] # Undeclared}}
       /\ UNCHANGED <<requirements, libraries>>
    \/ ObjectClass(s) = Undeclared /\ UNCHANGED <<vars, lists, reports>>

\* Pass four: check_top_level.  An unknown key is reported, and the reference
\* `object` makes to its class is resolved in the ledger (check_reference).
\* Every form of a program may stand at the top level here; what is said of
\* one that may not, and of a value, is in Blocks (TopReports).
CheckTopLevel(s) ==
    /\ \/ s.key \in Ids /\ ~IsForm(s.key) /\ ~IsClass(s.key) /\ Report(s, "UnknownKey")
       \/ s.key = "object" /\ s.of \notin Ids /\ Report(s, "KeyMissing")
       \/ s.key = "object" /\ s.of \in Ids /\ At("class", s.of) = 0 /\ Report(s, "RefUnresolved")
       \/ /\ s.key \in Ids => IsForm(s.key) \/ IsClass(s.key)
          /\ s.key = "object" => s.of \in Ids /\ At("class", s.of) # 0
          /\ UNCHANGED reports
    /\ UNCHANGED <<vars, lists>>

\* (Mutants: objects before declarations, and checks before objects.)
ObjectsEarly == <<"schemas", "objects", "declarations", "checks">>
ChecksEarly == <<"schemas", "checks", "declarations", "objects">>

Passes == <<"schemas", "declarations", "objects", "checks">>

Visit ==
    /\ group <= Len(program) /\ phase < Len(Passes) /\ at <= Len(Statements)
    /\ LET s == Statements[at]
       IN  \/ Passes[phase + 1] = "schemas" /\ ReadSchemas(s)
           \/ Passes[phase + 1] = "declarations" /\ FoldDeclarations(s)
           \/ Passes[phase + 1] = "objects" /\ NoteObjects(s)
           \/ Passes[phase + 1] = "checks" /\ CheckTopLevel(s)
    /\ at' = at + 1
    /\ UNCHANGED <<program, group, phase>>

NextPass ==
    /\ group <= Len(program) /\ phase < Len(Passes) /\ at > Len(Statements)
    /\ phase' = phase + 1
    /\ at' = 1
    /\ UNCHANGED <<program, group, vars, lists, reports>>

NextGroup ==
    /\ group <= Len(program) /\ phase = Len(Passes)
    /\ group' = group + 1 /\ phase' = 0
    /\ UNCHANGED <<program, at, vars, lists, reports>>

\* find_class_or_trait: the namespace a bare class name is found in.
NamespaceOf(id) == IF index["class"][id] # 0 THEN "class" ELSE "trait"

\* A form, class or trait that core requires exists and is sealed.
KindUnmet(r) ==
    \/ index[r.kind][r.subject] = 0
    \/ ~Stored(r.kind, r.subject).sealed

\* A property that core requires is declared, at the type it requires.
PropertyUnmet(r) ==
    \/ index[NamespaceOf(r.subject)][r.subject] = 0
    \/ \E n \in Names : /\ r.members[n] # Undeclared
                         /\ Stored(NamespaceOf(r.subject), r.subject).members[n] # r.members[n]

\* A class that core requires to derive from another names it as its parent.
ParentUnmet(r) ==
    \/ index[NamespaceOf(r.subject)][r.subject] = 0
    \/ Stored(NamespaceOf(r.subject), r.subject).parent # r.parent

\* check_requirements, over the whole registry.
Unmet(r) ==
    CASE r.kind = "property" -> PropertyUnmet(r)
      [] r.kind = "parent" -> ParentUnmet(r)
      [] OTHER -> KindUnmet(r)

Failure(r) == IF r.kind \notin Requirable THEN "SchemaInvalid"
              ELSE IF Unmet(r) THEN "CoreRequirement" ELSE "none"

CheckRequirements ==
    /\ group = Len(program) + 1 /\ phase = 0
    /\ phase' = 1
    /\ reports' = reports \cup
         {[group |-> 0, at |-> p, code |-> Failure(requirements[p])] :
             p \in {p \in DOMAIN requirements : Failure(requirements[p]) # "none"}}
    /\ UNCHANGED <<program, group, at, vars, lists>>

\* The forms a library has: those in the registry that are its own.
FormsOf(owner) == {d.id : d \in {stores["schemas"][i] : i \in {i \in DOMAIN stores["schemas"] :
                                                                stores["schemas"][i].owner = owner}}}

\* A manifest that lists a form the library does not have, or has one it
\* does not list.
Mismatched(m) == m.provides # Undeclared /\ m.provides # FormsOf(m.owner)

\* check_library_manifests
CheckLibraryManifests ==
    /\ group = Len(program) + 1 /\ phase = 1
    /\ phase' = 2
    /\ reports' = reports \cup
         {[group |-> libraries[p].group, at |-> libraries[p].at, code |-> "ProvidesMismatch"] :
             p \in {p \in DOMAIN libraries : Mismatched(libraries[p])}}
    /\ UNCHANGED <<program, group, at, vars, lists>>

Loaded == group = Len(program) + 1 /\ phase = 2

LoadInit ==
    /\ Init
    /\ program \in Programs
    /\ group = 1 /\ phase = 0 /\ at = 1
    /\ requirements = <<>> /\ local_properties = {} /\ libraries = <<>> /\ reports = {}

LoadNext ==
    \/ Visit \/ NextPass \/ NextGroup
    \/ CheckRequirements \/ CheckLibraryManifests
    \/ (Loaded /\ UNCHANGED all)

LoadSpec == LoadInit /\ [][LoadNext]_all

-----------------------------------------------------------------------------
(* Properties *)

Positions == UNION {{<<g, i>> : i \in DOMAIN program[g].statements} : g \in DOMAIN program}
StatementAt(p) == program[p[1]].statements[p[2]]
Before(p, q) == p[1] < q[1] \/ (p[1] = q[1] /\ p[2] < q[2])

Reported(p, codes) ==
    \E r \in reports : <<r.group, r.at>> = p /\ r.code \in codes

Codes == Answers \cup
    {"CoreReserved", "UnknownKey", "KeyMissing", "RefUnresolved", "CoreRequirement", "ProvidesMismatch"}

\* Type correctness of a load, the registry included.
LoadTypeOK ==
    /\ TypeOK
    /\ group \in 1..(Len(program) + 1)
    /\ phase \in 0..Len(Passes)
    /\ requirements \in Seq(Requirement)
    /\ local_properties \subseteq [name : Names, class : Ids]
    /\ \A r \in reports : r.code \in Codes

\* "A reference may name something declared later in the same file, or in a
\* file that sorts after it" (spec 13.2): nothing is reported unknown that
\* this group or an earlier one declares, wherever the declaration stands,
\* and an extension of a form finds it.
ForwardReferencesResolve ==
    \A p, q \in Positions :
        LET s == StatementAt(p)
            d == StatementAt(q)
        IN  (q[1] <= p[1] /\ d.replaces = NoReplaces) =>
              /\ (d.key \in {"schema", "class"} /\ d.id = s.key) =>
                    ~Reported(p, {"UnknownKey"})
              /\ (d.key = "class" /\ s.key = "object" /\ d.id = s.of) =>
                    ~Reported(p, {"RefUnresolved"})
              /\ (d.key = "schema" /\ s.key = "schema_extension" /\ d.id = s.id) =>
                    ~Reported(p, {"SchemaInvalid"})

\* When a group's statements are checked, every instantiation in it has been
\* stored or refused, also one that stands before its class.
ObjectsComplete ==
    (group <= Len(program) /\ phase = 3) =>
        \A i \in DOMAIN Statements :
            ObjectClass(Statements[i]) # Undeclared =>
                \/ index["object"][Statements[i].id] # 0
                \/ Reported(<<group, i>>, Refusals)

\* The namespace a statement declares its id in, when it declares one.
Namespace(s) ==
    IF s.key \in {"schema", "class", "trait", "enum", "global"} THEN s.key
    ELSE IF IsForm(s.key) /\ WritesId(s) THEN SpaceOf(s.key)
    ELSE IF ObjectClass(s) # Undeclared THEN "object"
    ELSE NoSpace

\* A statement that was understood when its group was checked.
DeclaresId(p) ==
    /\ Namespace(StatementAt(p)) # NoSpace
    /\ ~Reported(p, {"UnknownKey", "RefUnresolved"})

Redeclares(p) ==
    \E q \in Positions :
        /\ Before(q, p) /\ DeclaresId(q)
        /\ Namespace(StatementAt(q)) = Namespace(StatementAt(p))
        /\ StatementAt(q).id = StatementAt(p).id

\* Of a program without @replaces, exactly the second and later declarations
\* of an id in its namespace are reported (spec 7.6): in whatever pass each
\* is read, none is missed and none is reported as its own duplicate.
DuplicatesReported ==
    (Loaded /\ \A p \in Positions : StatementAt(p).replaces = NoReplaces) =>
        \A p \in {p \in Positions : DeclaresId(p)} :
            Redeclares(p) <=> Reported(p, {"SchemaDuplicate", "SchemaSealed"})

\* A form belongs to whoever declared or superseded it last.
LastDeclared(q) ==
    /\ StatementAt(q).key = "schema" /\ ~Reported(q, Refusals)
    /\ \A p \in Positions : (/\ Before(q, p) /\ StatementAt(p).key = "schema"
                              /\ StatementAt(p).id = StatementAt(q).id) => Reported(p, Refusals)

\* A manifest is reported if and only if what it lists are not the forms that
\* belong to its library when all has loaded (spec 13.3), in whatever group
\* and order they were declared, and whatever became of the manifest.
ManifestsChecked ==
    Loaded => \A p \in Positions :
        LET s == StatementAt(p)
            owned == {q \in Positions : LastDeclared(q) /\ program[q[1]].owner = program[p[1]].owner}
        IN  Reported(p, {"ProvidesMismatch"})
              <=> /\ s.key = Library /\ s.provides # Undeclared
                  /\ s.provides # {StatementAt(q).id : q \in owned}

\* What can only be said of a whole program is said exactly where it is so.
ReportedExactly == DuplicatesReported /\ ManifestsChecked

\* An instance that writes its form's unique key is in the ledger once its
\* group has been declared.
UniqueIdsRegistered ==
    (group <= Len(program) /\ phase = 3) =>
        \A i \in DOMAIN Statements :
            LET s == Statements[i]
            IN  (IsForm(s.key) /\ WritesId(s)) =>
                    At(SpaceOf(s.key), s.id) # 0 \/ Reported(<<group, i>>, Refusals)

Requirements == {r \in {requirements[p] : p \in DOMAIN requirements} : r.kind \in Requirable}

\* A requirement about what a class or trait says.
OfMember(r) == r.kind \in {"property", "parent"}

\* What the requirement is about is sealed.
SubjectSealed(r) ==
    LET kind == IF OfMember(r) THEN NamespaceOf(r.subject) ELSE r.kind
    IN  index[kind][r.subject] # 0 /\ Stored(kind, r.subject).sealed

RequirementStep ==
    \A r \in Requirements :
        (~Unmet(r) /\ SubjectSealed(r) /\ (OfMember(r) => IsClass(r.subject))) => ~Unmet(r)'

\* Core's requirements are about sealed declarations, so once one is met
\* nothing a library or a project loads can make it unmet (spec 7.2.2):
\* neither a replacement nor an extension reaches it.  Of a property or a
\* parent this is said for classes only; see TraitPropertiesStay.
MetStaysMet == [][RequirementStep]_all

TraitPropertyStep ==
    \A r \in Requirements :
        (~Unmet(r) /\ SubjectSealed(r) /\ r.kind = "property") => ~Unmet(r)'

\* The same for the properties of traits, `busy_until` of `starcore.actor`
\* among them: "a library may extend them; it cannot redefine, retype or
\* remove them" (spec 7.2.2).
TraitPropertiesStay == [][TraitPropertyStep]_all
=============================================================================
