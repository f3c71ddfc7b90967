------------------------------- MODULE Blocks -------------------------------
(***************************************************************************)
(* The checks of one file whose declarations are all in the registry       *)
(* (schema/loader.cpp, types.cpp, annotation.cpp and the passes of         *)
(* starcore over objects), and of the names it shares with the other files *)
(* of its program, as an agenda: the task at its head is carried out, may  *)
(* report, and puts what it calls next before the rest.  The order is that *)
(* of the calls: annotations of the whole file, then its statements with   *)
(* everything below them, then the declared types, then placements and the *)
(* keys of objects; then globals, and then styles and localisation, over   *)
(* one file after the other.                                               *)
(***************************************************************************)
EXTENDS Names

CONSTANT Programs   \* registries with the files to check against each

\* A file is what a parser makes of so many bytes: lists of statements and
\* of scalars, in blocks that nest so deep.
IsList(s) == s \in Seq({s[i] : i \in DOMAIN s})

ValuesIn(body) == {body[i].value : i \in DOMAIN body} \ {Nothing}
Parts(v) == IF v.is = "block" THEN ValuesIn(v.body) ELSE {}
IsValue(v) ==
    /\ {"is", "notes"} \subseteq DOMAIN v /\ IsList(v.notes)
    /\ \A i \in DOMAIN v.notes : IsList(v.notes[i].args)
    /\ v.is = "block" => /\ {"body", "values"} \subseteq DOMAIN v /\ IsList(v.body) /\ IsList(v.values)
                         /\ \A i \in DOMAIN v.values : v.values[i].is = "scalar"

IsFile(f) ==
    /\ IsList(f)
    /\ \A v \in ValuesIn(f) : \A n \in 0..Nesting : \A part \in Level(v, Parts)[n] :
          IsValue(part) /\ (part.is = "block" => n < Nesting)

\* And so is a type; the form `object` is built in, and sealed as it is.
TypesIn(t) == {t.args[i] : i \in DOMAIN t.args}
IsType(t) ==
    \A n \in 0..Nesting : \A part \in Level(t, TypesIn)[n] :
       IsList(part.args) /\ (part.args # <<>> => n < Nesting)

IsRegistry(classes, traits, known_forms, known_globals) ==
    /\ \A id \in DOMAIN known_forms :
          LET keys == known_forms[id].keys
          IN  IsList(keys) /\ \A k \in DOMAIN keys : keys[k].type_of = Nothing => IsType(keys[k].type)
    /\ \A c \in Ids : classes[c] # Nothing =>
          /\ IsList(classes[c].traits)
          /\ \A n \in Names : classes[c].properties[n] # Nothing => IsType(classes[c].properties[n])
    /\ \A t \in TraitIds : traits[t] # Nothing => \A n \in Names : traits[t][n] # Nothing => IsType(traits[t][n])
    /\ \A g \in known_globals : IsType(g.type)
    /\ "object" \in DOMAIN known_forms => known_forms["object"].top_level /\ known_forms["object"].open

ASSUME NestingAssumption == Nesting \in Nat
ASSUME ProgramsAssumption ==
    \A p \in Programs :
       /\ \A f \in p.files : IsFile(f)
       /\ \A fs \in p.others : IsList(fs) /\ \A n \in DOMAIN fs : IsFile(fs[n])
       /\ IsRegistry(p.class, p.trait, p.forms, p.globals)

VARIABLES file,     \* the statements of the file
          todo,     \* what is left to be called, the next first
          reports,  \* {[code, at]}: a code and the place in the file
          others,   \* the files that are loaded after it
          uses,     \* GlobalIndex: {[id, kind, at]}
          texts,    \* TextIndex: styles, entries and the references to both
          answers   \* {[code, name, at]}: what is said of names

naming == <<others, uses, texts, answers>>
blocks == <<loaded, file, todo, reports, naming>>

Doing(what) == todo # <<>> /\ Head(todo).do = what
Task == Head(todo)

\* The task at the head reports `found` and calls `calls`.
Carry(found, calls) ==
    /\ reports' = reports \cup found
    /\ todo' = calls \o Tail(todo)
    /\ UNCHANGED <<loaded, file, naming>>

-----------------------------------------------------------------------------
(* Annotations *)

\* visit: the annotations of a value, then those of the statements in it.
VisitReports(t) ==
    IF t.statement.value = Nothing THEN {} ELSE CheckValueAnnotations(t.statement.value, t.top, t.at)

VisitCalls(t) ==
    LET v == t.statement.value
    IN  IF ~IsBlock(v) THEN <<>>
        ELSE [i \in DOMAIN v.body |->
                 [do |-> "annotations", at |-> Append(t.at, i), statement |-> v.body[i], top |-> FALSE]]

Visit ==
    /\ Doing("annotations")
    /\ Carry(VisitReports(Task), VisitCalls(Task))

-----------------------------------------------------------------------------
(* Blocks against their form *)

\* The statements that bind a key of the form that holds one value.
BindsOne(s, form) == s.op = "=" /\ HasKey(form, s.key) /\ FindKey(form, s.key).arity = "one"

Presence(s) == IF s.value = Nothing THEN {} ELSE PresenceOf(s.value)
Meet(s, t) == CanCoexist(Presence(s), Presence(t))

\* (A mutant: only the first statement with the key is remembered.)
DuplicatesOfFirst(body, form) ==
    {i \in DOMAIN body :
       /\ BindsOne(body[i], form)
       /\ \E j \in 1..(i - 1) : /\ BindsOne(body[j], form) /\ body[j].key = body[i].key
                                /\ \A k \in 1..(j - 1) : body[k].key # body[i].key
                                /\ Meet(body[i], body[j])}

\* check_arity: a statement that meets an earlier one of its key, which was
\* not reported itself, is a duplicate.
Duplicates(body, form) ==
    LET duplicate[i \in DOMAIN body] ==
            /\ BindsOne(body[i], form)
            /\ \E j \in 1..(i - 1) : /\ BindsOne(body[j], form) /\ body[j].key = body[i].key
                                     /\ ~duplicate[j]
                                     /\ Meet(body[i], body[j])
    IN  {i \in DOMAIN body : duplicate[i]}

Members(form, group) == {k \in DOMAIN form.keys : form.keys[k].group = group}
GroupsOf(form) == {form.keys[k].group : k \in DOMAIN form.keys} \ {Nothing}

\* check_exclusive_groups, for one group: the first two members that are
\* written, each at its first statement, are all that is looked at.
GroupReports(block, form, group, at) ==
    LET present == {k \in Members(form, group) : With(block, form.keys[k].name) # {}}
        place(k) == Least(With(block, form.keys[k].name))
        first == Least(present)
        second == Least(present \ {first})
    IN  CASE present = {} ->
                IF \E k \in Members(form, group) : form.keys[k].required
                THEN {Note("ExclusiveMissing", at)} ELSE {}
          [] present = {first} -> {}
          [] OTHER -> IF Meet(block.body[place(first)], block.body[place(second)])
                      THEN {Note("ExclusiveGroup", Append(at, place(second)))} ELSE {}

\* What a value is checked against: the type of its key, or the type that
\* the statement of another key spells; Nothing if none does.
Expected(block, key) == IF key.type_of = Nothing THEN key.type ELSE AsType(ValueOf(block, key.type_of))

ValueTask(v, type, at) == [do |-> "value", at |-> at, value |-> v, type |-> type]

\* The values of the statements of a block, each against its type in `types`.
ValueTasks(block, types, at) ==
    LET tasks[n \in 0..Len(block.body)] ==
            IF n = 0 THEN <<>>
            ELSE IF n \notin DOMAIN types THEN tasks[n - 1]
            ELSE Append(tasks[n - 1], ValueTask(block.body[n].value, types[n], Append(at, n)))
    IN  tasks[Len(block.body)]

\* The statements whose value is checked: of a key of the form, typed.
TypedIn(block, form) ==
    {i \in DOMAIN block.body : /\ HasKey(form, block.body[i].key) /\ block.body[i].value # Nothing
                               /\ Expected(block, FindKey(form, block.body[i].key)) # Nothing}

\* validate_block, down to the values: unknown keys, then duplicates.
BlockReports(block, form, at) ==
    {Note("UnknownKey", Append(at, i)) : i \in {i \in DOMAIN block.body : ~form.open /\ ~HasKey(form, block.body[i].key)}}
      \cup {Note("DuplicateKey", Append(at, i)) : i \in Duplicates(block.body, form)}

BlockCalls(t) ==
    LET types == [i \in TypedIn(t.block, forms[t.form]) |-> Expected(t.block, FindKey(forms[t.form], t.block.body[i].key))]
    IN  Append(ValueTasks(t.block, types, t.at), [do |-> "close", at |-> t.at, block |-> t.block, form |-> t.form])

ValidateBlock ==
    /\ Doing("block")
    /\ Carry(BlockReports(Task.block, forms[Task.form], Task.at), BlockCalls(Task))

\* The rest of it: required keys that stand in no group, then the groups.
CloseReports(block, form, at) ==
    LET missing == {k \in DOMAIN form.keys : /\ form.keys[k].required /\ form.keys[k].group = Nothing
                                             /\ With(block, form.keys[k].name) = {}}
    IN  {Note("KeyMissing", at) : k \in missing}
          \cup UNION {GroupReports(block, form, g, at) : g \in GroupsOf(form)}

CloseBlock ==
    /\ Doing("close")
    /\ Carry(CloseReports(Task.block, forms[Task.form], Task.at), <<>>)

-----------------------------------------------------------------------------
(* Values against their type *)

\* A type nobody declares, a call and `inherit` are not judged.
Unjudged(v, type) ==
    type.name \notin Builtins \/ v.is = "call" \/ IsWord(v, "inherit")

SlotType(t) == Resolve(t.type)
Judging(t, names) == ~Unjudged(t.value, SlotType(t)) /\ SlotType(t).name \in names

SkipValue ==
    /\ Doing("value") /\ Unjudged(Task.value, SlotType(Task))
    /\ Carry({}, <<>>)

PlainReports(v, type, at) ==
    IF v.is = "scalar" THEN CheckScalar(v, type, at)
    ELSE IF v.is = "type" /\ type.name = "type_expr" THEN {}
    ELSE Mismatch(at)

CheckPlainValue ==
    /\ Doing("value") /\ Judging(Task, Builtins \ BlockTypes)
    /\ Carry(PlainReports(Task.value, SlotType(Task), Task.at), <<>>)

IsRecord(v) == v.body # <<>>
IsEmpty(v) == v.body = <<>> /\ v.values = <<>>

Filled(v) == IsBlock(v) /\ ~IsEmpty(v)

\* No block at all, or an empty one, which satisfies every such type.
CheckShape ==
    /\ Doing("value") /\ Judging(Task, BlockTypes) /\ ~Filled(Task.value)
    /\ Carry(IF IsBlock(Task.value) THEN {} ELSE Mismatch(Task.at), <<>>)

\* element_type: what an entry of a collection is checked against.
Element(type) ==
    IF type.args = <<>> THEN Nothing
    ELSE IF type.name = "flags" THEN Type("enum", <<type.args[1]>>) ELSE type.args[1]

EntryReports(entry, element, at) ==
    IF element = Nothing THEN {} ELSE CheckScalar(entry, Resolve(element), at)

\* Entries of a set are told apart by what is written.
Repeated(values, i) == \E j \in 1..(i - 1) : values[j] = values[i]

Collections == {"flags", "set", "list"}

CollectionReports(v, type, at) ==
    LET element == Element(type)
        records == type.name = "list" /\ element # Nothing /\ Resolve(element).name \in BlockTypes
    IN  IF IsRecord(v) THEN IF records THEN {} ELSE Mismatch(at)
        ELSE (UNION {EntryReports(v.values[i], element, Append(at, i)) : i \in DOMAIN v.values})
               \cup {Note("TypeMismatch", Append(at, i)) :
                        i \in {i \in DOMAIN v.values : type.name = "set" /\ Repeated(v.values, i)}}

CheckCollection ==
    /\ Doing("value") /\ Judging(Task, Collections) /\ Filled(Task.value)
    /\ Carry(CollectionReports(Task.value, SlotType(Task), Task.at), <<>>)

\* A block that is looked into: with the form of `block<S>`, or as a map.
OfForm(type) == type.name = "block" /\ Len(type.args) = 1
IsMap(type) == type.name = "map" /\ Len(type.args) = 2

RecordReports(v, type, at) ==
    LET key == Resolve(type.args[1])
        unknown == {i \in DOMAIN v.body : /\ key.name = "enum" /\ key.args # <<>>
                                          /\ key.args[1].name \in DOMAIN enums
                                          /\ v.body[i].key \notin enums[key.args[1].name]}
    IN  IF ~IsRecord(v) THEN Mismatch(at)
        ELSE IF IsMap(type) THEN {Note("TypeMismatch", Append(at, i)) : i \in unknown} ELSE {}

RecordCalls(v, type, at) ==
    IF ~IsRecord(v) THEN <<>>
    ELSE IF IsMap(type)
    THEN ValueTasks(v, [i \in {i \in DOMAIN v.body : v.body[i].value # Nothing} |-> type.args[2]], at)
    ELSE IF OfForm(type) /\ type.args[1].name \in DOMAIN forms
    THEN <<[do |-> "block", at |-> at, block |-> v, form |-> type.args[1].name]>> ELSE <<>>

CheckRecord ==
    /\ Doing("value") /\ Judging(Task, BlockTypes \ Collections) /\ Filled(Task.value)
    /\ Carry(RecordReports(Task.value, SlotType(Task), Task.at), RecordCalls(Task.value, SlotType(Task), Task.at))

-----------------------------------------------------------------------------
(* Statements of the file *)

\* check_instantiation: declarations of the object's own, then its values.
InstanceReports(block, c, at) ==
    PropDefReports(block, at) \cup CheckLocalPropDefs(LocalPropDefs(block), c, at)

InstanceCalls(block, c, at) ==
    LET type(i) == ResolveProperty(block.body[i].key, LocalPropDefs(block), c)
    IN  ValueTasks(block, [i \in {i \in DOMAIN block.body : block.body[i].value # Nothing /\ type(i) # Nothing} |-> type(i)], at)

CheckInstantiation ==
    /\ Doing("instance")
    /\ Carry(InstanceReports(Task.block, Task.class, Task.at), InstanceCalls(Task.block, Task.class, Task.at))

\* (A mutant: the class is the key alone.)
InstanceOfKey(s, at) ==
    IF s.key \notin Declared \/ ~IsBlock(s.value) THEN <<>>
    ELSE <<[do |-> "instance", at |-> at, block |-> s.value, class |-> s.key]>>

Instantiated(s) == ReadObjectClass(s) # Nothing /\ IsBlock(s.value)

Instance(s, at) ==
    IF ~Instantiated(s) THEN <<>>
    ELSE <<[do |-> "instance", at |-> at, block |-> s.value, class |-> ReadObjectClass(s)]>>

\* check_top_level: a form wins over a class of the same id.
TopReports(s, at) ==
    IF s.key \in DOMAIN forms /\ forms[s.key].top_level THEN {}
    ELSE IF s.key \notin DOMAIN forms /\ ReadObjectClass(s) # Nothing THEN {}
    ELSE {Note("UnknownKey", at)}

TopCalls(s, at) ==
    IF s.key \notin DOMAIN forms THEN Instance(s, at)
    ELSE IF ~forms[s.key].top_level \/ ~IsBlock(s.value) THEN <<>>
    ELSE <<[do |-> "block", at |-> at, block |-> s.value, form |-> s.key]>>
           \o (IF s.key = "object" THEN Instance(s, at) ELSE <<>>)

CheckTopLevel ==
    /\ Doing("top")
    /\ Carry(TopReports(Task.statement, Task.at), TopCalls(Task.statement, Task.at))

-----------------------------------------------------------------------------
(* Declared types *)

PropertiesOf(declaration) == {declaration[n] : n \in Names} \ {Nothing}

DeclaredTypes ==
    (UNION {{forms[f].keys[k].type : k \in {k \in DOMAIN forms[f].keys : forms[f].keys[k].type_of = Nothing}} :
               f \in DOMAIN forms})
      \cup (UNION {PropertiesOf(class[c].properties) : c \in Declared})
      \cup (UNION {PropertiesOf(trait[t]) : t \in DeclaredTraits})
      \cup {g.type : g \in globals}

\* The types check_type is called with next, those of one depth together.
TypeTask(types) == IF types = {} THEN <<>> ELSE <<[do |-> "type", at |-> Registry, types |-> types]>>

Dangling(form) ==
    \E k \in DOMAIN form.keys : form.keys[k].type_of # Nothing /\ ~HasKey(form, form.keys[k].type_of)

\* check_declared_types
CheckDeclaredTypes ==
    /\ Doing("types")
    /\ Carry({Note("SchemaInvalid", Registry) : f \in {f \in DOMAIN forms : Dangling(forms[f])}}, TypeTask(DeclaredTypes))

TypesReports(types) == {Note("SchemaInvalid", Registry) : t \in {t \in types : TypeReported(t)}}
TypesBelow(types) == UNION {{TypeArguments(t)[i] : i \in DOMAIN TypeArguments(t)} : t \in types}

\* check_type
CheckType ==
    /\ Doing("type")
    /\ Carry(TypesReports(Task.types), TypeTask(TypesBelow(Task.types)))

-----------------------------------------------------------------------------
(* The passes of starcore over objects *)

\* check_placements, for one statement.
CheckPlacement ==
    /\ Doing("placement")
    /\ Carry(IF Instantiated(Task.statement) THEN PlacementReports(Task.statement.value, Task.at) ELSE {}, <<>>)

\* check_instance_properties, for one statement.
CheckInstanceProperties ==
    /\ Doing("properties")
    /\ LET s == Task.statement
       IN  Carry(IF Instantiated(s) THEN UnknownProperties(s.value, ReadObjectClass(s), Task.at) ELSE {}, <<>>)

-----------------------------------------------------------------------------
(* Names, over all files *)

Files == <<file>> \o others

\* The task at the head leaves the registry, the files and their reports alone.
Index ==
    /\ todo' = Tail(todo)
    /\ UNCHANGED <<loaded, file, reports, others>>

AddUses ==
    /\ Doing("add_uses") /\ Index
    /\ uses' = uses \cup UsesIn(Files[Task.file], Task.file)
    /\ UNCHANGED <<texts, answers>>

CheckGlobals ==
    /\ Doing("globals") /\ Index
    /\ answers' = answers \cup GlobalAnswers(uses)
    /\ UNCHANGED <<uses, texts>>

AddTexts ==
    /\ Doing("add_texts") /\ Index
    /\ texts' = WithFile(texts, Files[Task.file], Task.file)
    /\ answers' = answers \cup FileAnswers(texts, Files[Task.file], Task.file)
    /\ UNCHANGED uses

CheckTexts ==
    /\ Doing("texts") /\ Index
    /\ answers' = answers \cup TextAnswers(texts)
    /\ UNCHANGED <<uses, texts>>

-----------------------------------------------------------------------------

\* One call of a pass for each statement of the file.
ForEach(pass) ==
    [i \in DOMAIN file |-> [do |-> pass, at |-> <<i>>, statement |-> file[i], top |-> TRUE]]

EveryFile(pass) == [n \in DOMAIN Files |-> [do |-> pass, file |-> n]]

\* The passes in their order.
Agenda ==
    ForEach("annotations") \o ForEach("top") \o <<[do |-> "types", at |-> Registry]>>
      \o ForEach("placement") \o ForEach("properties")
      \o EveryFile("add_uses") \o <<[do |-> "globals"]>>
      \o EveryFile("add_texts") \o <<[do |-> "texts"]>>

BlocksInit ==
    /\ \E p \in Programs :
          /\ class = p.class /\ trait = p.trait
          /\ object = p.object /\ local_properties = p.local_properties
          /\ forms = p.forms /\ enums = p.enums
          /\ declarations = p.declarations /\ globals = p.globals
          /\ file \in p.files /\ others \in p.others
    /\ todo = Agenda
    /\ reports = {} /\ uses = {} /\ texts = NoTexts /\ answers = {}

BlocksNext ==
    \/ Visit \/ CheckTopLevel \/ ValidateBlock \/ CloseBlock
    \/ SkipValue \/ CheckPlainValue \/ CheckShape \/ CheckCollection \/ CheckRecord
    \/ CheckInstantiation \/ CheckDeclaredTypes \/ CheckType
    \/ CheckPlacement \/ CheckInstanceProperties
    \/ AddUses \/ CheckGlobals \/ AddTexts \/ CheckTexts

\* Every call returns, so the checker always goes on.
BlocksSpec == BlocksInit /\ [][BlocksNext]_blocks /\ WF_blocks(BlocksNext)
=============================================================================
