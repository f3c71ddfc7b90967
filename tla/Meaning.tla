------------------------------- MODULE Meaning -------------------------------
(***************************************************************************)
(* What the checks of Blocks are held against, once all have returned: the *)
(* types of spec 6.2 as a relation between values and types, the sessions  *)
(* of 5.4.1, the shorthand of 4.2, the two spellings of an object (7.4),   *)
(* its own properties (8.4, 8.7) and its placement (8.5).                  *)
(***************************************************************************)
EXTENDS Blocks, TemplateGrammar

Done == todo = <<>>

Under(at) == {r \in reports : Len(r.at) >= Len(at) /\ SubSeq(r.at, 1, Len(at)) = at}
Below(at) == {Note(r.code, SubSeq(r.at, Len(at) + 1, Len(r.at))) : r \in Under(at)}
Coded(codes, at) == {r \in Under(at) : r.code \in codes}

-----------------------------------------------------------------------------
(* Types *)

\* The arguments of these are not types but the names of something else.
Naming == {"enum", "flags", "block", "ref"}

\* A type that is the name of an enum, written in full.
InFull(t) ==
    IF t.args = <<>> /\ t.name \notin Builtins /\ t.name \in DOMAIN enums
    THEN Type("enum", <<t>>) ELSE t

\* A type that says something about values.
Says(t) ==
    /\ t.name \in Builtins /\ Len(t.args) = Arity(t.name)
    /\ t.name \in Naming => NamesSomething(t)

-----------------------------------------------------------------------------
(* Slots: a value, its place and the type it stands for *)

\* `given`: the type was written in the file, not in a schema; `entry`: the
\* value is one of a list, not that of a statement, and `inherit` a word.
Slot(at, v, type, given) ==
    [at |-> at, value |-> v, type |-> InFull(type), given |-> given, entry |-> FALSE]
Entry(slot) == [slot EXCEPT !.entry = TRUE]

Judged(slot) ==
    /\ slot.type.name \in Builtins /\ slot.value.is # "call"
    /\ slot.entry \/ ~IsWord(slot.value, "inherit")

\* The slots directly inside a slot.
Inside(slot) ==
    LET v == slot.value
        t == slot.type
        below(i, w, type) == Slot(Append(slot.at, i), w, type, slot.given)
    IN  IF ~Judged(slot) \/ ~IsBlock(v) THEN {}
        ELSE IF v.values # <<>>
        THEN IF t.name \notin {"list", "set", "flags"} \/ Element(t) = Nothing THEN {}
             ELSE {Entry(below(i, v.values[i], Element(t))) : i \in DOMAIN v.values}
        ELSE IF t.name = "map" /\ Len(t.args) = 2
        THEN {below(i, v.body[i].value, t.args[2]) : i \in {i \in DOMAIN v.body : v.body[i].value # Nothing}}
        ELSE IF t.name = "block" /\ Len(t.args) = 1 /\ t.args[1].name \in DOMAIN forms
        THEN LET form == forms[t.args[1].name]
                 key(i) == FindKey(form, v.body[i].key)
             IN  {Slot(Append(slot.at, i), v.body[i].value, Expected(v, key(i)), key(i).type_of # Nothing) :
                     i \in TypedIn(v, form)}
        ELSE {}

Reached(slot) == ReachedFrom(slot, Inside)

\* The class an object's property comes with, by the search order of 8.4.
Has(c, name) == \E a \in Declared : DescendsFrom(c, a) /\ name \in Names /\ HereOrByTrait(a, name) # Nothing
OwnNames(block) == {d.name : d \in LocalPropDefs(block)}

\* What the traits give that an object mixes in itself.
OwnTraits(block) ==
    UNION {LET v == block.body[i].value IN IF IsBlock(v) THEN {Identifier(v.values[k]) : k \in DOMAIN v.values} ELSE {} :
              i \in With(block, "traits")} \cap DeclaredTraits
MixesIn(block, name) == name \in Names /\ \E t \in OwnTraits(block) : trait[t][name] # Nothing

\* The slots of a statement of the file.
OfTheForm(i) ==
    IF file[i].key \in DOMAIN forms /\ forms[file[i].key].top_level /\ IsBlock(file[i].value)
    THEN {Slot(<<i>>, file[i].value, Type("block", <<Plain(file[i].key)>>), FALSE)} ELSE {}

Instantiates(i) == Instantiated(file[i])

OfObject(i) ==
    IF ~Instantiates(i) \/ file[i].key \in DOMAIN forms \ {"object"} THEN {}
    ELSE LET b == file[i].value
             type(j) == ResolveProperty(b.body[j].key, LocalPropDefs(b), ReadObjectClass(file[i]))
         IN  {Slot(<<i, j>>, b.body[j].value, type(j), b.body[j].key \in OwnNames(b)) :
                j \in {j \in DOMAIN b.body : b.body[j].value # Nothing /\ type(j) # Nothing}}

SlotsOf(i) == UNION {Reached(slot) : slot \in OfTheForm(i) \cup OfObject(i)}

-----------------------------------------------------------------------------
(* What a type accepts *)

\* Clearing words aside, a reference names a declaration of its target.
Refers(s, target) ==
    \/ s.text \in {"none", "inherit"}
    \/ IF target \in Declared \cup DeclaredTraits
       THEN s.text \in {o \in Objects : object[o] # Nothing}
       ELSE target \in DOMAIN forms /\ UniqueKey(forms[target]) # Nothing =>
               <<UniqueKey(forms[target]).unique_in, s.text>> \in declarations

ScalarMeans(s, t) ==
    /\ ScalarFits(s, t.name)
    /\ t.name = "enum" /\ t.args[1].name \in DOMAIN enums => s.text \in enums[t.args[1].name]
    /\ t.name = "ref" => Refers(s, t.args[1].name)
    /\ t.name \in {"text", "text_or_script"} /\ s.kind = "String" => Balanced(s.chars)
    /\ t.name = "dice" => IsDice(s.chars)
    /\ t.name = "clock_time" => IsClockTime(s.chars)

In(s, f) == Presence(s) = {} \/ f \in Presence(s)

\* Who may be in a session with a block: a frontend the program knows, or
\* one a statement names.
NamedBy(body) == Frontends \cup UNION {Presence(body[i]) : i \in DOMAIN body}

\* A block of a form, but for the values in it and how often keys bind: its
\* keys are the form's, and of the statements that count, `on`, one answers
\* what is required, and each session sees one member of a group at most.
Keyed(block, form) == form.open \/ \A i \in DOMAIN block.body : HasKey(form, block.body[i].key)

Answering(block, form, group, on) ==
    {block.body[i].key : i \in {i \in on : HasKey(form, block.body[i].key) /\ FindKey(form, block.body[i].key).group = group}}

Complete(block, form, on) ==
    \A k \in {k \in DOMAIN form.keys : form.keys[k].required} :
       IF form.keys[k].group # Nothing THEN Answering(block, form, form.keys[k].group, on) # {}
       ELSE \E i \in on : block.body[i].key = form.keys[k].name

Exclusive(block, form, on) ==
    \A g \in GroupsOf(form), f \in NamedBy(block.body) :
       Cardinality(Answering(block, form, g, {i \in on : In(block.body[i], f)})) <= 1

\* A statement of `inherit` is as good as none (5.5).
Inheriting(block) == {i \in DOMAIN block.body : block.body[i].value # Nothing /\ IsWord(block.body[i].value, "inherit")}

IsOf(block, form) ==
    LET on == DOMAIN block.body \ Inheriting(block)
    IN  Keyed(block, form) /\ Complete(block, form, on) /\ Exclusive(block, form, on)

\* A block of a type for blocks; an empty one is neither shape and stands
\* for both (5.2).
IsOfType(block, t) ==
    IF t.name \in {"list", "set", "flags"}
    THEN /\ block.body = <<>>
         /\ t.name = "set" => Cardinality({block.values[i] : i \in DOMAIN block.values}) = Len(block.values)
    ELSE /\ block.values = <<>>
         /\ t.name = "block" /\ t.args[1].name \in DOMAIN forms => IsOf(block, forms[t.args[1].name])
         /\ t.name = "map" =>
               LET keys == InFull(t.args[1])
               IN  keys.name = "enum" /\ keys.args[1].name \in DOMAIN enums =>
                     \A i \in DOMAIN block.body : block.body[i].key \in enums[keys.args[1].name]

\* A record that is given to a list of blocks is one of them (6.2).
IsElement(block, t) ==
    t.name = "list" /\ block.body # <<>> /\ Element(t) # Nothing /\ Element(t).name \in BlockTypes

Clears(slot) == ~slot.entry /\ IsWord(slot.value, "none") /\ slot.type.name \in {"list", "set", "flags", "map"}

\* A value is of its type, but for the slots inside it: `inherit` of any,
\* `none` of a collection (5.5), a call of one that refers to an object
\* (4.3, 11.5).
Conforms(slot) ==
    LET v == slot.value
        t == slot.type
    IN  \/ t.name \notin Builtins
        \/ ~slot.entry /\ IsWord(v, "inherit")
        \/ Clears(slot)
        \/ v.is = "call" /\ t.name = "ref"
        \/ t.name \notin BlockTypes /\ v.is = "scalar" /\ ScalarMeans(v, t)
        \/ t.name = "type_expr" /\ v.is = "type"
        \/ t.name \in BlockTypes /\ IsBlock(v) /\ IsOfType(v, t)
        \/ IsBlock(v) /\ IsElement(v, t) /\ IsOfType(v, Element(t))

-----------------------------------------------------------------------------
(* Where the code departs from that *)

FormOf(slot) == forms[slot.type.args[1].name]
OfKnownForm(slot) == OfForm(slot.type) /\ slot.type.args[1].name \in DOMAIN forms /\ IsBlock(slot.value)

\* The statements of a block that are members of a group.
Grouped(block, form) ==
    {i \in DOMAIN block.body : HasKey(form, block.body[i].key) /\ FindKey(form, block.body[i].key).group # Nothing}

\* Reported, though it is of its type: `none` where a collection stands
\* (types.cpp:473-476), though it "clears it" (stardata-spec.md:433); and
\* `inherit` beside another member of a group (loader.cpp:614), though it "is
\* exactly equivalent to omitting the statement" (stardata-spec.md:432).
ReportedAnyway(slot) ==
    \/ Clears(slot)
    \/ OfKnownForm(slot) /\ Grouped(slot.value, FormOf(slot)) \cap Inheriting(slot.value) # {}

\* Silent, though it is not of its type:
\* - a call under any type (types.cpp:437-442 leaves it to 11.5), though where
\*   the type accepts none it "MUST be an error" (stardata-spec.md:309);
\* - a record in a list of blocks (types.cpp:487-494);
\* - an empty block inside another, whatever its form requires (types.cpp:478);
\* - a list for a whole statement, whose shape is not looked at (loader.cpp:960);
\* - a block in which `inherit` is all that answers a required key
\*   (loader.cpp:744), or three or more statements of members of a group are
\*   on frontends of their own (loader.cpp:622; the finding of
\*   OneAnswerPerSession).
PassedOver(slot) ==
    LET v == slot.value
        all == DOMAIN v.body
        members == Grouped(v, FormOf(slot))
        gated == Cardinality(members) > 2 /\ \E i \in members : Presence(v.body[i]) # {}
    IN  \/ v.is = "call"
        \/ /\ IsBlock(v)
           /\ \/ IsElement(v, slot.type)
              \/ IsEmpty(v) /\ Len(slot.at) > 1
              \/ v.values # <<>> /\ Len(slot.at) = 1
              \/ /\ OfKnownForm(slot) /\ v.values = <<>>
                 /\ Keyed(v, FormOf(slot)) /\ Complete(v, FormOf(slot), all)
                 /\ gated \/ Exclusive(v, FormOf(slot), all)

-----------------------------------------------------------------------------
(* Properties *)

ValueCodes == {"TypeMismatch", "RefUnresolved", "TemplateBrackets", "UnknownKey", "KeyMissing",
               "ExclusiveGroup", "ExclusiveMissing"}

\* What is reported of the values of a statement; an unknown marker is
\* reported of a declaration.
OfValues(i) ==
    {r \in Coded(ValueCodes, <<i>>) :
        ~(Len(r.at) > 1 /\ r.code = "UnknownKey" /\ r.at[2] \in With(file[i].value, "prop_def"))}

\* Where the declared types say something, nothing is reported of the values
\* in a statement of the file when each of them, however deep, is of its
\* type by the specification, and if nothing is then each of them is: but
\* where the code disagrees with the specification, in the places and for the
\* lines that ReportedAnyway and PassedOver name.  (How often a key binds is
\* OneBindingPerSession's.)
SilentWhenItConforms ==
    Done /\ Note("SchemaInvalid", Registry) \notin reports => \A i \in DOMAIN file :
       /\ SlotsOf(i) # {} /\ OfValues(i) # {} => \E slot \in SlotsOf(i) : ~Conforms(slot) \/ ReportedAnyway(slot)
       /\ OfValues(i) = {} => \A slot \in SlotsOf(i) : Conforms(slot) \/ PassedOver(slot)

\* The statements of a slot's block that bind a key with one value, and of
\* those the ones a session on frontend `f` sees.
BlockSlots ==
    {slot \in UNION {SlotsOf(i) : i \in DOMAIN file} :
        /\ OfForm(slot.type) /\ IsBlock(slot.value) /\ slot.value.body # <<>>
        /\ slot.type.args[1].name \in DOMAIN forms}

\* Whatever the frontend, one the program knows or one a statement names, a
\* session holds one binding of a key that takes one, once the statements
\* reported as duplicates are gone; and each of them meets one that is left
\* before it (5.3, 5.4.1).
OneBindingPerSession ==
    Done => \A slot \in BlockSlots :
       LET body == slot.value.body
           form == forms[slot.type.args[1].name]
           duplicate == {i \in DOMAIN body : Note("DuplicateKey", Append(slot.at, i)) \in reports}
           named == Frontends \cup UNION {Presence(body[i]) : i \in DOMAIN body}
           binding(f) == {i \in DOMAIN body : BindsOne(body[i], form) /\ In(body[i], f)}
       IN  /\ \A f \in named : \A i, j \in binding(f) \ duplicate : body[i].key = body[j].key => i = j
           /\ \A i \in duplicate : \E f \in named : \E j \in binding(f) \ duplicate :
                 i \in binding(f) /\ j < i /\ body[j].key = body[i].key

\* In a block nothing is reported of, no session sees two members of an
\* exclusive group (5.4.1, 7.2.1).  (The code looks at two statements only,
\* the first of each of the first two members.)
OneAnswerPerSession ==
    Done => \A slot \in BlockSlots :
       Under(slot.at) = {} =>
          LET body == slot.value.body
              form == forms[slot.type.args[1].name]
              members(g, f) == {i \in DOMAIN body : /\ HasKey(form, body[i].key) /\ In(body[i], f)
                                                   /\ FindKey(form, body[i].key).group = g}
          IN  \A g \in GroupsOf(form), f \in Frontends : \A i, j \in members(g, f) : body[i].key = body[j].key

\* An object written short is told what it is told written long, but for
\* the keys of the form `object` (7.4).
SpellingsAgree ==
    Done => \A i, j \in DOMAIN file :
       /\ file[i].key \in Declared \ DOMAIN forms /\ file[j].key = "object"
       /\ file[i].value = file[j].value /\ IsBlock(file[i].value)
       /\ ReadObjectClass(file[j]) = file[i].key
       => /\ Below(<<i>>) \subseteq Below(<<j>>)
          /\ \A r \in Below(<<j>>) \ Below(<<i>>) :
                r.at = <<>> \/ HasKey(forms["object"], file[j].value.body[r.at[1]].key)

\* A key that nothing gives to an object by the search of 8.4 -- neither its
\* own declarations nor a trait it mixes in nor its class -- and that means
\* nothing by itself is reported; and none is reported that its own
\* declarations or its class give it.  The pass over keys and the one over
\* values agree on which.  (A key that only a trait of its own gives it is
\* reported as well, against step 2 of 8.4: resolve_property, types.cpp:612,
\* asks the object and its class alone.  It is the disagreement that
\* AbsentFromObjects finds in reads.)
EveryKeyAnswered ==
    Done => \A i \in {i \in DOMAIN file : Instantiates(i)} :
       LET b == file[i].value
       IN  \A j \in DOMAIN b.body :
              LET name == b.body[j].key
                  unknown == Note("PropUnknown", <<i, j>>) \in reports
                  meant == \/ name \in OwnNames(b) \/ Has(ReadObjectClass(file[i]), name)
                           \/ name \in Structural \cup Relations
              IN  /\ unknown => ~meant
                  /\ meant \/ MixesIn(b, name) \/ unknown

\* An object that redeclares nothing can be read as its class: what is
\* silent for a key the class declares is of the type the class gives it
\* (8.7), whichever declaration it was checked against.
ReadsAsItsClass ==
    Done /\ Note("SchemaInvalid", Registry) \notin reports => \A i \in {i \in DOMAIN file : Instantiates(i)} :
       Coded({"PropDefTypeMismatch"}, <<i>>) = {} =>
          LET b == file[i].value
              class_type(j) == FindDeclared(ReadObjectClass(file[i]), b.body[j].key)
          IN  \A j \in {j \in DOMAIN b.body : b.body[j].value # Nothing /\ class_type(j) # Nothing} :
                 Coded(ValueCodes, <<i, j>>) = {} =>
                    \A slot \in Reached(Slot(<<i, j>>, b.body[j].value, class_type(j), FALSE)) : Conforms(slot) \/ PassedOver(slot)

\* Where no declared type is reported, every value that stands for one is
\* judged by a type that says something: none is passed over because the
\* type turns out to mean nothing.
DeclaredTypesJudge ==
    Done /\ Note("SchemaInvalid", Registry) \notin reports =>
       \A slot \in UNION {SlotsOf(i) : i \in DOMAIN file} : slot.given \/ Says(slot.type)

\* The values of the file and, of a block, the values in it.
Annotated ==
    LET at(i, v) == {[at |-> i, value |-> v]}
    IN  UNION {IF file[i].value = Nothing THEN {}
               ELSE at(<<i>>, file[i].value)
                      \cup (IF ~IsBlock(file[i].value) THEN {}
                            ELSE UNION {IF file[i].value.body[j].value = Nothing THEN {}
                                        ELSE at(<<i, j>>, file[i].value.body[j].value) :
                                           j \in DOMAIN file[i].value.body}) : i \in DOMAIN file}

Reorderings(s) == {[i \in DOMAIN s |-> s[p[i]]] : p \in Bijection(DOMAIN s, DOMAIN s)}

\* Annotations that are not in conflict, with one priority at most, mean
\* one combination in whatever order they are written (5.4).
OneCombination ==
    Done => \A a \in Annotated :
       \/ Coded({"AnnotationConflict"}, a.at) # {}
       \/ Cardinality({i \in DOMAIN a.value.notes : a.value.notes[i].name = "priority"}) > 1
       \/ \A combine \in {"override", "merge", "append", "smart"} : \A notes \in Reorderings(a.value.notes) :
             CombinationOf([a.value EXCEPT !.notes = notes], combine) = CombinationOf(a.value, combine)

\* An object is silent about its placement exactly when it has one at most,
\* and then that one is what is read (8.5).
OnePlacement ==
    Done => \A i \in {i \in DOMAIN file : Instantiates(i)} :
       LET b == file[i].value
           sugar == {[relation |-> b.body[j].key, holder |-> Identifier(b.body[j].value)] : j \in Sugar(b)}
           long == IF LongForm(b) = {} THEN {}
                   ELSE {[relation |-> Identifier(ValueOf(b, "relation")), holder |-> Identifier(ValueOf(b, "holder"))]}
           times == Cardinality(Sugar(b)) + Cardinality(long)
       IN  /\ Coded({"PlacementConflict"}, <<i>>) = {} <=> times <= 1
           /\ times = 1 => {ReadPlacement(b)} = sugar \cup long

-----------------------------------------------------------------------------
(* Names *)

\* Every value that is written in a file, with the keys that lead to it; an
\* entry of a list has the key "", an argument of a call the key "()".
Site(v, keys, at) == [keys |-> keys, value |-> v, at |-> at]
SitesIn(site) ==
    LET v == site.value
        below(w, key, i) == Site(w, Append(site.keys, key), Append(site.at, i))
    IN  IF v # Nothing /\ v.is = "call" THEN {below(v.args[i], "()", i) : i \in DOMAIN v.args}
        ELSE IF ~IsBlock(v) THEN {}
        ELSE {below(v.body[i].value, v.body[i].key, i) : i \in DOMAIN v.body}
               \cup {below(v.values[i], "", i) : i \in DOMAIN v.values}

AllSites == UNION {UNION {ReachedFrom(Site(Files[n][i].value, <<Files[n][i].key>>, <<n, i>>), SitesIn) : i \in DOMAIN Files[n]} :
                      n \in DOMAIN Files}

KeyOf(site) == site.keys[Len(site.keys)]
WordAt(site) == Identifier(site.value)
\* Whether a site is inside a key of `keys` that is itself inside a block.
Within(site, keys) == \E k \in 2..(Len(site.keys) - 1) : site.keys[k] \in keys
Directly(site, keys) == Len(site.keys) > 2 /\ site.keys[Len(site.keys) - 1] \in keys

\* Sites at which a global can be named: in a block, not in a declaration,
\* and in no block that stands for a flag or for the name of a global.
GlobalSites ==
    {site \in AllSites : /\ Len(site.keys) > 1 /\ site.keys[1] \notin {"global", "const"}
                         /\ ~Within(site, FlagWrites \cup {"flag_set"})
                         /\ \A k \in 3..(Len(site.keys) - 1) : site.keys[k] = "id" => site.keys[k - 1] \notin GlobalWrites}

\* What a site does to which global: a flag, a test or a write, or else
\* that its value is a word which may be one.  What a test compares with is
\* not.
Does(site) ==
    IF KeyOf(site) = "()" THEN IF WordAt(site) = Nothing THEN "nothing" ELSE "mention"
    ELSE IF Directly(site, {"global"}) THEN IF KeyOf(site) = "" THEN "nothing" ELSE "test"
    ELSE IF Within(site, {"global"}) \/ WordAt(site) = Nothing THEN "nothing"
    ELSE IF Directly(site, GlobalWrites) THEN IF KeyOf(site) = "id" THEN "write" ELSE "mention"
    ELSE IF KeyOf(site) \in FlagWrites THEN "set flag"
    ELSE IF KeyOf(site) = "flag_set" THEN "test flag" ELSE "mention"

GlobalAt(site) == IF Does(site) = "test" THEN KeyOf(site) ELSE WordAt(site)
SitesThat(what) == {site \in GlobalSites : Does(site) \in what}
AnswersAt(code, sites) == {Answer(code, GlobalAt(site), site.at) : site \in sites}
Said(codes) == {a \in answers : a.code \in codes}

Between(low, S, high) == low \subseteq S /\ S \subseteq high

\* Mentions that the code does not see, though of a write "everything else in
\* the block is an ordinary value and is walked" (globals.cpp:94-95) and a
\* word in an argument "is always a global" (spec 6.6.3, globals.cpp:136): it
\* walks only the blocks in a write (globals.cpp:103-112), and no call.
UnseenMention(site) == KeyOf(site) = "()" \/ (Directly(site, GlobalWrites) /\ KeyOf(site) # "id")

\* Globals and flags (6.4, 6.4.1).
GlobalsAnswered ==
    LET flags == SitesThat({"set flag", "test flag"})
        undeclared(sites) == {site \in sites : \A g \in globals : g.id # GlobalAt(site)}
        reading == SitesThat({"test", "test flag", "mention"})
        but(sites) == {g.id : g \in globals} \ {GlobalAt(site) : site \in sites}
    IN  /\ Between(but(reading), {a.name : a \in Said({"GlobalUnused"})},
                   but({site \in reading : ~UnseenMention(site)}))
        /\ Said({"FlagUndeclared"}) = AnswersAt("FlagUndeclared", undeclared(flags))
        /\ Said({"GlobalUndeclared"}) = AnswersAt("GlobalUndeclared", undeclared(SitesThat({"test", "write"})))
        /\ Said({"FlagNotBool"}) =
              AnswersAt("FlagNotBool", {site \in flags : \E g \in globals : g.id = GlobalAt(site) /\ g.type.name # "bool"})

\* The entries of tables; of a table only they are looked at.
LocEntries == {site \in AllSites : Len(site.keys) = 2 /\ site.keys[1] = "loc" /\ KeyOf(site) \notin {"lang", ""}}
Prose == {site \in AllSites : site.keys[1] # "loc" /\ site.value # Nothing}

Language(site) == Identifier(ValueOf(Files[site.at[1]][site.at[2]].value, "lang"))

\* The sites that name a key, and those of them that the code does not see:
\* "a `$key` is as legal there as anywhere" in a call (text.cpp:183-184), but
\* of a call within a call nothing is visited (text.cpp:186-192).
NamingKey == {site \in Prose : site.value.is = "scalar" /\ site.value.kind = "LocKey"}
UnseenKey(site) == KeyOf(site) = "()" /\ site.keys[Len(site.keys) - 1] = "()"

\* The styles a value names: in its annotations, and in its text outside
\* what is interpolated.
StylesAt(v) ==
    IF v = Nothing THEN {}
    ELSE {v.notes[i].args[1].text : i \in {i \in DOMAIN v.notes : v.notes[i].name = "style" /\ v.notes[i].args # <<>>}}
           \cup (IF v.is # "scalar" \/ v.kind # "String" THEN {}
                 ELSE {v.chars[i] : i \in {i \in Starts(v.chars) : v.chars[i] \in Styles /\ ~Interpolated(v.chars, i)}})

DeclaredStyles == {WordAt(site) : site \in {site \in AllSites : site.keys = <<"style", "id">>}}

\* Earlier in its file, in the same language and of the same key.
Repeats(e, f) ==
    /\ e.at[1] = f.at[1] /\ KeyOf(e) = KeyOf(f) /\ Language(e) = Language(f)
    /\ f.at[2] < e.at[2] \/ (f.at[2] = e.at[2] /\ f.at[3] < e.at[3])

\* Nor does it see the styles that are named in a call (text.cpp:185-194).
UnseenStyle(site) == KeyOf(site) = "()"

\* Styles and keys (9.3, 9.6).
TextsAnswered ==
    LET entries == LocEntries
        styled == Prose \cup entries
        keys == {KeyOf(e) : e \in entries}
        undefined(sites) == {Answer("LocUndefined", site.value.text, site.at) : site \in {site \in sites : site.value.text \notin keys}}
        unused(sites) == keys \ {site.value.text : site \in sites}
        undeclared(sites) == (UNION {StylesAt(site.value) : site \in sites}) \ DeclaredStyles
        broken == {e \in entries : /\ e.value # Nothing /\ e.value.is = "scalar" /\ e.value.kind = "String"
                                      /\ ~Balanced(e.value.chars)}
        seen == {site \in NamingKey : ~UnseenKey(site)}
        called_unused == {a.name : a \in Said({"LocUnused"})}
    IN  /\ Between(unused(NamingKey), called_unused, unused(seen))
        /\ Cardinality(Said({"LocUnused"})) = Cardinality(called_unused)
        /\ Between(undefined(seen), Said({"LocUndefined"}), undefined(NamingKey))
        /\ {a.at : a \in Said({"LocDuplicate"})} = {e.at : e \in {e \in entries : \E f \in entries : Repeats(e, f)}}
        /\ {a.at : a \in Said({"TemplateBrackets"})} = {e.at : e \in broken}
        /\ Between(undeclared({site \in styled : ~UnseenStyle(site)}), {a.name : a \in Said({"StyleUndeclared"})},
                   undeclared(styled))

\* Over all files and in any order of them: a global is called unused when
\* no site of any file tests it or may mention it, however often it is
\* written, and only then; a flag, a test or a write is reported exactly when
\* nothing declares what it names, or declares it something other than a
\* flag; a key or a style is reported undefined where it is named and no
\* file defines it and nowhere else, a defined key unused, once, when no file
\* names it and only then, and an entry a duplicate exactly when its own file
\* has one of its key and language before it: elsewhere it is another
\* locale's.  Sites in a call or a write that the code does not see, against
\* its own comments, are the exception: UnseenMention, UnseenKey and
\* UnseenStyle name them.  What only they name may be called unused, and
\* what they name may be undefined unreported.
NamesAnswered == Done => GlobalsAnswered /\ TextsAnswered

\* Every pass comes to its end, however deep the blocks and the types are.
EveryPassEnds == <>Done
=============================================================================
