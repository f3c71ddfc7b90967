------------------------------ MODULE MCBlocks ------------------------------
(***************************************************************************)
(* The files of the runs.  A door has a key of every kind of type, a       *)
(* portal the same keys with every enum written in full; a lock has an     *)
(* exclusive group and nests; a thing is lit and, by a trait, has a mood.  *)
(***************************************************************************)
EXTENDS Meaning, TLC


MCMixins == {<<>>, <<"moody">>}
MCTypes == {}

-----------------------------------------------------------------------------
(* Values *)

Scalar(kind, text, chars, notes) == [is |-> "scalar", kind |-> kind, text |-> text, chars |-> chars, notes |-> notes]
Word(text) == Scalar("Identifier", text, <<>>, <<>>)
Str(chars) == Scalar("String", "", chars, <<>>)
Whole(text) == Scalar("Integer", text, <<>>, <<>>)
Record(body) == [is |-> "block", values |-> <<>>, body |-> body, notes |-> <<>>]
List(values) == [is |-> "block", values |-> values, body |-> <<>>, notes |-> <<>>]
TypeExpr(type) == [is |-> "type", type |-> type, notes |-> <<>>]
CallOf(args) == [is |-> "call", args |-> args, notes |-> <<>>]
Call == CallOf(<<>>)
Set(key, value) == [key |-> key, op |-> "=", value |-> value]
Add(key, value) == [key |-> key, op |-> "+=", value |-> value]

Argument(text) == [kind |-> "Identifier", text |-> text, number |-> 0]
Number(n) == [kind |-> "Integer", text |-> "", number |-> n]
Annotation(name, args) == [name |-> name, args |-> args]
Noted(v, notes) == [v EXCEPT !.notes = notes]
Glk == Annotation("platform", <<Argument("glk")>>)
Qt == Annotation("platform", <<Argument("qt")>>)
Both == Annotation("platform", <<Argument("qt"), Argument("glk")>>)
Debug == Annotation("debug", <<>>)

-----------------------------------------------------------------------------
(* The registry *)

ListOf(type) == Type("list", <<type>>)
Enum(name) == Type("enum", <<Plain(name)>>)
Of(name, id) == Type(name, <<Plain(id)>>)

Key(name, type) ==
    [name |-> name, type |-> type, type_of |-> Nothing, required |-> FALSE, arity |-> "one",
     combine |-> "override", unique_in |-> Nothing, group |-> Nothing]
Required(key) == [key EXCEPT !.required = TRUE]
Many(key) == [key EXCEPT !.arity = "many"]
Id(space) == [Required(Key("id", Plain("identifier"))) EXCEPT !.unique_in = space]
InGroup(key) == [key EXCEPT !.group = "g"]
Typed(name, by) == [Key(name, Nothing) EXCEPT !.type_of = by]
Form(open, top, keys) == [open |-> open, top_level |-> top, keys |-> keys]

\* The keys of a door, with `mood` or `enum<mood>` wherever a type stands.
Keys(mood) ==
    <<Key("is", mood), Key("list", ListOf(mood)), Key("set", Type("set", <<mood>>)),
      Key("flags", Of("flags", "mood")), Key("map", Type("map", <<mood, ListOf(mood)>>)),
      Key("thing", Of("ref", "thing")), Key("moody", Of("ref", "moody")), Key("door", Of("ref", "door")),
      Key("lock", Of("block", "lock")), Key("locks", ListOf(Of("block", "lock"))),
      Key("locked", Type("map", <<Plain("identifier"), Of("block", "lock")>>)),
      Key("text", Plain("text")), Key("dice", Plain("dice")), Key("time", Plain("clock_time")),
      Key("when", Plain("condition_block")), Key("type", Plain("type_expr")), Typed("value", "type"),
      Key("bool", Plain("bool")), Key("n", Plain("float")), Key("wait", Plain("duration"))>>

Lock ==
    Form(FALSE, TRUE, <<Id("lock"), Many(Key("m", Plain("int"))), Key("n", Plain("int")),
                        InGroup(Required(Key("a", Plain("int")))), InGroup(Key("b", Plain("int"))),
                        InGroup(Key("c", Plain("int"))), Key("in", Of("block", "lock"))>>)

Forms ==
    [door |-> Form(FALSE, TRUE, <<[Key("id", Plain("identifier")) EXCEPT !.unique_in = "door"]>> \o Keys(Plain("mood"))),
     portal |-> Form(FALSE, TRUE, <<[Key("id", Plain("identifier")) EXCEPT !.unique_in = "door"]>> \o Keys(Enum("mood"))),
     lock |-> Lock,
     note |-> Form(TRUE, FALSE, <<>>),
     class |-> Form(TRUE, TRUE, <<Id("class")>>),
     prop_marker |-> Form(FALSE, FALSE, <<Key("type", Plain("type_expr")), Key("doc", Plain("string"))>>),
     object |-> Form(TRUE, TRUE, <<Id("object"), Required(Key("of_class", Of("ref", "class"))),
                                   Many(Key("prop_def", Of("block", "prop_def"))),
                                   Key("traits", ListOf(Plain("identifier")))>>),
     prop_def |-> Form(TRUE, FALSE, <<>>)]

NoProperties == [n \in Names |-> Nothing]
Registered ==
    [class |-> [id \in Ids |-> IF id = "thing"
                  THEN [of_class |-> Nothing, root |-> TRUE, traits |-> <<>>,
                        properties |-> [NoProperties EXCEPT !["lit"] = Plain("int"), !["holder"] = Of("ref", "thing"),
                                                     !["relation"] = Enum("relation_enum")]]
                  ELSE [of_class |-> "thing", root |-> FALSE, traits |-> <<"moody">>, properties |-> NoProperties]],
     trait |-> [id \in TraitIds |-> [NoProperties EXCEPT !["mood"] = Plain("mood"),
                                     !["parts"] = Type("map", <<Plain("identifier"), Of("block", "lock")>>)]],
     object |-> [o \in Objects |-> [class |-> "room", traits |-> <<>>, local |-> {}]],
     local_properties |-> {},
     forms |-> Forms,
     enums |-> [mood |-> {"glad", "sad"}, relation_enum |-> {"in", "on"}, text |-> {"glad"}],
     declarations |-> {<<"door", "gate">>, <<"object", "hall">>, <<"class", "thing">>, <<"class", "room">>},
     globals |-> {}]

Against(registry, files) == [files |-> files, others |-> {<<>>}] @@ registry

-----------------------------------------------------------------------------
(* Values of every type *)

SomeWords == {"glad", "sad", "hall", "gate", "none", "inherit", "yes", "default", "int", "mood", "odd"}
Words == {Word(w) : w \in SomeWords}
Numbers == {Whole("1"), Scalar("Decimal", "1.5", <<>>, <<>>), Scalar("LocKey", "k", <<>>, <<>>)}
Texts == {Str(c) : c \in {<<>>, <<"[", "a", "]">>, <<"[", "[", "]">>, <<"a", "]">>, <<"\\", "[", "a">>, <<"[", "\\", "]">>,
                          <<"\\", "\\", "[", "]">>, <<"\\", "u", "0", "0", "[">>, <<"\\">>, <<"]", "[">>,
                          <<"3", "d", "6", "+", "1">>, <<"d", "6">>, <<"3", "d">>, <<"3", "d", "6", "-">>,
                          <<"1", "3", ":", "0", "6">>, <<"1", "3", ":", "0">>}}
Entries == {Word("glad"), Word("odd"), Word("sad"), Whole("1"), Word("inherit")}
Lists == {List(<<x>>) : x \in Entries} \cup {List(<<x, y>>) : x \in Entries, y \in Entries}
           \cup {List(<<x, y, x>>) : x \in {Word("glad"), Whole("1")}, y \in {Word("sad")}}
           \cup {List(<<>>)}

GoodLock == <<Set("id", Word("l")), Set("a", Whole("1"))>>
SomeLocks ==
    {Record(b) : b \in {GoodLock, <<Set("id", Word("l"))>>, Append(GoodLock, Set("odd", Whole("1"))),
                        Append(GoodLock, Set("n", Word("odd"))), Append(GoodLock, Set("n", Nothing)),
                        Append(GoodLock, Set("in", List(<<>>))), Append(GoodLock, Set("in", Record(GoodLock))),
                        Append(GoodLock, Set("in", Record(<<Set("id", Whole("1"))>>))),
                        <<Set("id", Word("inherit")), Set("a", Whole("1"))>>, Append(GoodLock, Set("b", Word("inherit"))),
                        Append(GoodLock, Set("b", Noted(Whole("1"), <<Glk>>))),
                        <<Set("id", Word("l")), Set("a", Noted(Whole("1"), <<Glk>>)), Set("b", Noted(Word("yes"), <<Qt>>))>>,
                        <<Set("glad", List(<<Word("sad")>>))>>, <<Set("odd", List(<<Word("sad")>>))>>,
                        <<Set("glad", List(<<Word("odd")>>)), Set("sad", Word("inherit"))>>,
                        <<Set("x", Record(GoodLock)), Set("y", Record(<<Set("b", Whole("1"))>>))>>}}

AllValues == Words \cup Numbers \cup Texts \cup Lists \cup SomeLocks \cup {Call, TypeExpr(ListOf(Plain("int")))}

Twice(form, other, b) == <<Set(form, Record(b)), Set(other, Record(b))>>

OfEveryType ==
    {Twice("door", "portal", <<Set(k.name, v)>>) :
        k \in {Keys(Plain("mood"))[i] : i \in DOMAIN Keys(Plain("mood"))}, v \in AllValues}
      \cup {Twice("door", "portal", <<Set("type", t), Set("value", v)>>) :
              t \in {Word("int"), Word("mood"), Word("text"), Word("odd"), Str(<<>>),
                     TypeExpr(ListOf(Plain("mood"))), TypeExpr(Of("set", "text"))},
              v \in Words \cup Numbers \cup Lists}

\* A lock on its own and the same lock in a door.
OnItsOwnAndInside ==
    {<<Set("lock", b), Set("door", Record(<<Set("lock", b)>>)), Set("portal", b)>> :
        b \in SomeLocks \cup Lists \cup {Whole("1"), Call}}

-----------------------------------------------------------------------------
(* Statements of one key, and of an exclusive group *)

Presences == {<<>>, <<Glk>>, <<Qt>>, <<Both>>, <<Debug>>, <<Annotation("platform", <<Argument("odd")>>)>>}
Bindings == {Set("n", Noted(Whole("1"), p)) : p \in Presences}
              \cup {Add("n", Whole("1")), Set("m", Whole("1")), Set("n", Nothing)}

Often ==
    {<<Set("lock", Record(GoodLock \o <<x, y, z>>)), Set("door", Record(<<Set("lock", Record(GoodLock \o <<x, y, z>>))>>))>> :
        x \in Bindings, y \in Bindings, z \in Bindings}

GroupKeys == {"a", "b", "c", "m"}
Answers == {<<Set("lock", Record(<<Set("id", Word("l"))>> \o s))>> :
               s \in UNION {[1..n -> {Set(k, Whole("1")) : k \in GroupKeys}] : n \in 0..3}}

GatedAnswers == {<<Set("lock", Record(<<Set("id", Word("l"))>> \o s))>> :
               s \in [1..3 -> {Set(k, Noted(Whole("1"), p)) : k \in {"a", "b", "c"}, p \in {<<>>, <<Glk>>, <<Qt>>}}]}

-----------------------------------------------------------------------------
(* Objects *)

PropDef(b) == Set("prop_def", Record(b))
Marked(b) == Set("lit", Record(b))
Placing == {Set("in", Word("hall")), Set("on", Word("hall")), Set("holder", Word("hall")), Set("relation", Word("in"))}
ObjectKeys ==
    Placing \cup
    {Set("lit", Whole("1")), Set("lit", Word("yes")), Set("mood", Word("glad")), Set("mood", Word("odd")),
     Set("parts", Record(<<Set("x", Record(GoodLock))>>)), Set("parts", Record(<<Set("x", Record(<<Set("id", Word("l"))>>))>>)),
     Set("odd", Whole("1")), Set("lit", Nothing), Set("traits", List(<<Word("moody")>>)),
     PropDef(<<Set("odd", Word("bool"))>>), PropDef(<<Set("lit", Word("bool"))>>),
     PropDef(<<Set("lit", Word("int")), Set("lit", Word("text"))>>),
     PropDef(<<Marked(<<Set("type", Word("float")), Set("odd", Word("yes"))>>)>>),
     PropDef(<<Marked(<<Set("doc", Str(<<>>))>>)>>), PropDef(<<Set("odd", Whole("1"))>>),
     Set("prop_def", Word("odd"))}

Named(c, id) == <<Set("id", id), Set("of_class", Word(c))>>
Spelled(c, id, b) == Twice(c, "object", Named(c, id) \o b)

AsObjects ==
    {Spelled(c, Word("o"), <<x, y>>) : c \in {"thing", "room"}, x \in ObjectKeys, y \in ObjectKeys}
      \cup {Spelled("room", id, <<x>>) : id \in {Whole("1")}, x \in ObjectKeys}
      \cup {<<Set("object", Record(Named(c, Word("o")) \o <<x>>))>> : c \in {"moody", "odd"}, x \in ObjectKeys}
      \cup {<<Set(k, v)>> : k \in {"moody", "odd", "note", "room", "lock", "object"},
                            v \in {Whole("1"), Record(<<Set("odd", Whole("1"))>>), List(<<>>)}}
      \cup {Spelled("thing", Word("o"), <<x, y, z>>) : x \in Placing, y \in Placing, z \in Placing}

-----------------------------------------------------------------------------
(* Annotations *)

Notes ==
    {Annotation("before", <<>>), Annotation("after", <<>>), Annotation("merge", <<>>), Annotation("override", <<Argument("x")>>),
     Annotation("priority", <<Number(3)>>), Annotation("priority", <<Number(9)>>), Annotation("priority", <<Argument("x")>>),
     Debug, Both, Annotation("platform", <<>>), Annotation("platform", <<Argument("odd"), Number(1)>>),
     Annotation("style", <<Argument("x")>>), Annotation("replaces", <<Argument("x")>>), Annotation("odd", <<>>), Annotation("", <<>>)}

Annotating ==
    {<<Set("lock", Noted(Record(GoodLock), n))>> : n \in UNION {[1..k -> Notes] : k \in 1..3}}
      \cup {<<Set("door", Record(<<Set("lock", Noted(v, n))>>))>> :
              v \in {Record(GoodLock), Str(<<>>), Whole("1"), Call, TypeExpr(ListOf(Plain("int"))), List(<<>>)},
              n \in UNION {[1..k -> Notes] : k \in 1..2}}

-----------------------------------------------------------------------------
(* Declared types, well formed and not *)

Inner == {Plain("int"), Plain("mood"), Plain("odd"), Plain("text"), Enum("mood"), Enum("odd"), Of("ref", "odd"),
          Of("ref", "thing"), Of("ref", "moody"), Of("ref", "door"), Of("block", "odd"), Of("block", "lock"),
          Of("flags", "mood"), Of("mood", "int"), Of("int", "int"), Plain("list"), Plain("ref")}
DeclaredOnce ==
    Inner \cup {Of("list", "odd"), ListOf(ListOf(Plain("odd")))} \cup {Type("set", <<x>>) : x \in Inner}
      \cup {Type("map", <<x, y>>) : x \in {Plain("mood"), Plain("odd")}, y \in Inner}
      \cup {ListOf(Type("map", <<Plain("mood"), x>>)) : x \in Inner}

Some == {Word("glad"), Word("inherit"), Whole("1"), List(<<Word("glad")>>), Record(<<Set("glad", Whole("1"))>>)}

\* The type of a key, of a property or of a global.
OfKey(key) ==
    Against([Registered EXCEPT !.forms = [@ EXCEPT !["door"] = Form(FALSE, TRUE, <<key>>)]],
          {<<Set("door", Record(<<Set("x", v)>>))>> : v \in Some})
OfProperty(t) ==
    Against([Registered EXCEPT !.trait = [id \in TraitIds |-> [NoProperties EXCEPT !["mood"] = t]]],
          {<<Set("room", Record(<<Set("id", Word("o")), Set("mood", v)>>))>> : v \in Some})
OfGlobal(t) == Against([Registered EXCEPT !.globals = {[id |-> "g", type |-> t]}], {<<>>})

-----------------------------------------------------------------------------
(* Globals and flags, over two files *)

RuleForms == [k \in {"global", "rule", "style", "loc"} |-> Form(TRUE, TRUE, <<>>)]
Global(id, type) == [id |-> id, type |-> Plain(type)]

NamingGlobals ==
    {Set(k, Word(w)) : k \in {"set_flag", "flag_set", "x"}, w \in {"g", "h"}}
      \cup {Set("clear_flag", Whole("1")), Set("flag_set", List(<<Word("g")>>)), Set("set_global", Word("g")),
            Set("set_global", List(<<Word("g")>>)), Set("x", CallOf(<<Word("g")>>))}
      \cup {Set("set_global", Record(<<Set("id", Word("g")), Set("value", v)>>)) :
              v \in {Word("h"), Record(<<Set("flag_set", Word("h"))>>), CallOf(<<CallOf(<<Word("h")>>)>>)}}
      \cup {Set("add_global", Record(<<Set("id", Record(<<Set("x", Word("g"))>>))>>)),
            Set("global", Record(<<Set("g", Word("h"))>>)), Set("global", List(<<Word("g")>>)),
            Set("all", Record(<<Set("global", Record(<<Set("h", Record(<<Set("x", Word("g"))>>))>>))>>)),
            Set("of", List(<<Word("g"), Whole("1")>>))}

Rule(b) == <<Set("rule", Record(b))>>

OverGlobals(declared) ==
    [Against([Registered EXCEPT !.forms = RuleForms @@ @, !.globals = declared], {Rule(<<x>>) : x \in NamingGlobals})
        EXCEPT !.others = {<<Rule(<<x>>)>> : x \in NamingGlobals}
                  \cup {<<<<Set("global", Record(<<Set("id", Word("g")), Set("initial", Word("h"))>>))>>>>}]

-----------------------------------------------------------------------------
(* Styles and keys, over two files *)

K == Scalar("LocKey", "k", <<>>, <<>>)
InStyle(v, style) == Noted(v, <<Annotation("style", style)>>)
Styled == Str(<<"a", "warm">>)
Table(lang, entries) == Set("loc", Record(<<Set("lang", Word(lang))>> \o entries))

Tabulating ==
    {Table("en", <<Set("k", v)>>) : v \in {Str(<<>>), Str(<<"[", "warm">>)}} \cup {Table("fr", <<Set("k", Styled)>>)}
      \cup {Table("en", <<Set("k", K), Set("l", InStyle(Record(<<Set("k", InStyle(K, <<Argument("cold")>>))>>), <<Argument("warm")>>))>>),
            Table("en", <<Set("k", Nothing), Set("k", InStyle(Str(<<"cold">>), <<>>))>>), Set("loc", K), Set("loc", List(<<K>>))}

NamingTexts ==
    {Set("style", Record(<<Set("id", Word("warm")), Set("doc", Str(c))>>)) : c \in {<<"cold">>, <<"[", "cold", "]", "warm">>}}
      \cup {Set("rule", v) : v \in {K, Styled, Nothing, InStyle(Whole("1"), <<Argument("cold")>>), CallOf(<<Whole("1"), K>>),
                                    CallOf(<<CallOf(<<K>>), Styled>>), CallOf(<<CallOf(<<Styled, CallOf(<<Whole("1"), K>>)>>)>>), List(<<K, Styled>>), Str(<<"[", "]", "\\", "warm">>),
                                    Record(<<Set("x", Record(<<Set("y", InStyle(K, <<Argument("warm")>>))>>)), Set("z", Nothing)>>)}}
      \cup {Set("style", Word("cold"))}

OverTexts ==
    [Against([Registered EXCEPT !.forms = RuleForms @@ @],
             {<<x, y>> : x \in Tabulating, y \in Tabulating \cup NamingTexts} \cup {<<x>> : x \in NamingTexts})
        EXCEPT !.others = {<<<<x>>>> : x \in Tabulating \cup NamingTexts}]

-----------------------------------------------------------------------------

AllPrograms ==
    {Against(Registered, OfEveryType \cup OnItsOwnAndInside \cup Often \cup Answers \cup GatedAnswers \cup AsObjects \cup Annotating)}
      \cup {OfKey(k) : k \in {Key("x", t) : t \in DeclaredOnce} \cup {Typed("x", "nowhere")}}
       \cup {OfProperty(t) : t \in Inner} \cup {OfGlobal(t) : t \in Inner}
       \cup {OverGlobals(d) : d \in {{}, {Global("g", "bool")}, {Global("g", "int"), Global("h", "bool")}}} \cup {OverTexts}

GatedPrograms == {Against(Registered, GatedAnswers)}
=============================================================================
