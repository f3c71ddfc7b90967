-------------------------------- MODULE Names --------------------------------
(***************************************************************************)
(* The names a program uses across its files: globals and flags            *)
(* (starcore/globals.cpp, spec 6.4), styles and localisation keys          *)
(* (starcore/text.cpp, 9.3, 9.6).  Both are collected a file at a time,    *)
(* and answered once every file is in.  A place is the number of a file    *)
(* and a path in it.                                                       *)
(***************************************************************************)
EXTENDS Instances, SequencesExt

CONSTANT Nesting   \* how deep blocks stand in one another

\* What is reached from a start in so many steps to what is beyond, and all
\* that is, as deep as blocks go.
Level(start, Beyond(_)) ==
    LET at[n \in 0..Nesting] == IF n = 0 THEN {start} ELSE UNION {Beyond(x) : x \in at[n - 1]}
    IN  at
ReachedFrom(start, Beyond(_)) == UNION {Level(start, Beyond)[n] : n \in 0..Nesting}

\* Where nothing of a file is to be shown: the registry.
Registry == <<0>>

Answer(code, name, at) == [code |-> code, name |-> name, at |-> at]

-----------------------------------------------------------------------------
(* GlobalIndex *)

FlagWrites == {"set_flag", "clear_flag"}
GlobalWrites == {"set_global", "add_global"}

Use(id, kind, at) == [id |-> id, kind |-> kind, at |-> at]
UseOf(v, kind, at) == IF Identifier(v) = Nothing THEN {} ELSE {Use(Identifier(v), kind, at)}

FlagUse(s, at) == UseOf(s.value, IF s.key = "flag_set" THEN "FlagRead" ELSE "FlagWrite", at)

\* A `global = { .. }` inside a block: each key is tested.
Tested(block, at) == {Use(block.body[i].key, "Read", Append(at, i)) : i \in DOMAIN block.body}

InnerBlocks(block) == {i \in DOMAIN block.body : IsBlock(block.body[i].value)}

BlockAt(block, at) == [block |-> block, at |-> at]

\* The blocks GlobalIndex::walk goes on to.  Of a write only what is in the
\* blocks beside its `id` is looked at.
WalkedInto(b) ==
    UNION {LET s == b.block.body[i]
               here == Append(b.at, i)
           IN  IF ~IsBlock(s.value) \/ s.key \in FlagWrites \cup {"flag_set", "global"} THEN {}
               ELSE IF s.key \notin GlobalWrites THEN {BlockAt(s.value, here)}
               ELSE {BlockAt(s.value.body[j].value, Append(here, j)) :
                        j \in InnerBlocks(s.value) \ With(s.value, "id")} : i \in DOMAIN b.block.body}

\* The uses it adds in a block itself; of a write, its `id`.
UsesHere(b) ==
    (UNION {LET s == b.block.body[i]
               here == Append(b.at, i)
           IN  CASE s.key \in FlagWrites \cup {"flag_set"} -> FlagUse(s, here)
                 [] s.key \in GlobalWrites /\ IsBlock(s.value) ->
                       UseOf(ValueOf(s.value, "id"), "Write", Append(here, Least(With(s.value, "id"))))
                 [] s.key = "global" /\ IsBlock(s.value) -> Tested(s.value, here)
                 [] OTHER -> UseOf(s.value, "Mentioned", here) : i \in DOMAIN b.block.body})
      \cup UNION {UseOf(b.block.values[i], "Mentioned", Append(b.at, i)) : i \in DOMAIN b.block.values}

Walk(block, at) == UNION {UsesHere(b) : b \in ReachedFrom(BlockAt(block, at), WalkedInto)}

\* add_file: a declaration is not a use of itself.
UsesIn(written, n) ==
    UNION {Walk(written[i].value, <<n, i>>) :
             i \in {i \in DOMAIN written : IsBlock(written[i].value) /\ written[i].key \notin {"global", "const"}}}

DeclaredGlobals(id) == {g \in globals : g.id = id}
Sugared(use) == use.kind \in {"FlagRead", "FlagWrite"}
Reading(use) == use.kind \in {"FlagRead", "Read", "Mentioned"}
Certain(use) == use.kind # "Mentioned"

\* GlobalIndex::check
GlobalAnswers(uses) ==
    {Answer(IF Sugared(u) THEN "FlagUndeclared" ELSE "GlobalUndeclared", u.id, u.at) :
        u \in {u \in uses : DeclaredGlobals(u.id) = {} /\ Certain(u)}}
      \cup {Answer("FlagNotBool", u.id, u.at) :
               u \in {u \in uses : Sugared(u) /\ \E g \in DeclaredGlobals(u.id) : g.type.name # "bool"}}
      \cup {Answer("GlobalUnused", g.id, Registry) :
               g \in {g \in globals : \A u \in uses : u.id = g.id => ~Reading(u)}}

-----------------------------------------------------------------------------
(* TextIndex *)

NoTexts == [styles |-> {}, entries |-> <<>>, style_references |-> {}, loc_references |-> {}]

Reference(name, at) == [name |-> name, at |-> at]

\* collect_annotations
Styling(v, at) ==
    {Reference(v.notes[i].args[1].text, Append(at, i)) :
        i \in {i \in DOMAIN v.notes : v.notes[i].name = "style" /\ v.notes[i].args # <<>>}}

\* style_directives
Directives(s) == {f.from : f \in PiecesOf(s, {"StyleOpen"})}

Directed(v, at) ==
    IF v.kind # "String" THEN {}
    ELSE {Reference(v.chars[i], Append(at, i)) : i \in Directives(v.chars)}

KeyReference(v, at) == IF v.is = "scalar" /\ v.kind = "LocKey" THEN {Reference(v.text, at)} ELSE {}

\* The values TextIndex::walk goes on to, and what it adds at each.
ValueAt(v, at) == [value |-> v, at |-> at]
WalkedValues(w) ==
    IF ~IsBlock(w.value) THEN {}
    ELSE {ValueAt(w.value.body[i].value, Append(w.at, i)) : i \in {i \in DOMAIN w.value.body : w.value.body[i].value # Nothing}}

StylesHere(w) ==
    Styling(w.value, w.at) \cup
    CASE w.value.is = "scalar" -> Directed(w.value, w.at)
      [] w.value.is = "block" -> UNION {Directed(w.value.values[i], Append(w.at, i)) : i \in DOMAIN w.value.values}
      [] OTHER -> {}

KeysHere(w) ==
    CASE w.value.is = "scalar" -> KeyReference(w.value, w.at)
      [] w.value.is = "call" -> UNION {KeyReference(w.value.args[i], Append(w.at, i)) : i \in DOMAIN w.value.args}
      [] w.value.is = "block" -> UNION {KeyReference(w.value.values[i], Append(w.at, i)) : i \in DOMAIN w.value.values}
      [] OTHER -> {}

StylesIn(v, at) == UNION {StylesHere(w) : w \in ReachedFrom(ValueAt(v, at), WalkedValues)}
KeysIn(v, at) == UNION {KeysHere(w) : w \in ReachedFrom(ValueAt(v, at), WalkedValues)}

Tables(written) == {i \in DOMAIN written : written[i].key = "loc" /\ IsBlock(written[i].value)}
Walked(written) == {i \in DOMAIN written : written[i].key # "loc" /\ written[i].value # Nothing}

\* read_style
StyleNames(written) ==
    {Identifier(ValueOf(written[i].value, "id")) :
        i \in {i \in DOMAIN written : written[i].key = "style" /\ IsBlock(written[i].value)}} \ {Nothing}

\* read_loc, over every table of a file: the entries in order.
EntriesOf(block, at) ==
    LET lines == SelectSeq([i \in DOMAIN block.body |-> i], LAMBDA i : block.body[i].key # "lang")
    IN  [k \in DOMAIN lines |->
            [lang |-> Identifier(ValueOf(block, "lang")), key |-> block.body[lines[k]].key,
             value |-> block.body[lines[k]].value, at |-> Append(at, lines[k])]]

EntriesIn(written, n) ==
    FlattenSeq([i \in DOMAIN written |->
                  IF i \in Tables(written) THEN EntriesOf(written[i].value, <<n, i>>) ELSE <<>>])

Same(e, f) == e.lang = f.lang /\ e.key = f.key

\* (A mutant: an entry is compared with those of every file before it.)
AgainstAll(old, new) == {i \in DOMAIN new : \/ \E j \in 1..(i - 1) : Same(new[i], new[j])
                                            \/ \E j \in DOMAIN old : Same(new[i], old[j])}

\* The new entries that repeat one: one of their own file.
RepeatedEntries(old, new) == {i \in DOMAIN new : \E j \in 1..(i - 1) : Same(new[i], new[j])}

EntryStyles(e) ==
    IF e.value = Nothing THEN {}
    ELSE Styling(e.value, e.at) \cup (IF e.value.is = "scalar" THEN Directed(e.value, e.at) ELSE {})

\* add_file: what the index holds with the file, and what is said at once.
WithFile(texts, written, n) ==
    LET new == EntriesIn(written, n)
    IN  [styles |-> texts.styles \cup StyleNames(written),
         entries |-> texts.entries \o [i \in DOMAIN new |-> [lang |-> new[i].lang, key |-> new[i].key, at |-> new[i].at]],
         style_references |-> texts.style_references
             \cup (UNION {EntryStyles(new[i]) : i \in DOMAIN new})
             \cup (UNION {StylesIn(written[i].value, <<n, i>>) : i \in Walked(written)}),
         loc_references |-> texts.loc_references \cup (UNION {KeysIn(written[i].value, <<n, i>>) : i \in Walked(written)})]

FileAnswers(texts, written, n) ==
    LET new == EntriesIn(written, n)
        broken == {i \in DOMAIN new : /\ new[i].value # Nothing /\ new[i].value.is = "scalar"
                                      /\ new[i].value.kind = "String" /\ BracketsReported(new[i].value.chars)}
    IN  {Answer("LocDuplicate", new[i].key, new[i].at) : i \in RepeatedEntries(texts.entries, new)}
          \cup {Answer("TemplateBrackets", new[i].key, new[i].at) : i \in broken}

\* TextIndex::check.  A key is unused once, where it was first written.
TextAnswers(texts) ==
    LET defined == {texts.entries[i].key : i \in DOMAIN texts.entries}
        referenced == {r.name : r \in texts.loc_references}
        first(key) == CHOOSE i \in DOMAIN texts.entries : /\ texts.entries[i].key = key
                                                          /\ \A j \in 1..(i - 1) : texts.entries[j].key # key
    IN  {Answer("StyleUndeclared", r.name, r.at) : r \in {r \in texts.style_references : r.name \notin texts.styles}}
          \cup {Answer("LocUndefined", r.name, r.at) : r \in {r \in texts.loc_references : r.name \notin defined}}
          \cup {Answer("LocUnused", key, texts.entries[first(key)].at) : key \in defined \ referenced}
=============================================================================
