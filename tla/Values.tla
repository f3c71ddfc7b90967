------------------------------- MODULE Values -------------------------------
(***************************************************************************)
(* Declared types and what they accept (schema/types.cpp, spec 6.2).  The  *)
(* registry is the class graph of PropertyLookup and the forms, enums,     *)
(* declarations and globals of this module; nothing here changes it.  A    *)
(* type is a name and its arguments.  A scalar is its kind and text, and a *)
(* string its characters, `[` and `\` among them.                          *)
(***************************************************************************)
EXTENDS PropertyLookup, Annotations, Templates

VARIABLES forms,         \* id -> [open, top_level, keys]
          enums,         \* id -> its values
          declarations,  \* {<<namespace, id>>} of forms whose instances have one
          globals        \* {[id, type]}

loaded == <<class, trait, object, local_properties, forms, enums, declarations, globals>>

Type(name, args) == [name |-> name, args |-> args]
Plain(name) == Type(name, <<>>)

-----------------------------------------------------------------------------
(* Type names *)

Atoms == {"bool", "int", "decimal", "float", "text", "string", "identifier", "script", "resource",
          "clock_time", "duration", "dice", "condition_block", "effect_block", "text_or_script",
          "type_expr", "scalar"}
Builtins == Atoms \cup {"ref", "enum", "flags", "list", "set", "block", "map"}

\* builtin_arity
Arity(name) == IF name \in Atoms THEN 0 ELSE IF name = "map" THEN 2 ELSE 1

BlockTypes == {"flags", "list", "set", "map", "block", "condition_block", "effect_block"}

\* (A mutant: an enum wins over a builtin name.)
ResolveEnumFirst(type) ==
    IF type.args = <<>> /\ type.name \in DOMAIN enums THEN Type("enum", <<type>>) ELSE type

\* resolve_type: the bare name of an enum is shorthand for `enum<that>`.
Resolve(type) ==
    IF type.args = <<>> /\ type.name \notin Builtins /\ type.name \in DOMAIN enums
    THEN Type("enum", <<type>>) ELSE type

KnownClass(id) == id \in Declared \/ id \in DeclaredTraits

KeysNamed(form, name) == {i \in DOMAIN form.keys : form.keys[i].name = name}
HasKey(form, name) == KeysNamed(form, name) # {}
FindKey(form, name) == form.keys[Least(KeysNamed(form, name))]

\* The first key of a form with a namespace, Nothing if its instances have no id.
UniqueKey(form) ==
    LET unique == {i \in DOMAIN form.keys : form.keys[i].unique_in # Nothing}
    IN  IF unique = {} THEN Nothing ELSE form.keys[Least(unique)]

-----------------------------------------------------------------------------
(* Strings with a structure *)

Digits(s, i, j) == \A k \in i..j : s[k] \in Numerals

\* [count] 'd' faces [sign modifier]
IsDice(s) ==
    \E d \in DOMAIN s :
       LET faces(j) == d < j /\ Digits(s, d + 1, j)
       IN  /\ s[d] \in {"d", "D"} /\ Digits(s, 1, d - 1)
           /\ \/ faces(Len(s))
              \/ \E m \in DOMAIN s : /\ s[m] \in {"+", "-"} /\ faces(m - 1)
                                     /\ m < Len(s) /\ Digits(s, m + 1, Len(s))

IsClockTime(s) ==
    /\ Len(s) \in {5, 8}
    /\ \A k \in DOMAIN s : IF k \in {3, 6} THEN s[k] = ":" ELSE s[k] \in Numerals

-----------------------------------------------------------------------------
(* Scalars *)

IsWord(v, word) == v.is = "scalar" /\ v.kind = "Identifier" /\ v.text = word

ScalarFits(s, name) ==
    CASE name = "bool" -> IsWord(s, "yes") \/ IsWord(s, "no")
      [] name = "int" -> s.kind = "Integer"
      [] name \in {"decimal", "float"} -> s.kind \in {"Integer", "Decimal"}
      [] name = "text" -> s.kind \in {"String", "LocKey"}
      [] name \in {"string", "resource", "clock_time", "dice"} -> s.kind = "String"
      [] name \in {"identifier", "script", "enum", "ref", "type_expr"} -> s.kind = "Identifier"
      [] name = "text_or_script" -> s.kind \in {"String", "LocKey", "Identifier"}
      [] name = "duration" -> s.kind = "Integer" \/ IsWord(s, "default")
      [] OTHER -> name = "scalar"

\* check_reference: to an object where the target is a class or a trait, to
\* an instance in the form's namespace where it is a form.
CheckReference(s, target, at) ==
    LET unique == UniqueKey(forms[target])
        resolves == IF KnownClass(target) THEN s.text \in Objects /\ object[s.text] # Nothing
                    ELSE \/ target \notin DOMAIN forms
                         \/ unique = Nothing
                         \/ <<unique.unique_in, s.text>> \in declarations
    IN  IF s.text \in {"none", "inherit"} \/ resolves THEN {} ELSE {Note("RefUnresolved", at)}

Mismatch(at) == {Note("TypeMismatch", at)}

CheckScalar(s, type, at) ==
    CASE ~ScalarFits(s, type.name) -> Mismatch(at)
      [] type.name = "enum" /\ type.args # <<>> ->
            LET id == type.args[1].name
            IN  IF id \in DOMAIN enums /\ s.text \notin enums[id] THEN Mismatch(at) ELSE {}
      [] type.name = "ref" /\ type.args # <<>> -> CheckReference(s, type.args[1].name, at)
      [] type.name \in {"text", "text_or_script"} /\ s.kind = "String" ->
            IF BracketsReported(s.chars) THEN {Note("TemplateBrackets", at)} ELSE {}
      [] type.name = "dice" -> IF IsDice(s.chars) THEN {} ELSE Mismatch(at)
      [] type.name = "clock_time" -> IF IsClockTime(s.chars) THEN {} ELSE Mismatch(at)
      [] OTHER -> {}

-----------------------------------------------------------------------------
(* Declared types *)

\* Whether the argument of `enum`, `flags`, `block` or `ref` names something.
NamesSomething(type) ==
    LET id == type.args[1].name
    IN  CASE type.name \in {"enum", "flags"} -> id \in DOMAIN enums
          [] type.name = "block" -> id \in DOMAIN forms \cup {"schema", "key"}
          [] type.name = "ref" -> KnownClass(id) \/ id \in DOMAIN forms

\* check_type, but for the arguments it goes on to.
TypeReported(type) ==
    LET t == Resolve(type)
    IN  \/ t.name \notin Builtins
        \/ Len(t.args) # Arity(t.name)
        \/ t.name \in {"enum", "flags", "block", "ref"} /\ ~NamesSomething(t)

\* (Mutants: the names in `enum` and its like are gone on to as types; of
\* a map only the keys are.)
TypeArgumentsAll(type) ==
    IF TypeReported(type) THEN <<>> ELSE Resolve(type).args
TypeArgumentsFirst(type) ==
    LET t == Resolve(type)
    IN  IF TypeReported(type) \/ t.name \in {"enum", "flags", "block", "ref"} \/ t.args = <<>>
        THEN <<>> ELSE <<t.args[1]>>

\* The arguments check_type goes on to.
TypeArguments(type) ==
    LET t == Resolve(type)
    IN  IF TypeReported(type) \/ t.name \in {"enum", "flags", "block", "ref"} THEN <<>> ELSE t.args
=============================================================================
