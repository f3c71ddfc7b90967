----------------------------- MODULE Annotations -----------------------------
(***************************************************************************)
(* Annotations on a value (schema/annotation.cpp, spec 5.4): which may     *)
(* stand where and with what arguments, how an annotated value combines    *)
(* with what it inherits, and in which sessions an annotated statement is  *)
(* there.  A value is a scalar, a block, a call or a type expression with  *)
(* its annotations before it; a statement whose value is missing has       *)
(* Nothing for one.  An annotation is a name and its arguments, each the   *)
(* kind and text of a token and, of an integer, the number.                *)
(***************************************************************************)
EXTENDS Integers, Sequences

CONSTANTS Frontends,   \* kFrontends
          MaxPriority \* the largest number std::stoll can hold

ASSUME FrontendsAssumption == Frontends # {}

Combining == {"before", "after", "override", "merge", "remove"}
Kinds == Combining \cup {"priority", "debug", "platform", "style", "replaces"}

-----------------------------------------------------------------------------
(* What stands where *)

Shape(v) ==
    IF v.is = "block" THEN "block"
    ELSE IF v.is = "scalar" /\ v.kind \in {"String", "LocKey"} THEN "string" ELSE "scalar"

Applies(kind) ==
    CASE kind \in {"before", "after"} -> {"block", "string"}
      [] kind \in {"merge", "remove", "priority"} -> {"block"}
      [] kind = "style" -> {"string"}
      [] OTHER -> {"block", "string", "scalar"}

Note(code, at) == [code |-> code, at |-> at]
BadArgument(at) == Note("AnnotationArgument", at)

UnknownFrontends(args, at) ==
    {BadArgument(Append(at, j)) : j \in {j \in DOMAIN args : args[j].text \notin Frontends}}

\* What is wrong with the arguments of annotation `a`.
CheckArguments(a, at) ==
    CASE a.name \in Combining \cup {"debug"} ->
            IF a.args = <<>> THEN {} ELSE {BadArgument(at)}
      [] a.name = "platform" /\ a.args = <<>> -> {BadArgument(at)}
      [] a.name = "platform" -> UnknownFrontends(a.args, at)
      [] OTHER ->
            IF Len(a.args) # 1 THEN {BadArgument(at)}
            ELSE IF a.args[1].kind = (IF a.name = "priority" THEN "Integer" ELSE "Identifier") THEN {}
            ELSE {BadArgument(Append(at, 1))}

\* (A mutant: only the annotation just before is remembered.)
ConflictingNext(i, combining) == i - 1 \in combining
\* A value carries one annotation that combines it, and this is another.
Conflicting(i, combining) == \E j \in combining : j < i

\* check_value_annotations.  An '@' without a name is the lexer's to report.
CheckValueAnnotations(v, top, at) ==
    LET named == {i \in DOMAIN v.notes : v.notes[i].name # ""}
        known == {i \in named : v.notes[i].name \in Kinds}
        combining == {i \in known : v.notes[i].name \in Combining}
    IN  {Note("UnknownAnnotation", Append(at, i)) : i \in named \ known}
          \cup (UNION {CheckArguments(v.notes[i], Append(at, i)) : i \in known})
          \cup {Note("AnnotationMisapplied", Append(at, i)) :
                   i \in {i \in known : \/ v.notes[i].name = "replaces" /\ ~top
                                        \/ Shape(v) \notin Applies(v.notes[i].name)}}
          \cup {Note("AnnotationConflict", Append(at, i)) :
                   i \in {i \in combining : Conflicting(i, combining)}}

-----------------------------------------------------------------------------
(* How a value combines, and where a statement is there *)

\* The default of the key's `combine` mode, with no annotation.
DefaultMode(v, combine) ==
    CASE combine = "append" -> "after"
      [] combine = "smart" ->
            IF v.is = "block" /\ v.body = <<>> /\ v.values = <<>> THEN "override" ELSE "after"
      [] OTHER -> combine

Least(S) == CHOOSE i \in S : \A j \in S : i <= j
Greatest(S) == CHOOSE i \in S : \A j \in S : i >= j

Combination(mode, priority) == [mode |-> mode, priority |-> priority]

\* combination_of: the first annotation that combines, the last priority.
CombinationOf(v, combine) ==
    LET combining == {i \in DOMAIN v.notes : v.notes[i].name \in Combining}
        priorities == {i \in DOMAIN v.notes :
                          /\ v.notes[i].name = "priority" /\ Len(v.notes[i].args) = 1
                          /\ v.notes[i].args[1].kind = "Integer"
                          /\ v.notes[i].args[1].number <= MaxPriority}
    IN  Combination(IF combining = {} THEN DefaultMode(v, combine) ELSE v.notes[Least(combining)].name,
                    IF priorities = {} THEN 0 ELSE v.notes[Greatest(priorities)].args[1].number)

\* presence_of: the frontends a statement is selected on, none meaning all.
\* @debug narrows the builds and never tells two statements apart.
PresenceOf(v) ==
    UNION {{v.notes[i].args[j].text : j \in {j \in DOMAIN v.notes[i].args : v.notes[i].args[j].kind = "Identifier"}} :
              i \in {i \in DOMAIN v.notes : v.notes[i].name = "platform"}}

CanCoexist(p, q) == p = {} \/ q = {} \/ p \cap q # {}
=============================================================================
