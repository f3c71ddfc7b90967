------------------------------- MODULE Grammar -------------------------------
(***************************************************************************)
(* The grammar of docs/stardata-spec.md, sections 3.8, 4 and 4.1, as the   *)
(* places where a derivation can end: X(s, i, ..) is the set of j such     *)
(* that the terminals s[i] .. s[j - 1] derive X.  A terminal is the kind   *)
(* of a token, or its text for a bracket, a brace or a comma, and the last *)
(* is "EndOfFile".  `lax` adds what the parser lets through besides: a     *)
(* list of arguments that ends in a comma, an empty list of type           *)
(* arguments, and annotation arguments in any arrangement.                 *)
(***************************************************************************)
EXTENDS Integers, Sequences

Scalar(s, i) ==
  IF s[i] = "String" THEN {CHOOSE j \in (i + 1)..Len(s) : s[j] # "String" /\ \A k \in i..(j - 1) : s[k] = "String"}
  ELSE IF s[i] \in {"Identifier", "Integer", "Decimal", "LocKey"} THEN {i + 1} ELSE {}

Then(s, ends, terminal) == {j + 1 : j \in {k \in ends : s[k] = terminal}}
Also(lax, ends) == IF lax THEN ends ELSE {}

RECURSIVE TypeArgs(_, _, _), CallArgs(_, _, _), AnnotationArgs(_, _, _)
RECURSIVE Value(_, _, _), Statements(_, _, _), ScalarList(_, _)

TypeExpr(s, i, lax) ==
  IF s[i] = "Identifier" /\ s[i + 1] = "<"
  THEN Then(s, TypeArgs(s, i + 2, lax) \cup Also(lax, {i + 2}), ">") ELSE {}

TypeArgs(s, i, lax) ==
  LET one == TypeExpr(s, i, lax) \cup (IF s[i] = "Identifier" THEN {i + 1} ELSE {})
      more == Then(s, one, ",")
  IN one \cup Also(lax, more) \cup UNION {TypeArgs(s, j, lax) : j \in more}

CallExpr(s, i, lax) ==
  IF s[i] = "Identifier" /\ s[i + 1] = "("
  THEN Then(s, CallArgs(s, i + 2, lax) \cup {i + 2}, ")") ELSE {}

CallArgs(s, i, lax) ==
  LET one == CallExpr(s, i, lax) \cup Scalar(s, i)
      more == Then(s, one, ",")
  IN one \cup Also(lax, more) \cup UNION {CallArgs(s, j, lax) : j \in more}

AnnotationArgs(s, i, lax) ==
  IF lax
  THEN IF s[i] \in {"Identifier", "Integer", ","} THEN {i + 1} \cup AnnotationArgs(s, i + 1, lax) ELSE {}
  ELSE LET one == IF s[i] \in {"Identifier", "Integer"} THEN {i + 1} ELSE {}
       IN one \cup UNION {AnnotationArgs(s, j, lax) : j \in Then(s, one, ",")}

BracketedArgs(s, i, lax) ==
  IF s[i] = "(" THEN Then(s, AnnotationArgs(s, i + 1, lax) \cup Also(lax, {i + 1}), ")") ELSE {}

Value(s, i, lax) ==
  CASE s[i] = "Annotation" -> UNION {Value(s, j, lax) : j \in {i + 1} \cup BracketedArgs(s, i + 1, lax)}
    [] s[i] = "{" -> Then(s, Statements(s, i + 1, lax) \cup ScalarList(s, i + 1), "}")
    [] OTHER -> TypeExpr(s, i, lax) \cup CallExpr(s, i, lax) \cup Scalar(s, i)

Statement(s, i, lax) ==
  IF s[i] \in {"Identifier", "String"} /\ s[i + 1] \in {"Operator", "<", ">"} THEN Value(s, i + 2, lax) ELSE {}

Statements(s, i, lax) == {i} \cup UNION {Statements(s, j, lax) : j \in Statement(s, i, lax)}
ScalarList(s, i) == {i} \cup UNION {ScalarList(s, j) : j \in Scalar(s, i)}

DerivesFile(s, lax) == Len(s) \in Statements(s, 1, lax)
=============================================================================
