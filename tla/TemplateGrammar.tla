--------------------------- MODULE TemplateGrammar ---------------------------
(***************************************************************************)
(* The grammar of docs/stardata-spec.md, 9.1 and 9.2, as relations: which  *)
(* kinds of expression a range of a text derives, and which brackets pair. *)
(* A name ends where no letter or digit follows; the parenthesis of a call *)
(* and the dots of a path join what is before them; elsewhere spaces may   *)
(* stand.                                                                  *)
(***************************************************************************)
EXTENDS Templates

All(s, i, j, chars) == \A k \in i..(j - 1) : s[k] \in chars

\* The words that are nobody's name (3.3, 3.9) and that 9.2.1 keeps for
\* conditionals, and where one of them stands that is not part of a name.
Reserved == {"if", "else", "end"}
ReservedIn(s, i, j) ==
    {k \in i..(j - 1) : s[k] \in Reserved /\ ~Here(s, k + 1, j, InNames) /\ (k > i => s[k - 1] \notin InNames)}

IsName(s, i, j) == i < j /\ s[i] \in Letters /\ All(s, i, j, InNames) /\ ReservedIn(s, i, j) = {}

\* A name that is not followed by more of it.
WholeName(s, i, k, j) == IsName(s, i, k) /\ ~Here(s, k, j, InNames)

IsNumber(s, i, j) ==
    \E k \in {i, i + 1} : /\ k > i => s[i] = "-"
                          /\ \/ k < j /\ All(s, k, j, Numerals)
                             \/ \E dot \in (k + 1)..(j - 2) : /\ s[dot] = "."
                                                              /\ All(s, k, dot, Numerals) /\ All(s, dot + 1, j, Numerals)

Quotes(s, i, j) == {k \in i..(j - 2) : s[k] = "\\" /\ s[k + 1] = "\""}
IsString(s, i, j) == i < j - 2 /\ Quotes(s, i, j) = {i, j - 2}

IsPath(s, i, j) ==
    /\ i < j /\ s[i] \in Letters /\ All(s, i, j, InNames \cup {"."}) /\ ReservedIn(s, i, j) = {}
    /\ \E dot \in i..(j - 1) : s[dot] = "."
    /\ \A dot \in i..(j - 1) : s[dot] = "." => Here(s, dot + 1, j, Letters)

\* The kinds of expression the characters i to j - 1 are, spaces around them aside.
Derives(s, from, to) ==
    LET expr[p \in {"expr", "list"} \X (from..to) \X (from..to)] ==
            LET i == PastSpaces(s, p[2], p[3])
                j == Min({k \in i..p[3] : All(s, k, p[3], {" "})})
                is(what, l, k) == expr[<<what, l, k>>] # {}
                apart(l, k) == All(s, k, l, {" "}) /\ s[l] # " "
            IN  IF i = j THEN {}
                ELSE IF p[1] = "list"
                THEN IF is("expr", i, j) \/ \E k \in i..(j - 1) : s[k] = "," /\ is("expr", i, k) /\ is("list", k + 1, j)
                     THEN {"List"} ELSE {}
                ELSE {kind \in {"Name", "Number", "String", "Path", "Call", "Apply"} :
                        CASE kind = "Name" -> IsName(s, i, j)
                          [] kind = "Number" -> IsNumber(s, i, j)
                          [] kind = "String" -> IsString(s, i, j)
                          [] kind = "Path" -> IsPath(s, i, j)
                          [] kind = "Call" ->
                                /\ s[j - 1] = ")"
                                /\ \E k \in (i + 1)..(j - 2) : /\ WholeName(s, i, k, j) /\ s[k] = "("
                                                               /\ All(s, k + 1, j - 1, {" "}) \/ is("list", k + 1, j - 1)
                          [] kind = "Apply" ->
                                \E k \in (i + 1)..(j - 1) : /\ WholeName(s, i, k, j)
                                                            /\ \E l \in k..(j - 1) : apart(l, k) /\ is("expr", l, j)}
    IN  expr[<<"expr", from, to>>]

Unquoted(s, i, j, k) == Cardinality({q \in Quotes(s, i, j) : q < k}) % 2 = 0

\* Where a path is written: a name before a dot, outside quoted text.
PathsWritten(s, i, j) ==
    {k \in i..(j - 1) : /\ s[k] \in Letters
                        /\ k > i => s[k - 1] \notin InNames \cup {"."}
                        /\ Here(s, PastName(s, k, j), j, {"."})
                        /\ Unquoted(s, i, j, k)}

\* A reserved word stands where only a name could: the specification has it
\* "never read as applications" (9.2.1), and what holds it derives nothing.
\* The code decides `[else]`, `[end]` and `[if ` alone (template.cpp:414-421),
\* although its comment there says the same of the words; whatever else they
\* stand in it reads with them as names (template.cpp:227).
ReservedAsName(s, i, j) == \E k \in ReservedIn(s, i, j) : Unquoted(s, i, j, k)

-----------------------------------------------------------------------------
(* Brackets *)

\* The characters that no escape takes, or that begin one, and the
\* brackets among them.
Starts(s) ==
    LET width(i) == IF s[i] = "\\" THEN EscapeLength(s, i) ELSE 1
        from[i \in 1..(Len(s) + 1)] == IF i > Len(s) THEN {} ELSE {i} \cup from[i + width(i)]
    IN  from[1]
Brackets(s) == {i \in Starts(s) : s[i] \in {"[", "]"}}

\* Whether the last bracket before a place opens.
Interpolated(s, i) ==
    LET before == {j \in Brackets(s) : j < i} IN before # {} /\ s[Max(before)] = "["

\* Every ']' closes the '[' before it.
Balanced(s) ==
    /\ \A i \in Brackets(s) : s[i] = "]" => Interpolated(s, i)
    /\ ~Interpolated(s, Len(s) + 1)

-----------------------------------------------------------------------------

\* The pieces of a text follow each other from its start to its end; those
\* in brackets are the ones that open outside another and are closed; and
\* what is in brackets, after an `if`, is read as every kind of expression
\* the grammar derives from all of it, and where no reserved word is taken
\* for a name as no other, and as reading exactly the paths written in it.
ReadsAsWritten(s) ==
    LET t == Template(s)
        past(k) == IF k = 0 THEN 1 ELSE t[k].to
        bracketed == PiecesOf(s, {"If", "Else", "End", "Interpolation"})
        opening == {i \in Brackets(s) : s[i] = "[" /\ ~Interpolated(s, i)}
    IN  /\ \A k \in DOMAIN t : t[k].from = past(k - 1) /\ t[k].from < t[k].to
        /\ past(Len(t)) = Len(s) + 1
        /\ {f.from : f \in bracketed} = {i \in opening : \E j \in Brackets(s) : i < j /\ s[j] = "]"}
        /\ \A f \in {f \in bracketed : f.kind \in {"If", "Interpolation"}} :
              LET start == IF f.kind = "If" THEN PastSpaces(s, f.from + 1, f.to) + 1 ELSE f.from + 1
                  expr == ExprOf(s, f)
                  derived == Derives(s, start, f.to - 1)
              IN  /\ derived \subseteq {expr.kind}
                  /\ expr.kind = "none" \/ expr.kind \in derived \/ ReservedAsName(s, start, f.to - 1)
                  /\ derived # {} => expr.paths = PathsWritten(s, start, f.to - 1)
=============================================================================
