----------------------------- MODULE Templates ------------------------------
(***************************************************************************)
(* Templates (stardata/text/template.cpp, spec 9.1, 9.2): the scanner that *)
(* cuts the source of a string into fragments, and the parser of what is   *)
(* between the brackets.  A text is a sequence of characters, of which a   *)
(* reserved word, a directive that opens a style and `@endstyle` are one   *)
(* each; a range is from its first place up to, not including, its last.   *)
(***************************************************************************)
EXTENDS Integers, Sequences, FiniteSetsExt

CONSTANTS Letters, Numerals,
          Styles,      \* the directives `@style(name)`, each its name
          QuadLength   \* the digits of a \u escape, 4 in the code

Begins == Letters \cup Numerals \cup {"-", "\\"}
InNames == Letters \cup Numerals

\* The end of the longest run of characters of `chars` from i on.
PastRun(s, chars, i, to) == Min({j \in i..to : j = to \/ s[j] \notin chars})
PastSpaces(s, i, to) == PastRun(s, {" "}, i, to)
PastName(s, i, to) == PastRun(s, InNames, i, to)

\* (A mutant: as if a \u were all of its escape.)
EscapeOfPair(s, i) == IF i = Len(s) THEN 1 ELSE 2

\* escape_length: a pair is skipped whole, and \u with its digits.
EscapeLength(s, i) ==
    LET left == Len(s) - i + 1
        whole == IF left > 1 /\ s[i + 1] = "u" THEN 2 + QuadLength ELSE 2
    IN  IF whole <= left THEN whole ELSE left

-----------------------------------------------------------------------------
(* ExprParser: where what starts at a place ends, and 0 if nothing does *)

Here(s, i, to, chars) == i < to /\ s[i] \in chars

\* parse_number
PastNumber(s, i, to) ==
    LET digits == IF s[i] = "-" THEN i + 1 ELSE i
        whole == PastRun(s, Numerals, digits, to)
    IN  IF whole = digits THEN 0
        ELSE IF Here(s, whole, to, {"."}) /\ Here(s, whole + 1, to, Numerals)
             THEN PastRun(s, Numerals, whole + 1, to) ELSE whole

\* parse_string: between two escaped quotes.
Quote(s, i, to) == Here(s, i, to, {"\\"}) /\ Here(s, i + 1, to, {"\""})
PastString(s, i, to) ==
    LET closing == {j \in (i + 2)..to : Quote(s, j, to)}
    IN  IF Quote(s, i, to) /\ closing # {} THEN Min(closing) + 2 ELSE 0

\* The segments of a path, from a dot on.
PastPath(s, i, to) ==
    LET past[j \in i..to] ==
            IF ~Here(s, j, to, {"."}) THEN j
            ELSE IF Here(s, j + 1, to, Letters) THEN past[PastName(s, j + 1, to)] ELSE 0
    IN  past[i]

\* An expression: its kind, where it ends and where in it paths start.
NoExpr == [kind |-> "none", end |-> 0, paths |-> {}]
Expr(kind, end, paths) == IF end = 0 THEN NoExpr ELSE [kind |-> kind, end |-> end, paths |-> paths]

\* parse_expr, and the arguments of a call up to its ')'.
ParseExpr(s, from, to) ==
    LET parse[p \in {"expr", "arguments"} \X (from..to)] ==
            LET i == PastSpaces(s, p[2], to)
                name == PastName(s, i, to)
                next == PastSpaces(s, name, to)
                one == parse[<<"expr", p[2]>>]
                after == PastSpaces(s, one.end, to)
                more == parse[<<"arguments", after + 1>>]
                inner == parse[<<"expr", next>>]
                first == PastSpaces(s, name + 1, to)
                list == parse[<<"arguments", first>>]
                called == IF Here(s, first, to, {")"}) THEN Expr("Call", first + 1, {}) ELSE list
                named == CASE Here(s, name, to, {"("}) -> called
                           [] Here(s, name, to, {"."}) -> Expr("Path", PastPath(s, name, to), {i})
                           [] Here(s, next, to, Begins) -> Expr("Apply", inner.end, inner.paths)
                           [] OTHER -> Expr("Name", name, {})
            IN  IF p[1] = "arguments"
                THEN IF one.end = 0 THEN NoExpr
                     ELSE IF Here(s, after, to, {","}) THEN Expr("Call", more.end, one.paths \cup more.paths)
                     ELSE IF Here(s, after, to, {")"}) THEN Expr("Call", after + 1, one.paths) ELSE NoExpr
                ELSE CASE Here(s, i, to, Numerals \cup {"-"}) -> Expr("Number", PastNumber(s, i, to), {})
                       [] Here(s, i, to, {"\\"}) -> Expr("String", PastString(s, i, to), {})
                       [] Here(s, i, to, Letters) -> named
                       [] OTHER -> NoExpr
    IN  parse[<<"expr", from>>]

\* parse_all
ParseAll(s, from, to) ==
    LET expr == ParseExpr(s, from, to)
    IN  IF expr.end # 0 /\ PastSpaces(s, expr.end, to) = to THEN expr ELSE NoExpr

-----------------------------------------------------------------------------
(* Scanner: the pieces of a text, which are its fragments and stray brackets *)

Piece(kind, from, to) == [kind |-> kind, from |-> from, to |-> to, reported |-> FALSE]
Reported(kind, from, to) == [Piece(kind, from, to) EXCEPT !.reported = TRUE]

\* The range between two brackets without the spaces around it.
Trimmed(s, open, close) ==
    LET start == PastSpaces(s, open + 1, close)
    IN  <<start, Min({j \in start..close : \A k \in j..(close - 1) : s[k] = " "})>>

\* Reserved words come first: what is left is for the expression parser.
KindOf(s, open, close) ==
    LET in == Trimmed(s, open, close)
        word == SubSeq(s, in[1], in[2] - 1)
    IN  CASE word = <<"else">> -> "Else"
          [] word = <<"end">> -> "End"
          [] Len(word) > 1 /\ SubSeq(word, 1, 2) = <<"if", " ">> -> "If"
          [] OTHER -> "Interpolation"

\* Fragment::expr
ExprOf(s, f) ==
    LET in == Trimmed(s, f.from, f.to - 1)
    IN  CASE f.kind = "If" -> ParseAll(s, in[1] + 1, in[2])
          [] f.kind = "Interpolation" -> ParseAll(s, in[1], in[2])
          [] OTHER -> NoExpr

\* The ']' that closes what is open, past the end of the text if none does.
Closing(s, i) ==
    LET from[j \in 1..(Len(s) + 1)] ==
            IF j > Len(s) \/ s[j] = "]" THEN j
            ELSE from[j + (IF s[j] = "\\" THEN EscapeLength(s, j) ELSE 1)]
    IN  from[i]

\* run.  The literal text before i starts at `start`.
Template(s) ==
    LET end == Len(s) + 1
        scan[p \in (1..end) \X (1..end)] ==
            LET start == p[1]
                i == p[2]
                close == Closing(s, i + 1)
                literal == IF start < i THEN <<Piece("Literal", start, i)>> ELSE <<>>
                then(piece) == literal \o <<piece>> \o scan[<<piece.to, piece.to>>]
            IN  IF i = end THEN literal ELSE
                CASE s[i] = "\\" -> scan[<<start, i + EscapeLength(s, i)>>]
                  [] s[i] = "[" /\ close = end -> then(Reported("Literal", i, end))
                  [] s[i] = "[" /\ close < end -> then(Piece(KindOf(s, i, close), i, close + 1))
                  [] s[i] = "]" -> then(Reported("Stray", i, i + 1))
                  [] s[i] = "@endstyle" /\ ~Here(s, i + 1, end, InNames) -> then(Piece("StyleClose", i, i + 1))
                  [] s[i] \in Styles -> then(Piece("StyleOpen", i, i + 1))
                  [] OTHER -> scan[<<start, i + 1>>]
    IN  scan[<<1, 1>>]

PiecesOf(s, kinds) == LET t == Template(s) IN {t[k] : k \in {k \in DOMAIN t : t[k].kind \in kinds}}
BracketsReported(s) == \E k \in DOMAIN Template(s) : Template(s)[k].reported
=============================================================================
