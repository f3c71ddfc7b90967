------------------------------- MODULE Parsing -------------------------------
(***************************************************************************)
(* lex() and then parse() over one file, and what the tree promises.       *)
(***************************************************************************)
EXTENDS Parser

G == INSTANCE Grammar

\* The reserved words of templates, and `@style(id)` and `@endstyle`, are
\* single characters, which no file has outside of strings.
T == INSTANCE TemplateGrammar
       WITH Letters <- IdentStart \cup {"if", "else", "end"}, Numerals <- Digits, Styles <- {"@style"}

(***************************************************************************)
(* Properties.                                                             *)
(***************************************************************************)
Terminals ==
  [i \in 1..Len(tokens) |-> IF tokens[i].kind \in {"Punctuation", "Angle"} THEN source[tokens[i].from]
                            ELSE tokens[i].kind]

\* The parser is silent on exactly the files its grammar derives: a file that
\* can be derived is never complained about, and one that cannot always is,
\* with one token of lookahead and no look at any white space.  (Lax: the parser
\* also lets `f(a,)` and `list<>` through.)
SilentOnTheGrammar == Parsed => (said = {} <=> G!DerivesFile(Terminals, TRUE))

\* Body: where the characters of the template come from that is written in
\* the literals of a scalar.  Each loses its first and its last.
StringsOf(n) == {i \in TokenLeaves(n) : Leaf(i).kind = "String"}
Body(n) ==
  FlattenSeq([k \in 1..(n.last - n.first + 1) |->
                LET leaf == Leaf(n.first + k - 1)
                IN IF leaf.kind = "String" THEN [m \in 1..Max2(0, leaf.to - leaf.from - 2) |-> leaf.from + m] ELSE <<>>])

Unreported(leaf) == ~\E r \in reports : leaf.from <= r.from /\ r.to <= leaf.to

\* A template is read as it is written, over all the literals it is written
\* in: none of it is lost or read twice; what is in brackets has the
\* expression and the paths that the grammar derives from all of it; what the
\* grammar does not derive has none, but where the code takes a word that is
\* reserved for a name (`[else a]`, `[if(a)]`: ReservedAsName, a disagreement
\* with 9.2.1); and in literals the lexer is content with, escapes are cut
\* where the lexer and its decoder cut them, so that no bracket is inside
\* one (9.1).
TemplatesRead ==
  Parsed => \A n \in {n \in nodes : n.kind = "Scalar"} :
    LET body == Body(n)
        text == [k \in DOMAIN body |-> source[body[k]]]
        skipped == {k \in T!Starts(text) : text[k] = "\\"}
    IN /\ T!ReadsAsWritten(text)
       /\ (\A i \in StringsOf(n) : Unreported(Leaf(i))) =>
            {<<body[k], body[k] + T!EscapeLength(text, k)>> : k \in skipped}
              = UNION {{cut \in Decoded(Leaf(i)) : cut[2] > cut[1] + 1} : i \in StringsOf(n)}

\* Recovery never loops: a file of any bytes is read to its end.
ReadToTheEnd == <>Parsed
=============================================================================
