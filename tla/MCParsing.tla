------------------------------- MODULE MCParsing ------------------------------
EXTENDS Parsing

AnyByte == IdentStart \cup Digits \cup Escapes \cup HighBytes \cup
           {" ", "lf", "cr", "#", "-", ".", "=", "<", ">", "?", "*", "{", "}", ","}
AnyBytes == {<<>>} \cup {<<a>> : a \in AnyByte} \cup {<<a, b>> : a, b \in AnyByte}

\* At most four, and at most five, of a set of words, one after the other.
Words(W) == LET V == W \cup {<<>>} IN {a \o b \o c \o d : a, b, c, d \in V}
Words5(W) == {a \o w : a \in W \cup {<<>>}, w \in Words(W)}

Literals == {<<"\"">> \o w : w \in Words5({<<"\"">>, <<"\\">>, <<"u">>, <<"C">>, <<"lf">>})}
            \cup {<<"\"", "\\", "u", a, b, "\"">> : a, b \in {"1", "d", "n"}}
OtherScripts == Words5({<<"L">>, <<"S">>, <<"E">>, <<"C">>, <<"a">>})
Numbers == Words5({<<"1">>, <<"1", "1", "1">>, <<".">>, <<"-">>})

\* A statement whose value is any few tokens, and a statement after it.
Values == {<<"a", "=">> \o w : w \in
            Words({<<"a">>, <<"<">>, <<">">>, <<",">>, <<"(">>, <<")">>, <<"{">>, <<"}">>, <<"\"", "\"">>,
                   <<"@", "n">>, <<"a", "=">>})}
\* Statements and blocks, comments and blank lines in any order.
Lines == {a \o w : a \in {<<"#", "lf">>, <<"a", "=", "{">>}, w \in
            Words({<<"a", "=", "1">>, <<"a", "=">>, <<"#", "lf">>, <<" ">>, <<"lf">>, <<"a", "=", "{">>, <<"}">>})}

\* A template in one literal or in two, and several in one literal.
InQuotes(w) == <<"a", "=", "\"">> \o w \o <<"\"">>
Break == <<"\"", "lf", "\"">>
Marks == {<<"[">>, <<"]">>, <<"\\">>, <<"u">>, <<"1">>, <<"@style">>, <<"@endstyle">>, Break}
Templates == {InQuotes(w) : w \in Words(Marks)}

Lexemes == {<<"a">>, <<"1">>, <<".">>, <<"(">>, <<")">>, <<",">>, <<" ">>, <<"-">>, <<"\\", "\"">>}
Contents(head, tail) == {<<"[">> \o head \o l \o tail \o <<"]">> : l \in Lexemes}
Each(head, tail) == InQuotes(FoldSet(LAMBDA w, s : s \o w, <<>>, Contents(head, tail)))
Heads == {<<>>, <<"a">>, <<"a", " ">>, <<"a", "(">>, <<"a", ".", "d">>, <<"1">>, <<"-", "1", ".">>, <<"if", " ">>, <<"if">>, <<"else">>,
          <<" ", "end">>, <<"a", "(", "d", ".", "d", ",">>, <<"a", "(", "d", "(">>, <<"\\", "\"", "d", ".", "d">>}
Expressions == {Each(h \o k \o l, t) : h \in Heads, k, l \in Lexemes \cup {<<>>}, t \in {<<>>, <<".", "d", ")">>, <<")", " ", ")">>}}

AllSources == AnyBytes \cup Literals \cup OtherScripts \cup Numbers \cup Values \cup Lines \cup Templates \cup Expressions
=============================================================================
