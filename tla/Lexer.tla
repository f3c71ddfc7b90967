-------------------------------- MODULE Lexer --------------------------------
(***************************************************************************)
(* The lexer (src/libs/stardata/src/lex/lexer.cpp): one pass over a file   *)
(* that validates its UTF-8, then cuts every byte into a token or a piece  *)
(* of trivia.                                                              *)
(*                                                                         *)
(* A byte is a member of a small alphabet, one per class the code tells    *)
(* apart.  "lf" and "cr" are the line terminators, "C" a continuation      *)
(* byte, "L" and "S" lead bytes of two-byte characters (a letter and a     *)
(* space of some other script), "E" the lead of the three-byte U+FEFF.     *)
(* The letter "t" by itself stands for the word `true`, and of the letters *)
(* and digits "a", "d" and "1" are hexadecimal.  Offsets count from 1 and  *)
(* a span is [from, to).                                                   *)
(***************************************************************************)
EXTENDS Integers, Sequences, FiniteSets

CONSTANTS Sources,        \* the files that may be read, sequences of bytes
          IntegerDigits,  \* an integer with more digits leaves the int64 range
          QuadLength      \* the digits of a \u escape

ASSUME LexerAssumption == IntegerDigits \in Nat /\ QuadLength \in Nat \ {0}
ASSUME SourcesAssumption == \A s \in Sources : s \in Seq({s[i] : i \in DOMAIN s})

VARIABLES source,    \* the bytes of the file
          pos,       \* the next byte to read
          trivia,    \* the pieces of trivia so far
          tokens,    \* the tokens so far
          consumed,  \* how many pieces of trivia the tokens own
          reports    \* what the lexer reported, as [code, from, to]

lexing == <<source, pos, trivia, tokens, consumed, reports>>

Whitespace == {" ", "lf", "cr"}
LineEnds == {"lf", "cr"}
Digits == {"1"}
HexDigits == {"1", "a", "d"}
IdentStart == {"a", "d", "n", "u", "t"}
IdentContinue == IdentStart \cup Digits \cup {"."}
Escapes == {"\"", "\\", "n", "[", "]", "$", "@"}
TwoCharOperators == {<<"=", "=">>, <<"!", "=">>, <<"<", "=">>, <<">", "=">>, <<"+", "=">>, <<"-", "=">>}
ReservedOperators == {<<"*", "=">>, <<"/", "=">>, <<":", ":">>, <<"-", ">">>}
HighBytes == {"L", "S", "E", "C"}

Max2(m, n) == IF m < n THEN n ELSE m
Min2(m, n) == IF m < n THEN m ELSE n

Slice(i, n) == SubSeq(source, i, Min2(i + n - 1, Len(source)))
Holds(i, Bytes) == i <= Len(source) /\ source[i] \in Bytes
Past(i, Bytes) == CHOOSE j \in i..(Len(source) + 1) :
                    ~Holds(j, Bytes) /\ \A k \in i..(j - 1) : Holds(k, Bytes)

(***************************************************************************)
(* UTF-8: what starts at a byte, how long it is (1 when it is malformed),  *)
(* and where a run of malformed bytes ends.                                *)
(***************************************************************************)
Needed(b) == CASE b \in {"L", "S"} -> 2 [] b = "E" -> 3 [] b = "C" -> 0 [] OTHER -> 1
Decodes(i) == /\ Needed(source[i]) > 0
              /\ \A k \in 1..(Needed(source[i]) - 1) : Holds(i + k, {"C"})
DecodedLength(i) == IF Decodes(i) THEN Needed(source[i]) ELSE 1
Malformed(i) == Holds(i, HighBytes) /\ ~Decodes(i)
PastMalformed(i) == CHOOSE j \in (i + 1)..(Len(source) + 1) :
                      ~Malformed(j) /\ \A k \in (i + 1)..(j - 1) : Malformed(k)

Said(code, from, to) == [code |-> code, from |-> from, to |-> to]

\* validate_utf8: one report for each run of malformed bytes.
InvalidRuns ==
  LET from[i \in 1..(Len(source) + 1)] ==
        IF i > Len(source) THEN {}
        ELSE IF Malformed(i) THEN {Said("Utf8Invalid", i, PastMalformed(i))} \cup from[PastMalformed(i)]
        ELSE from[i + DecodedLength(i)]
  IN from[1]

(***************************************************************************)
(* Emission.  A token owns the trivia pushed since the token before it.    *)
(***************************************************************************)
PushTrivia(kind, to, said) ==
  /\ trivia' = Append(trivia, [kind |-> kind, from |-> pos, to |-> to])
  /\ pos' = to
  /\ reports' = reports \cup said
  /\ UNCHANGED <<source, tokens, consumed>>

PushToken(kind, to, said) ==
  /\ tokens' = Append(tokens, [kind |-> kind, from |-> pos, to |-> to,
                               first |-> consumed + 1, count |-> Len(trivia) - consumed])
  /\ consumed' = Len(trivia)
  /\ pos' = to
  /\ reports' = reports \cup said
  /\ UNCHANGED <<source, trivia>>

(***************************************************************************)
(* Trivia: white space, a comment up to its line's end, a mark or a space  *)
(* of some other script.                                                   *)
(***************************************************************************)
LexWhitespace ==
  /\ Holds(pos, Whitespace)
  /\ PushTrivia("Whitespace", Past(pos, Whitespace), {})

PastComment(i) == CHOOSE j \in i..(Len(source) + 1) :
                    /\ j > Len(source) \/ source[j] \in LineEnds
                    /\ \A k \in i..(j - 1) : source[k] \notin LineEnds

LexComment ==
  /\ Holds(pos, {"#"})
  /\ PushTrivia("Comment", PastComment(pos), {})

UnicodeSpaceAt(i) == Holds(i, {"S", "E"}) /\ Decodes(i)

LexByteOrderMark ==
  /\ pos = 1 /\ trivia = <<>>
  /\ Holds(1, {"E"}) /\ Decodes(1)
  /\ PushTrivia("ByteOrderMark", 4, {})

LexUnicodeWhitespace ==
  /\ UnicodeSpaceAt(pos)
  /\ ~(pos = 1 /\ source[1] = "E")
  /\ LET to == pos + DecodedLength(pos)
     IN PushTrivia("Whitespace", to, {Said("UnicodeWhitespace", pos, to)})

(***************************************************************************)
(* String literals: EscapeAt is one escape (its length and its report),    *)
(* StringAt the literal that starts at a quote.                            *)
(***************************************************************************)
IsHexQuad(q) == Len(q) = QuadLength /\ \A k \in 1..Len(q) : q[k] \in HexDigits
Surrogate(q) == QuadLength > 1 /\ q[1] = "d" /\ q[2] \in {"a", "d"}

EscapeAt(i) ==
  LET quad == Slice(i + 2, QuadLength)
      wrong(n) == [length |-> n, said |-> {Said("StringEscape", i, i + n)}]
      right(n) == [length |-> n, said |-> {}]
  IN CASE i = Len(source) -> wrong(1)
       [] Holds(i + 1, LineEnds) -> wrong(1)
       [] Holds(i + 1, Escapes) -> right(2)
       [] Holds(i + 1, {"u"}) -> IF ~IsHexQuad(quad) THEN wrong(2)
                                 ELSE IF Surrogate(quad) THEN wrong(2 + QuadLength)
                                 ELSE right(2 + QuadLength)
       [] OTHER -> wrong(1 + DecodedLength(i + 1))

StringAt(start) ==
  LET stops(i) == i > Len(source) \/ Holds(i, {"\""} \cup LineEnds)
      length(i) == IF Holds(i, {"\\"}) THEN EscapeAt(i).length ELSE 1
      from[i \in start..(Len(source) + 1)] == IF stops(i) THEN {i} ELSE {i} \cup from[i + length(i)]
      cuts == from[start + 1]
      end == CHOOSE i \in cuts : stops(i)
      escapes == UNION {EscapeAt(i).said : i \in {i \in cuts : Holds(i, {"\\"})}}
  IN IF Holds(end, {"\""}) THEN [to |-> end + 1, said |-> escapes]
     ELSE [to |-> end, said |-> escapes \cup {Said(IF end > Len(source) THEN "StringUnterminated"
                                                  ELSE "StringMultiline", start, end)}]

LexString ==
  /\ Holds(pos, {"\""})
  /\ LET literal == StringAt(pos)
     IN PushToken("String", literal.to, literal.said)

(***************************************************************************)
(* The other tokens, in the order the lexer tries them.                    *)
(***************************************************************************)
LexSigil ==
  /\ Holds(pos, {"$", "@"})
  /\ IF Holds(pos + 1, IdentStart)
     THEN PushToken(IF source[pos] = "$" THEN "LocKey" ELSE "Annotation",
                    Past(pos + 2, IdentContinue), {})
     ELSE PushToken("Error", pos + 1, {Said("BadChar", pos, pos + 1)})

RemovedOperatorAt(i) == Slice(i, 2) = <<"?", "=">>
OperatorLength(i) == CASE Slice(i, 2) \in TwoCharOperators \/ RemovedOperatorAt(i) -> 2
                       [] Slice(i, 2) \notin TwoCharOperators /\ Holds(i, {"="}) -> 1
                       [] OTHER -> 0

LexOperator ==
  /\ pos <= Len(source) /\ OperatorLength(pos) > 0
  /\ PushToken("Operator", pos + OperatorLength(pos),
               IF RemovedOperatorAt(pos) THEN {Said("OpRemoved", pos, pos + 2)} ELSE {})

LexPunctuation ==
  \/ /\ Holds(pos, {"{", "}", "(", ")", ","})
     /\ PushToken("Punctuation", pos + 1, {})
  \/ /\ Holds(pos, {"<", ">"}) /\ OperatorLength(pos) = 0
     /\ PushToken("Angle", pos + 1, {})
  \/ /\ Holds(pos, {"[", "]"})
     /\ PushToken("Error", pos + 1, {Said("BracketOutside", pos, pos + 1)})

NumberAt(i) == Holds(i, Digits) \/ (Holds(i, {"-"}) /\ Holds(i + 1, Digits))
Precision(from, digits, to) == IF digits = 3 THEN {} ELSE {Said("DecimalPrecision", from, to)}

LexNumber ==
  /\ NumberAt(pos)
  /\ LET whole == IF source[pos] = "-" THEN pos + 1 ELSE pos
         dot == Past(whole, Digits)
         end == Past(dot + 1, Digits)
     IN CASE ~Holds(dot, {"."}) ->
               PushToken("Integer", dot, IF dot - whole > IntegerDigits
                                         THEN {Said("IntegerRange", pos, dot)} ELSE {})
          [] Holds(dot, {"."}) /\ Holds(dot + 1, Digits) ->
               PushToken("Decimal", end, Precision(pos, end - dot - 1, end))
          [] OTHER -> PushToken("Decimal", dot + 1, {Said("NumberTrailingDot", pos, dot + 1)})

LexLeadingDot ==
  /\ Holds(pos, {"."}) /\ Holds(pos + 1, Digits)
  /\ LET to == Past(pos + 1, Digits)
     IN PushToken("Decimal", to, {Said("DecimalLeadingDot", pos, to)})

LexIdentifier ==
  /\ Holds(pos, IdentStart)
  /\ LET to == Past(pos, IdentContinue)
     IN PushToken("Identifier", to, IF Slice(pos, to - pos) = <<"t">>
                                    THEN {Said("ReservedWord", pos, to)} ELSE {})

StartsLexeme(i) ==
  \/ source[i] \in Whitespace \cup IdentStart \cup {"#", "\"", "$", "@", "{", "}", "(", ")", ",", "<", ">", "[", "]"}
  \/ UnicodeSpaceAt(i) \/ OperatorLength(i) > 0 \/ NumberAt(i)
  \/ Holds(i, {"."}) /\ Holds(i + 1, Digits)

\* (A mutant: one token for each malformed byte.)
BadByteEnd(i) == IF Slice(i, 2) \in ReservedOperators THEN i + 2 ELSE i + DecodedLength(i)

BadCharacterEnd(i) == IF Malformed(i) THEN PastMalformed(i)
                      ELSE IF Slice(i, 2) \in ReservedOperators THEN i + 2
                      ELSE i + DecodedLength(i)

LexBadCharacter ==
  /\ pos <= Len(source) /\ ~StartsLexeme(pos)
  /\ LET to == BadCharacterEnd(pos)
     IN PushToken("Error", to, IF Malformed(pos) THEN {} ELSE {Said("BadChar", pos, to)})

LexEndOfFile ==
  /\ pos > Len(source)
  /\ PushToken("EndOfFile", pos, {})

Lexed == tokens # <<>> /\ tokens[Len(tokens)].kind = "EndOfFile"

(***************************************************************************)
(* decode_string_escapes: the text of a literal, as the pieces of the      *)
(* source each of its characters comes from.  Both ends lose a quote when  *)
(* they have one.                                                          *)
(***************************************************************************)
InteriorEnd(literal) == IF literal.to - literal.from > 1 /\ source[literal.to - 1] = "\""
                        THEN literal.to - 1 ELSE literal.to

Decoded(literal) ==
  LET end == InteriorEnd(literal)
      length(i) ==
        LET quad == SubSeq(source, i + 2, Min2(i + 1 + QuadLength, end - 1))
        IN CASE source[i] # "\\" \/ i + 1 >= end -> 1
             [] source[i] = "\\" /\ i + 1 < end /\ source[i + 1] \in Escapes -> 2
             [] source[i] = "\\" /\ i + 1 < end /\ source[i + 1] = "u" /\ IsHexQuad(quad) -> 2 + QuadLength
             [] OTHER -> 1
      from[i \in 1..end] == IF i = end THEN {} ELSE {<<i, i + length(i)>>} \cup from[i + length(i)]
  IN from[literal.from + 1]

LexerInit ==
  /\ source \in Sources
  /\ pos = 1
  /\ trivia = <<>>
  /\ tokens = <<>>
  /\ consumed = 0
  /\ reports = InvalidRuns

LexerNext ==
  /\ ~Lexed
  /\ \/ LexByteOrderMark \/ LexWhitespace \/ LexComment \/ LexUnicodeWhitespace
     \/ LexString \/ LexSigil \/ LexOperator \/ LexPunctuation \/ LexNumber
     \/ LexLeadingDot \/ LexIdentifier \/ LexBadCharacter \/ LexEndOfFile

(***************************************************************************)
(* Properties.                                                             *)
(***************************************************************************)

\* A file of any bytes, however broken, is tiled by its tokens and trivia: each
\* token's own run of trivia fills exactly the gap between the token before
\* it and itself, nothing is empty, nothing is read twice and nothing skipped.
TokensTile ==
  \A i \in 1..Len(tokens) :
    LET t == tokens[i]
        gap == IF i = 1 THEN 1 ELSE tokens[i - 1].to
        run == SubSeq(trivia, t.first, t.first + t.count - 1)
    IN /\ (t.to > t.from) <=> (t.kind # "EndOfFile")
       /\ IF run = <<>> THEN t.from = gap
          ELSE /\ run[1].from = gap /\ run[Len(run)].to = t.from
               /\ \A k \in 1..Len(run) : run[k].to > run[k].from
               /\ \A k \in 2..Len(run) : run[k].from = run[k - 1].to
       /\ t.kind = "EndOfFile" => t.to = Len(source) + 1 /\ consumed = Len(trivia)

\* The pass that validates the UTF-8 and the loop that cuts tokens find the
\* malformed bytes each on its own.  Outside strings and comments they agree: an
\* error token that starts with a malformed byte is exactly one reported
\* run, and so every error token lies under one report and none is silent.
MalformedRunsAgree ==
  \A i \in 1..Len(tokens) : LET t == tokens[i] IN t.kind = "Error" =>
    /\ \E r \in reports : r.from = t.from /\ r.to = t.to
    /\ \A r \in reports : r.from < t.to /\ t.from < r.to => r.from = t.from /\ r.to = t.to

\* The lexer reads escapes to find a literal's end and decode_string_escapes
\* reads them again to find its text.  In a literal that closes they cut it the
\* same way: a quote inside it is the end of an escape to the decoder too,
\* and a backslash comes out as itself only where the lexer reported it.
EscapesAgree ==
  \A i \in 1..Len(tokens) : LET t == tokens[i] IN
    t.kind = "String" /\ ~(\E r \in reports : r.from = t.from /\ r.code \in {"StringUnterminated", "StringMultiline"})
      => LET cut == Decoded(t) IN
         \A j \in (t.from + 1)..(t.to - 2) :
           /\ source[j] = "\"" => <<j - 1, j + 1>> \in cut
           /\ source[j] = "\\" /\ <<j, j + 1>> \in cut => \E r \in reports : r.code = "StringEscape" /\ r.from = j

\* What two loops read alike they cut alike: malformed bytes, by the pass that
\* reports and the one that cuts; escapes, by the one that ends a literal
\* and the one that decodes it.
ReadTwiceAlike == MalformedRunsAgree /\ EscapesAgree
=============================================================================
