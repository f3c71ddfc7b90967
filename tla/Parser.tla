-------------------------------- MODULE Parser -------------------------------
(***************************************************************************)
(* The parser (src/libs/stardata/src/cst/parser.cpp) over the lexer's      *)
(* tokens.  Its recursive functions are a machine with a script of what is *)
(* left to do: a parse function is an action that looks at the next tokens *)
(* and replaces its own entry by the calls it makes, and the calls that    *)
(* emit trivia and tokens, open and close nodes and report are actions of  *)
(* their own.  What the green builder is given is kept as `leaves`, the    *)
(* tokens and pieces of trivia in the order they are emitted, and `nodes`, *)
(* each finished node with the leaves it holds (`last` = `first` - 1 when  *)
(* it holds none).                                                         *)
(***************************************************************************)
EXTENDS Lexer, SequencesExt

VARIABLES next,    \* pos_: the index of the token the parser is at
          cursor,  \* how far the trivia before it has been emitted; 0: not at all
          leaves, open, nodes,
          said,    \* what the parser reported, as [code, at]
          script   \* the calls left to make, the next one first

tree == <<next, cursor, leaves, open, nodes, said>>

(***************************************************************************)
(* The token at the parser and the ones after it; past the end, the end of *)
(* the file.                                                               *)
(***************************************************************************)
Tok(ahead) == tokens[Min2(next + ahead, Len(tokens))]
Kind(ahead) == Tok(ahead).kind
AtEnd == Kind(0) = "EndOfFile"
At(byte) == Kind(0) \in {"Punctuation", "Angle"} /\ source[Tok(0).from] = byte

ScalarKinds == {"Identifier", "Integer", "Decimal", "String", "LocKey"}
StartsScalar == Kind(0) \in ScalarKinds
\* A mutant: a comparison is not an operator.
LooksLikeBinding == Kind(0) \in {"Identifier", "String"} /\ Kind(1) = "Operator"
LooksLikeStatement == Kind(0) \in {"Identifier", "String"} /\ Kind(1) \in {"Operator", "Angle"}

(***************************************************************************)
(* The trivia before the token.                                            *)
(***************************************************************************)
TriviaRun == SubSeq(trivia, Tok(0).first, Tok(0).first + Tok(0).count - 1)
TriviaEnd == Tok(0).from
TriviaStart == IF TriviaRun = <<>> THEN TriviaEnd ELSE TriviaRun[1].from
Unemitted == Max2(cursor, TriviaStart)
LineFeeds(from, to) == {i \in from..(to - 1) : source[i] = "lf"}

\* The leaves for the trivia from the cursor to a limit; a piece is split where
\* the limit falls inside it.  The pieces tile what is before the token, so those
\* that have something to emit stand side by side.
TriviaUpto(limit) ==
  LET from == IF cursor = 0 THEN TriviaStart ELSE cursor
      parts == [k \in 1..Len(TriviaRun) |->
                  [kind |-> TriviaRun[k].kind, from |-> Max2(from, TriviaRun[k].from),
                   to |-> Min2(limit, TriviaRun[k].to)]]
      kept == {k \in 1..Len(TriviaRun) : parts[k].from < parts[k].to}
  IN IF kept = {} THEN <<>> ELSE SubSeq(parts, Min(kept), Max(kept))

\* (A mutant: any line detaches.)
LimitOfAnyLine ==
  LET ends == LineFeeds(Unemitted, TriviaEnd)
  IN IF ends = {} THEN Unemitted ELSE 1 + CHOOSE i \in ends : \A j \in ends : j <= i

\* Rule 1: to the first line feed, and with it.
TrailingLimit ==
  LET ends == LineFeeds(Unemitted, TriviaEnd)
  IN IF ends = {} THEN TriviaEnd ELSE 1 + CHOOSE i \in ends : \A j \in ends : i <= j

\* Rule 3: to the last line feed that ends a blank line, and with it.
DetachedLimit ==
  LET blank(i) == \A k \in Unemitted..(i - 1) : LineFeeds(k, i) = {} => source[k] \in {" ", "cr"}
      ends == {i \in LineFeeds(Unemitted, TriviaEnd) : blank(i)}
  IN IF ends = {} THEN Unemitted ELSE 1 + CHOOSE i \in ends : \A j \in ends : j <= i

(***************************************************************************)
(* The calls that emit.                                                    *)
(***************************************************************************)
Parsed == script = <<>>
Reached(call) == Lexed /\ ~Parsed /\ Head(script)[1] = call
Argument == Head(script)[2]
Calls(calls) == script' = calls \o Tail(script)

Flush == <<"flush">>
Detach == <<"detach">>
Trail == <<"trail">>
Token == <<"token">>
Start(kind) == <<"start", kind>>
Wrap(kind) == <<"wrap", kind>>
Finish == <<"finish">>

EmitTrivia ==
  /\ Reached("flush") \/ Reached("detach") \/ Reached("trail")
  /\ LET limit == CASE Head(script) = Flush -> TriviaEnd
                    [] Head(script) = Detach -> DetachedLimit
                    [] Head(script) = Trail -> TrailingLimit
     IN /\ leaves' = leaves \o TriviaUpto(limit)
        /\ cursor' = Max2(Unemitted, limit)
  /\ Calls(<<>>)
  /\ UNCHANGED <<next, open, nodes, said>>

\* A mutant: the trivia before the token is not flushed.
EmitTokenAlone ==
  /\ Reached("token")
  /\ leaves' = Append(leaves, [kind |-> Kind(0), from |-> Tok(0).from, to |-> Tok(0).to])
  /\ next' = next + 1
  /\ cursor' = 0
  /\ Calls(<<>>)
  /\ UNCHANGED <<open, nodes, said>>

EmitToken ==
  /\ Reached("token")
  /\ leaves' = Append(leaves \o TriviaUpto(TriviaEnd), [kind |-> Kind(0), from |-> Tok(0).from, to |-> Tok(0).to])
  /\ next' = next + 1
  /\ cursor' = 0
  /\ Calls(<<>>)
  /\ UNCHANGED <<open, nodes, said>>

\* start_node, and start_node_at the checkpoint before the name just emitted.
StartNode ==
  /\ Reached("start") \/ Reached("wrap")
  /\ open' = Append(open, [kind |-> Argument,
                           first |-> IF Reached("wrap") THEN Len(leaves) ELSE Len(leaves) + 1])
  /\ Calls(<<>>)
  /\ UNCHANGED <<next, cursor, leaves, nodes, said>>

FinishNode ==
  /\ Reached("finish")
  /\ LET node == open[Len(open)]
     IN nodes' = nodes \cup {[kind |-> node.kind, first |-> node.first, last |-> Len(leaves)]}
  /\ open' = Front(open)
  /\ Calls(<<>>)
  /\ UNCHANGED <<next, cursor, leaves, said>>

Goes(calls) == Calls(calls) /\ UNCHANGED tree
Reports(code, at, calls) ==
  /\ said' = said \cup {[code |-> code, at |-> at]}
  /\ Calls(calls)
  /\ UNCHANGED <<next, cursor, leaves, open, nodes>>

ErrorToken == <<Start("Error"), Token, Finish>>
Stray(calls) == Reports("StrayToken", Tok(0).from, calls)

(***************************************************************************)
(* parse_items: in a file (`opened` = 0), or in the block opened at a byte.*)
(* `shape` is what the block has held.                                     *)
(***************************************************************************)
Items(opened, shape) == <<"items", [opened |-> opened, shape |-> shape]>>
InBlock == Argument.opened # 0
More(what) == Items(Argument.opened, Argument.shape \cup {what})
EndOfItems == AtEnd \/ (At("}") /\ InBlock)

\* A statement: its leading trivia is inside it, and so is what trails it.
ParseStatement ==
  /\ Reached("items") /\ ~EndOfItems /\ LooksLikeStatement
  /\ Goes(<<Detach, Start("Statement"), Flush, Start("Key"), Token, Finish, Token, <<"value">>,
            Trail, Finish, More("statement")>>)

ParseItemScalar ==
  /\ Reached("items") /\ ~EndOfItems /\ ~LooksLikeStatement /\ InBlock /\ StartsScalar
  /\ Goes(<<Detach, <<"scalar">>, More("scalar")>>)

\* A mutant: recovery reports the token and does not consume it.
StrayItemKept ==
  /\ Reached("items") /\ ~EndOfItems /\ ~LooksLikeStatement /\ ~(InBlock /\ StartsScalar)
  /\ Reports(IF At("}") THEN "BraceUnbalanced" ELSE "StrayToken", Tok(0).from, <<Detach, Head(script)>>)

StrayItem ==
  /\ Reached("items") /\ ~EndOfItems /\ ~LooksLikeStatement /\ ~(InBlock /\ StartsScalar)
  /\ Reports(IF At("}") THEN "BraceUnbalanced" ELSE "StrayToken", Tok(0).from,
             <<Detach>> \o ErrorToken \o <<Head(script)>>)

\* The end of a block: parse_block after its items.
CloseBlock ==
  /\ Reached("items") /\ InBlock /\ EndOfItems
  /\ said' = said \cup (IF Cardinality(Argument.shape) = 2
                        THEN {[code |-> "BlockMixed", at |-> Argument.opened]} ELSE {})
                  \cup (IF At("}") THEN {} ELSE {[code |-> "BraceUnbalanced", at |-> Argument.opened]})
  /\ Calls(IF At("}") THEN <<Flush, Token, Finish>> ELSE <<Flush, Finish>>)
  /\ UNCHANGED <<next, cursor, leaves, open, nodes>>

EndFile ==
  /\ Reached("items") /\ ~InBlock /\ AtEnd
  /\ Goes(<<Flush, Finish>>)

(***************************************************************************)
(* parse_value: annotations, then one of the forms a value has.            *)
(***************************************************************************)
ParseValue ==
  /\ Reached("value")
  /\ Goes(<<Flush, Start("Value"), <<"annotated">>, Finish>>)

ParseAnnotation ==
  /\ Reached("annotated") /\ Kind(0) = "Annotation"
  /\ Goes(<<Flush, Start("Annotation"), Token, <<"annotation">>, Finish, Head(script)>>)

\* After '@name': its arguments, when a parenthesis follows.
ParseAnnotationArguments ==
  /\ Reached("annotation")
  /\ Goes(IF At("(") THEN <<Token, <<"annotation argument">>>> ELSE <<>>)

ParseAnnotationArgument ==
  /\ Reached("annotation argument")
  /\ CASE At(")") -> Goes(<<Token>>)
       [] AtEnd -> Stray(<<>>)
       [] Kind(0) \in {"Identifier", "Integer"} \/ At(",") -> Goes(<<Token, Head(script)>>)
       [] OTHER -> Stray(ErrorToken \o <<Head(script)>>)

ParseBlock ==
  /\ Reached("annotated") /\ At("{")
  /\ Goes(<<Flush, Start("Block"), Token, Items(Tok(0).from, {})>>)

ParseScalarValue ==
  /\ Reached("annotated") /\ StartsScalar
  /\ Goes(IF Kind(0) = "Identifier" THEN <<Flush, Token, <<"named value">>>> ELSE <<<<"scalar">>>>)

ValueMissing ==
  /\ Reached("annotated") /\ Kind(0) # "Annotation" /\ ~At("{") /\ ~StartsScalar
  /\ Reports("ValueMissing", TriviaStart, <<>>)

\* A name is a scalar unless the very next token is '<' or '('.
ParseIdentifierValue ==
  /\ Reached("named value")
  /\ Goes(CASE At("<") -> <<Wrap("TypeExpr"), Token, <<"type argument">>, Finish>>
            [] At("(") -> <<Wrap("Call"), Token, <<"call argument">>, Finish>>
            [] OTHER -> <<Wrap("Scalar"), Finish>>)

\* One scalar; adjacent literals are one.
ParseScalar ==
  \/ /\ Reached("scalar")
     /\ Goes(<<Flush, Start("Scalar"), Token>> \o (IF Kind(0) = "String" THEN <<<<"strings">>>> ELSE <<>>) \o <<Finish>>)
  \/ /\ Reached("strings")
     /\ Goes(IF Kind(0) = "String" THEN <<Token, Head(script)>> ELSE <<>>)

(***************************************************************************)
(* Type arguments and call arguments, after their opening bracket.         *)
(***************************************************************************)
Close(byte) == IF At(byte) THEN Goes(<<Token>>) ELSE Stray(<<>>)

ParseTypeArgument ==
  \/ /\ Reached("type argument")
     /\ IF Kind(0) = "Identifier" THEN Goes(<<Flush, Token, <<"named type">>, <<"after type">>>>) ELSE Close(">")
  \/ /\ Reached("named type")
     /\ Goes(IF At("<") THEN <<Wrap("TypeExpr"), Token, <<"type argument">>, Finish>> ELSE <<>>)
  \/ /\ Reached("after type")
     /\ IF At(",") THEN Goes(<<Token, <<"type argument">>>>) ELSE Close(">")

ParseCallArgument ==
  \/ /\ Reached("call argument")
     /\ CASE At(")") \/ AtEnd -> Close(")")
          [] Kind(0) = "Identifier" -> Goes(<<Flush, Token, <<"named argument">>, <<"after argument">>>>)
          [] StartsScalar /\ Kind(0) # "Identifier" -> Goes(<<<<"scalar">>, <<"after argument">>>>)
          [] OTHER -> Stray(ErrorToken \o <<Head(script)>>)
  \/ /\ Reached("named argument")
     /\ Goes(IF At("(") THEN <<Wrap("Call"), Token, <<"call argument">>, Finish>> ELSE <<Wrap("Scalar"), Finish>>)
  \/ /\ Reached("after argument")
     /\ IF At(",") THEN Goes(<<Token, <<"call argument">>>>) ELSE Close(")")

ParserInit ==
  /\ next = 1
  /\ cursor = 0
  /\ leaves = <<>>
  /\ open = <<>>
  /\ nodes = {}
  /\ said = {}
  /\ script = <<Start("File"), Items(0, {})>>

ParserNext ==
  \/ EmitTrivia \/ EmitToken \/ StartNode \/ FinishNode
  \/ ParseStatement \/ ParseItemScalar \/ StrayItem \/ CloseBlock \/ EndFile
  \/ ParseValue \/ ParseAnnotation \/ ParseAnnotationArguments \/ ParseAnnotationArgument
  \/ ParseBlock \/ ParseScalarValue \/ ValueMissing \/ ParseIdentifierValue \/ ParseScalar
  \/ ParseTypeArgument \/ ParseCallArgument

(***************************************************************************)
(* lex() and then parse() over one file.                                   *)
(***************************************************************************)
ParsingInit == LexerInit /\ ParserInit

ParsingNext ==
  \/ LexerNext /\ UNCHANGED <<tree, script>>
  \/ ParserNext /\ UNCHANGED lexing

parsing == <<lexing, tree, script>>

\* Both are loops their caller runs to the end, on its own thread and waiting
\* for nothing: a step that can be taken is taken.
ParsingSpec == ParsingInit /\ [][ParsingNext]_parsing /\ WF_parsing(ParsingNext)

(***************************************************************************)
(* The tree is total.                                                      *)
(***************************************************************************)
IsTrivia(leaf) == leaf.kind \in {"Whitespace", "Comment", "ByteOrderMark"}

\* How many of the first leaves are tokens.
TokensAmong(i) == Cardinality({j \in 1..i : ~IsTrivia(leaves[j])})

\* The tree is total at every moment of the parse, whatever the parser had to
\* recover from: its leaves so far tile the file from its first byte, the tokens
\* among them are the lexer's in the lexer's order, and its nodes nest.
LeavesTile ==
  /\ \A i \in 1..Len(leaves) : leaves[i].from = (IF i = 1 THEN 1 ELSE leaves[i - 1].to)
  /\ TokensAmong(Len(leaves)) = next - 1
  /\ \A i \in 1..Len(leaves) :
       ~IsTrivia(leaves[i]) => LET token == tokens[TokensAmong(i)]
                               IN leaves[i] = [kind |-> token.kind, from |-> token.from, to |-> token.to]
  /\ \A m, n \in nodes :
       m.last < n.first \/ n.last < m.first \/ (m.first <= n.first /\ n.last <= m.last)
                        \/ (n.first <= m.first /\ m.last <= n.last)
  /\ Parsed => /\ next = Len(tokens)
               /\ source # <<>> => leaves[Len(leaves)].to = Len(source) + 1
               /\ open = <<>>

\* No byte of a file is lost or read twice, by the lexer or by the parser.
TreeTotal == TokensTile /\ LeavesTile

(***************************************************************************)
(* Reading the tree.                                                       *)
(***************************************************************************)
Leaf(i) == leaves[i]
TokenLeaves(n) == {i \in n.first..n.last : ~IsTrivia(Leaf(i))}
Least(S) == CHOOSE i \in S : \A j \in S : i <= j
Greatest(S) == CHOOSE i \in S : \A j \in S : j <= i
Statements == {n \in nodes : n.kind = "Statement"}
ReportedAt(code, at) == [code |-> code, at |-> at] \in said

\* The end of the token before a byte, or 1, and the start of the token after.
EndBefore(at) == Greatest({1} \cup {tokens[i].to : i \in {k \in 1..Len(tokens) : tokens[k].to <= at}})
TokenAfter(at) == Least({tokens[i].from : i \in {k \in 1..Len(tokens) : tokens[k].from >= at}})

\* Rule 1 of the trivia policy: a statement ends with its line.  From its last
\* token it takes what stands before the next token, up to and including the
\* first line feed, and nothing after, at any depth.  Two recoveries end a statement
\* elsewhere: a value that is missing and a block that never closes.
LineEndStays ==
  Parsed => \A n \in Statements :
    LET last == Leaf(Greatest(TokenLeaves(n))).to
        ends == LineFeeds(last, TokenAfter(last))
    IN \/ ReportedAt("ValueMissing", last)
       \/ \E b \in nodes : /\ b.kind = "Block" /\ n.first <= b.first /\ b.last <= n.last
                                  /\ ReportedAt("BraceUnbalanced", Leaf(b.first).from)
       \/ Leaf(n.last).to = IF ends = {} THEN TokenAfter(last) ELSE Least(ends) + 1

\* Rules 2 and 3: a comment on a line of its own above a statement is inside
\* that statement exactly when no blank line lies between them, whatever came
\* before it: another statement, a brace or an error.  Not after
\* a statement that lacks its value, which takes the comment instead.
CommentsAttach ==
  Parsed => \A n \in Statements : \A c \in 1..Len(leaves) :
    LET comment == Leaf(c)
        key == Leaf(Least(TokenLeaves(n))).from
        feeds == LineFeeds(comment.to, key)
        blank == \E i, j \in feeds : i < j /\ \A k \in (i + 1)..(j - 1) : source[k] \in {" ", "cr"}
    IN /\ comment.kind = "Comment" /\ TokenAfter(comment.from) = key
       /\ EndBefore(comment.from) = 1 \/ LineFeeds(EndBefore(comment.from), comment.from) # {}
       /\ ~ReportedAt("ValueMissing", EndBefore(comment.from))
       => (c \in n.first..n.last <=> ~blank)

\* The trivia policy (parser.cpp, E3): what follows a statement on its line is
\* its own, and a comment above one is its own unless a blank line divides them.
TriviaOwned == LineEndStays /\ CommentsAttach
=============================================================================
