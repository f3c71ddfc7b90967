---------------------------- MODULE TriviaProofs ----------------------------
(***************************************************************************)
(* Proofs about Parser: the trivia policy holds of every file.             *)
(*                                                                         *)
(* What is before a token is divided by where the parser's cursor is at    *)
(* two moments: after a statement's value, where the rest of its line is   *)
(* taken, and before the next statement, where the comments that a blank   *)
(* line detaches are left outside.  Both limits depend on what was emitted *)
(* before, so the invariant says how far the cursor may be at each call of *)
(* the script: `Mode` is what is known of it there, and the nodes the call *)
(* stands in are those that are open.  A value ends at its last token, at  *)
(* a value that is missing or in a block that never closes; items start at *)
(* a token, or where a line ended.  A parse function replaces its call by  *)
(* calls that promise what it promised.                                    *)
(***************************************************************************)
EXTENDS ParserProofs

-----------------------------------------------------------------------------
(* Comments *)

\* From a comment's '#' to where it ends there is no line feed.
CommentSpan(from, to) == source[from] = "#" /\ LineFeeds(from, to) = {}
CommentsRead == \A k \in 1..Len(trivia) : trivia[k].kind = "Comment" => CommentSpan(trivia[k].from, trivia[k].to)

LEMMA CommentsReadInit == LexerInit => CommentsRead
<1> SUFFICES ASSUME LexerInit  PROVE CommentsRead
  OBVIOUS
<1>1. Len(trivia) = 0
  BY DEF LexerInit
<1> QED
  BY <1>1 DEF CommentsRead

\* Only a comment is pushed as one, and it ends with its line.
LEMMA OnlyComments ==
  ASSUME LexerTypes, LexerNext, NEW kind, NEW end, NEW spoken, PushTrivia(kind, end, spoken), kind = "Comment"
  PROVE  CommentSpan(pos, end)
<1>1. /\ trivia' = Append(trivia, [kind |-> "Comment", from |-> pos, to |-> end])
      /\ trivia \in Seq(TriviaPieces)
  BY DEF PushTrivia, LexerTypes
<1>2. /\ Len(trivia') = Len(trivia) + 1 /\ Len(trivia) \in Nat
      /\ trivia'[Len(trivia) + 1] = [kind |-> "Comment", from |-> pos, to |-> end]
  BY <1>1
<1>3. ASSUME NEW other, NEW to, NEW said_, PushTrivia(other, to, said_)
      PROVE  other = "Comment" /\ to = end
  <2>1. trivia'[Len(trivia) + 1] = [kind |-> other, from |-> pos, to |-> to]
    BY <1>1, <1>3 DEF PushTrivia
  <2>2. [kind |-> other, from |-> pos, to |-> to] = [kind |-> "Comment", from |-> pos, to |-> end]
    BY <1>2, <2>1
  <2> QED
    BY <2>2
<1>4. ASSUME NEW other, NEW to, NEW said_, PushToken(other, to, said_)
      PROVE  FALSE
  <2>1. trivia' = trivia
    BY <1>4 DEF PushToken
  <2> QED
    BY <1>2, <2>1
<1>5. "Comment" # "Whitespace" /\ "Comment" # "ByteOrderMark"
  OBVIOUS
<1>6. LexComment
  <2>1. ~LexWhitespace
    BY <1>3, <1>5 DEF LexWhitespace
  <2>2. ~LexByteOrderMark
    BY <1>3, <1>5 DEF LexByteOrderMark
  <2>3. ~LexUnicodeWhitespace
    BY <1>3, <1>5, Zenon DEF LexUnicodeWhitespace
  <2>4. ~LexString
    BY <1>4, Zenon DEF LexString
  <2>5. ~LexSigil
    BY <1>4, Zenon DEF LexSigil
  <2>6. ~LexOperator
    BY <1>4, Zenon DEF LexOperator
  <2>7. ~LexPunctuation
    BY <1>4, Zenon DEF LexPunctuation
  <2>8. ~LexNumber
    <3> DEFINE whole == IF source[pos] = "-" THEN pos + 1 ELSE pos
               dot == Past(whole, Digits)
               past == Past(dot + 1, Digits)
               first == ~Holds(dot, {"."})
               second == Holds(dot, {"."}) /\ Holds(dot + 1, Digits)
               a == PushToken("Integer", dot, IF dot - whole > IntegerDigits
                                              THEN {Said("IntegerRange", pos, dot)} ELSE {})
               b == PushToken("Decimal", past, Precision(pos, past - dot - 1, past))
               c == PushToken("Decimal", dot + 1, {Said("NumberTrailingDot", pos, dot + 1)})
    <3>1. LexNumber => CASE first -> a [] second -> b [] OTHER -> c
      BY Zenon DEF LexNumber
    <3>2. ~a /\ ~b /\ ~c
      BY <1>4, Zenon
    <3> HIDE DEF a, b, c, first, second
    <3>3. (CASE first -> a [] second -> b [] OTHER -> c) => a \/ b \/ c
      OBVIOUS
    <3> QED
      BY <3>1, <3>2, <3>3
  <2>9. ~LexLeadingDot
    BY <1>4, Zenon DEF LexLeadingDot
  <2>10. ~LexIdentifier
    BY <1>4, Zenon DEF LexIdentifier
  <2>11. ~LexBadCharacter
    BY <1>4, Zenon DEF LexBadCharacter
  <2>12. ~LexEndOfFile
    BY <1>4, Zenon DEF LexEndOfFile
  <2> QED
    BY <2>1, <2>2, <2>3, <2>4, <2>5, <2>6, <2>7, <2>8, <2>9, <2>10, <2>11, <2>12, Zenon DEF LexerNext
<1>7. Holds(pos, {"#"}) /\ end = PastComment(pos)
  BY <1>3, <1>6, Zenon DEF LexComment
<1>8. pos \in 1..Len(source) /\ source[pos] = "#" /\ IsFile /\ Len(source) \in Nat
  BY <1>7, FileShape DEF Holds, LexerTypes
<1>9. \A k \in pos..(PastComment(pos) - 1) : source[k] \notin LineEnds
  <2> DEFINE T == {j \in pos..End : j > Len(source) \/ source[j] \in LineEnds}
  <2>1. End \in T /\ T \in SUBSET Nat
    BY <1>8, FileShape DEF End
  <2>2. PICK j \in T : \A k \in T : j <= k
    BY <2>1, NatLeast
  <2>3. /\ j \in pos..(Len(source) + 1)
        /\ j > Len(source) \/ source[j] \in LineEnds
        /\ \A k \in pos..(j - 1) : source[k] \notin LineEnds
    <3> SUFFICES ASSUME NEW k \in pos..(j - 1), source[k] \in LineEnds  PROVE FALSE
      BY DEF End
    <3> QED
      BY <1>8, <2>2, FileShape
  <2> QED
    BY <2>3, Zenon DEF PastComment
<1> QED
  BY <1>7, <1>8, <1>9 DEF CommentSpan, LineFeeds, LineEnds

LEMMA CommentsReadStep ==
  ASSUME LexerInvariant, CommentsRead, [LexerNext]_lexing
  PROVE  CommentsRead'
<1>0. LexerTypes /\ trivia \in Seq(TriviaPieces) /\ Len(trivia) \in Nat
  BY DEF LexerInvariant, LexerTypes
<1>1. CASE UNCHANGED lexing
  BY <1>1 DEF lexing, CommentsRead, CommentSpan, LineFeeds
<1>2. ASSUME LexerNext  PROVE CommentsRead'
  <2>1. PushesTrivia \/ PushesToken
    BY <1>2, <1>0, EachStepPushes DEF LexerInvariant, LexerTypes, Ready
  <2>2. CASE PushesToken
    <3>1. trivia' = trivia /\ source' = source
      BY <2>2 DEF PushesToken, PushToken
    <3> QED
      BY <3>1 DEF CommentsRead, CommentSpan, LineFeeds
  <2>3. CASE PushesTrivia
    <3>0. PICK kind \in TriviaKinds : \E end, spoken : PushTrivia(kind, end, spoken)
      BY <2>3 DEF PushesTrivia
    <3>1. PICK end, spoken : PushTrivia(kind, end, spoken)
      BY <3>0
    <3>2. kind = "Comment" => CommentSpan(pos, end)
      BY <1>0, <1>2, <3>1, OnlyComments
    <3>3. trivia' = Append(trivia, [kind |-> kind, from |-> pos, to |-> end]) /\ source' = source
      BY <3>1 DEF PushTrivia
    <3>4. /\ Len(trivia') = Len(trivia) + 1
          /\ \A k \in 1..Len(trivia) : trivia'[k] = trivia[k]
          /\ trivia'[Len(trivia) + 1] = [kind |-> kind, from |-> pos, to |-> end]
      BY <1>0, <3>3
    <3>5. ASSUME NEW k \in 1..Len(trivia'), trivia'[k].kind = "Comment"
          PROVE  CommentSpan(trivia'[k].from, trivia'[k].to)
      <4>1. CASE k \in 1..Len(trivia)
        BY <3>4, <3>5, <4>1 DEF CommentsRead
      <4>2. CASE k = Len(trivia) + 1
        BY <3>2, <3>4, <3>5, <4>2
      <4> QED
        BY <1>0, <3>4, <4>1, <4>2
    <3>6. \A from, to : CommentSpan(from, to) => CommentSpan(from, to)'
      BY <3>3 DEF CommentSpan, LineFeeds
    <3> QED
      BY <3>3, <3>5 DEF CommentsRead, CommentSpan, LineFeeds
  <2> QED
    BY <2>1, <2>2, <2>3
<1> QED
  BY <1>1, <1>2

-----------------------------------------------------------------------------
(* Where a line ends, and what a blank line divides *)

LEMMA LeastOf ==
  ASSUME NEW T \in SUBSET Nat, T # {}
  PROVE  Least(T) \in T /\ \A j \in T : Least(T) <= j
<1>1. \E m \in T : \A n \in T : m <= n
  BY NatLeast
<1> QED
  BY <1>1, Zenon DEF Least

LEMMA GreatestOf ==
  ASSUME NEW top \in Nat, NEW T \in SUBSET (0..top), T # {}
  PROVE  Greatest(T) \in T /\ \A j \in T : j <= Greatest(T)
<1>1. \E m \in T : \A n \in T : n <= m
  BY NatGreatest
<1> QED
  BY <1>1, Zenon DEF Greatest

LEMMA Feeds ==
  ASSUME NEW a \in Nat, NEW b \in Nat
  PROVE  /\ LineFeeds(a, b) \in SUBSET Nat /\ LineFeeds(a, b) \in SUBSET (0..b)
         /\ \A i \in Nat : i \in LineFeeds(a, b) <=> a <= i /\ i < b /\ source[i] = "lf"
BY DEF LineFeeds

\* Two line feeds with nothing between them.
Blank(from, to) ==
  LET feeds == LineFeeds(from, to)
  IN \E i, j \in feeds : i < j /\ \A k \in (i + 1)..(j - 1) : source[k] \in {" ", "cr"}

\* Where the line ends that the token before the i-th is on, or the i-th starts.
LineEnd(i) ==
  LET ends == LineFeeds(Gap(i), tokens[i].from)
  IN IF ends = {} THEN tokens[i].from ELSE Least(ends) + 1

\* A byte before the i-th token divides the comments that a blank line detaches
\* from it from the others.  Not those on the line of the token before, and
\* not after a value that is missing.
Parted(i, byte) ==
  \A from, to \in Nat :
    /\ i < Len(tokens)
    /\ Gap(i) <= from /\ from < to /\ to <= tokens[i].from
    /\ CommentSpan(from, to)
    /\ Gap(i) = 1 \/ LineFeeds(Gap(i), from) # {}
    /\ ~ReportedAt("ValueMissing", Gap(i))
    => (byte <= from <=> ~Blank(to, tokens[i].from))

\* Where the items of a block may start: right after a token, at the end of a
\* statement's line, or where nothing is said of what is there.
AtLine ==
  \/ cursor = 0
  \/ next = Len(tokens)
  \/ ReportedAt("ValueMissing", Gap(next))
  \/ next # 1 /\ Here = LineEnd(next)

LEMMA TrailStops ==
  ASSUME Reading, LeavesReach, Here = Gap(next)
  PROVE  TrailingLimit = LineEnd(next)
<1>1. Unemitted = Gap(next) /\ TriviaEnd = tokens[next].from /\ TriviaEnd \in Nat /\ Gap(next) \in Nat
  BY UnemittedIsHere, RunFills
<1> DEFINE ends == LineFeeds(Gap(next), tokens[next].from)
<1>2. TrailingLimit = IF ends = {} THEN tokens[next].from ELSE 1 + CHOOSE i \in ends : \A j \in ends : i <= j
  BY <1>1 DEF TrailingLimit
<1>3. LineEnd(next) = IF ends = {} THEN tokens[next].from ELSE (CHOOSE i \in ends : \A j \in ends : i <= j) + 1
  BY DEF LineEnd, Least
<1>4. ends \in SUBSET Nat
  BY <1>1 DEF LineFeeds
<1> HIDE DEF ends
<1>5. ends # {} => Least(ends) \in Nat
  BY <1>4, LeastOf
<1>6. PICK m : m = CHOOSE i \in ends : \A j \in ends : i <= j
  OBVIOUS
<1>7. ends # {} => m \in Nat
  BY <1>5, <1>6 DEF Least
<1> QED
  BY <1>2, <1>3, <1>6, <1>7

\* No comment is passed before its statement.
LEMMA NotPassed ==
  ASSUME Reading, LeavesReach, AtLine, NEW from \in Nat,
         next < Len(tokens), Gap(next) <= from, from < tokens[next].from,
         Gap(next) = 1 \/ LineFeeds(Gap(next), from) # {},
         ~ReportedAt("ValueMissing", Gap(next))
  PROVE  Here <= from
<1>1. next \in 1..Len(tokens) /\ next \in Nat /\ Len(tokens) \in Nat
  BY AtToken DEF Reading
<1>2. CASE cursor = 0
  BY <1>2 DEF Here
<1>3. CASE next # 1 /\ Here = LineEnd(next)
  <2> DEFINE ends == LineFeeds(Gap(next), tokens[next].from)
  <2>1. next - 1 \in 1..Len(tokens) /\ next - 1 # Len(tokens) /\ (next - 1) + 1 = next
    BY <1>1, <1>3
  <2>2. /\ tokens[next - 1].from < tokens[next - 1].to /\ Gap(next - 1) <= tokens[next - 1].from
        /\ Gap(next) = tokens[next - 1].to /\ Gap(next - 1) \in Nat
        /\ tokens[next - 1].from \in Nat /\ tokens[next - 1].to \in Nat
    BY <2>1, Read
  <2>3. tokens[next].from \in Nat
    BY <1>1, Read
  <2>4. 1 <= Gap(next - 1)
    <3>1. next - 1 = 1 => Gap(next - 1) = 1
      BY DEF Gap
    <3>2. next - 1 # 1 => Gap(next - 1) >= 1
      <4> SUFFICES ASSUME next - 1 # 1  PROVE Gap(next - 1) >= 1
        OBVIOUS
      <4>1. (next - 1) - 1 \in 1..Len(tokens) /\ (next - 1) - 1 # Len(tokens) /\ ((next - 1) - 1) + 1 = next - 1
        BY <1>1, <2>1
      <4>2. /\ Gap(next - 1) = tokens[(next - 1) - 1].to
            /\ tokens[(next - 1) - 1].from < tokens[(next - 1) - 1].to
            /\ tokens[(next - 1) - 1].from \in Nat /\ tokens[(next - 1) - 1].to \in Nat
        BY <4>1, Read
      <4> QED
        BY <4>2
    <3> QED
      BY <3>1, <3>2, <2>2
  <2>5. Gap(next) # 1
    BY <2>2, <2>4
  <2>6. PICK l \in LineFeeds(Gap(next), from) : TRUE
    BY <2>5
  <2>7. l \in ends /\ l + 1 <= from
    BY <2>2, <2>3, <2>6 DEF LineFeeds
  <2>8. ends \in SUBSET Nat
    BY <2>2, <2>3 DEF LineFeeds
  <2> HIDE DEF ends
  <2>9. Least(ends) <= l /\ Least(ends) \in Nat /\ l \in Nat
    BY <2>7, <2>8, LeastOf
  <2>10. Here = Least(ends) + 1
    BY <1>3, <2>7 DEF LineEnd, ends
  <2> QED
    BY <2>7, <2>9, <2>10
<1> QED
  BY <1>2, <1>3 DEF AtLine

LEMMA DetachParts ==
  ASSUME Reading, LeavesReach, AtLine
  PROVE  Parted(next, DetachedLimit)
<1>1. /\ Unemitted = Here /\ Here \in Nat /\ TriviaEnd \in Nat /\ Here <= TriviaEnd
      /\ TriviaEnd = tokens[next].from
  BY UnemittedIsHere, RunFills
<1>a. PICK u \in Nat : u = Unemitted
  BY <1>1
<1>b. PICK e \in Nat : e = TriviaEnd
  BY <1>1
<1> DEFINE feeds == LineFeeds(u, e)
           blank(i) == \A k \in u..(i - 1) : LineFeeds(k, i) = {} => source[k] \in {" ", "cr"}
           ends == {i \in feeds : blank(i)}
<1>2. DetachedLimit = IF ends = {} THEN u ELSE 1 + Greatest(ends)
  BY <1>a, <1>b DEF DetachedLimit, Greatest
<1>3. feeds \in SUBSET (0..e) /\ \A i \in Nat : i \in feeds <=> u <= i /\ i < e /\ source[i] = "lf"
  BY Feeds
<1>c. \A i : i \in ends <=> i \in feeds /\ blank(i)
  OBVIOUS
<1>d. \A i : blank(i) <=> \A k \in u..(i - 1) : LineFeeds(k, i) = {} => source[k] \in {" ", "cr"}
  OBVIOUS
<1>4. PICK limit : limit = DetachedLimit
  OBVIOUS
<1> HIDE DEF feeds, ends, blank
<1>e. ASSUME ends # {}
      PROVE  \E m \in Nat : m \in feeds /\ blank(m) /\ limit = 1 + m /\ \A j \in ends : j <= m
  <2>1. ends \in SUBSET (0..e)
    BY <1>3, <1>c
  <2>2. Greatest(ends) \in ends /\ \A j \in ends : j <= Greatest(ends)
    BY <1>e, <2>1, GreatestOf
  <2>3. PICK m : m = Greatest(ends)
    OBVIOUS
  <2>4. m \in ends /\ limit = 1 + m /\ \A j \in ends : j <= m
    BY <1>2, <1>4, <1>e, <2>2, <2>3
  <2>5. m \in feeds /\ blank(m) /\ m \in 0..e
    BY <1>c, <2>1, <2>4
  <2> QED
    BY <2>4, <2>5
<1>f. ends = {} => limit = u
  BY <1>2, <1>4
<1> SUFFICES ASSUME NEW from \in Nat, NEW to \in Nat,
                    next < Len(tokens),
                    Gap(next) <= from, from < to, to <= tokens[next].from,
                    CommentSpan(from, to),
                    Gap(next) = 1 \/ LineFeeds(Gap(next), from) # {},
                    ~ReportedAt("ValueMissing", Gap(next))
             PROVE  limit <= from <=> ~Blank(to, tokens[next].from)
  BY <1>4 DEF Parted
<1>5. u <= from /\ to <= e
  <2>1. from < tokens[next].from
    BY <1>1
  <2> QED
    BY <1>1, <1>a, <1>b, <2>1, NotPassed
<1>6. source[from] = "#" /\ \A i \in Nat : from <= i /\ i < to => source[i] # "lf"
  BY Feeds DEF CommentSpan
<1>7. ASSUME Blank(to, e)  PROVE ~(limit <= from)
  <2>1. PICK i, j \in LineFeeds(to, e) : i < j /\ \A k \in (i + 1)..(j - 1) : source[k] \in {" ", "cr"}
    BY <1>7 DEF Blank
  <2>2. /\ i \in Nat /\ j \in Nat /\ to <= i /\ to <= j /\ j < e
        /\ source[i] = "lf" /\ source[j] = "lf"
    BY <2>1, Feeds
  <2>3. j \in feeds
    BY <1>3, <1>5, <2>2
  <2>4. ASSUME NEW k \in u..(j - 1), LineFeeds(k, j) = {}
        PROVE  source[k] \in {" ", "cr"}
    <3>1. ~(k <= i)
      <4> SUFFICES ASSUME k <= i  PROVE FALSE
        OBVIOUS
      <4>1. k \in Nat
        BY <2>2
      <4>2. i \in LineFeeds(k, j)
        BY <2>1, <2>2, <4>1, Feeds
      <4> QED
        BY <2>4, <4>2
    <3>2. k \in (i + 1)..(j - 1)
      BY <2>2, <3>1
    <3> QED
      BY <2>1, <3>2
  <2>5. j \in ends
    BY <1>c, <1>d, <2>3, <2>4
  <2>6. PICK m \in Nat : limit = 1 + m /\ \A l \in ends : l <= m
    BY <1>e, <2>5
  <2>7. j <= m
    BY <2>5, <2>6
  <2> QED
    BY <2>2, <2>6, <2>7
<1>8. ASSUME ~(limit <= from)  PROVE Blank(to, e)
  <2>1. ends # {}
    BY <1>5, <1>8, <1>f
  <2>2. PICK m \in Nat : m \in feeds /\ blank(m) /\ limit = 1 + m
    BY <1>e, <2>1
  <2>3. u <= m /\ m < e /\ source[m] = "lf"
    BY <1>3, <2>2
  <2>4. from < m /\ to <= m
    <3>1. from <= m
      BY <1>8, <2>2
    <3>2. ~(m < to)
      BY <1>6, <2>3, <3>1
    <3> QED
      BY <3>1, <3>2
  <2>5. LineFeeds(from, m) # {}
    <3> SUFFICES ASSUME LineFeeds(from, m) = {}  PROVE FALSE
      OBVIOUS
    <3>1. from \in u..(m - 1)
      BY <1>5, <2>4
    <3>2. source[from] \in {" ", "cr"}
      BY <1>d, <2>2, <3>1
    <3> QED
      BY <1>6, <3>2
  <2> DEFINE before == LineFeeds(to, m)
  <2>6. before \in SUBSET (0..m) /\ \A i \in Nat : i \in before <=> to <= i /\ i < m /\ source[i] = "lf"
    BY Feeds
  <2> HIDE DEF before
  <2>7. before # {}
    <3>1. PICK l \in LineFeeds(from, m) : TRUE
      BY <2>5
    <3>2. l \in Nat /\ from <= l /\ l < m /\ source[l] = "lf"
      BY <3>1, Feeds
    <3>3. ~(l < to)
      BY <1>6, <3>2
    <3> QED
      BY <2>6, <3>2, <3>3
  <2>8. PICK l \in before : \A k \in before : k <= l
    BY <2>6, <2>7, NatGreatest
  <2>9. l \in Nat /\ to <= l /\ l < m /\ source[l] = "lf"
    BY <2>6, <2>8
  <2>10. ASSUME NEW k \in (l + 1)..(m - 1)
         PROVE  source[k] \in {" ", "cr"}
    <3>1. k \in Nat /\ l < k /\ k < m
      BY <2>9
    <3>2. LineFeeds(k, m) = {}
      <4> SUFFICES ASSUME NEW x \in LineFeeds(k, m)  PROVE FALSE
        OBVIOUS
      <4>1. x \in Nat /\ k <= x /\ x < m /\ source[x] = "lf"
        BY <3>1, Feeds
      <4>2. x \in before
        BY <2>6, <2>9, <3>1, <4>1
      <4>3. x <= l
        BY <2>8, <4>2
      <4> QED
        BY <2>9, <3>1, <4>1, <4>3
    <3>3. k \in u..(m - 1)
      BY <1>5, <2>9, <3>1
    <3> QED
      BY <1>d, <2>2, <3>2, <3>3
  <2>11. l \in LineFeeds(to, e) /\ m \in LineFeeds(to, e) /\ l < m
    BY <2>3, <2>4, <2>9, Feeds
  <2> QED
    BY <2>10, <2>11 DEF Blank
<1> QED
  BY <1>1, <1>b, <1>7, <1>8

-----------------------------------------------------------------------------
(* What is known at each call of the script *)

\* An open node: a block has the byte it was opened at, and a node is held once a
\* token has been emitted inside it.
Element == [kind : NodeKinds, at : Nat, held : 0..1]
Node(kind, at, held) == [kind |-> kind, at |-> at, held |-> held]
Nests == Seq(Element)

\* How far the trivia has been emitted: to the next token, to where the comments
\* of the statement start, not at all, as a statement's value leaves it, to
\* the end of the statement's line, as items may start, or in a block that has
\* been reported.
Modes == {"any", "flushed", "detached", "bare", "settled", "trailed", "ready", "unclosed"}
Ends == {"bare", "settled"}

\* The open nodes, the mode and, unless it is 0, the byte the next token starts at.
Spots == [nest : Nests, mode : Modes, byte : Nat]
Spot(nest, mode, byte) == [nest |-> nest, mode |-> mode, byte |-> byte]

\* Right after a token; the others look at the token themselves.
TokenEnders == Decisions \ {<<"value">>, <<"annotated">>, <<"scalar">>}
PlainKinds == NodeKinds \ {"Statement", "Block"}

\* What a call asks and promises.
Act(call, p, q) ==
  \/ /\ call = Flush
     /\ \/ q = Spot(p.nest, "flushed", p.byte)
        \/ p.mode = "unclosed" /\ q = Spot(p.nest, "unclosed", 0)
  \/ /\ call = Detach
     /\ p.mode \in {"bare", "ready"} /\ q = Spot(p.nest, "detached", 0)
  \/ /\ call = Trail
     /\ p.mode \in Ends /\ q = Spot(p.nest, "trailed", 0)
     /\ \E nest \in Nests : p.nest = Append(nest, Node("Statement", 0, 1))
  \/ /\ call = Token
     /\ q.mode \in Ends /\ q.byte = 0
     /\ \/ q.nest = p.nest
        \/ \E nest \in Nests, kind \in NodeKinds, at \in Nat :
             p.nest = Append(nest, Node(kind, at, 0)) /\ q.nest = Append(nest, Node(kind, at, 1))
  \/ \E kind \in PlainKinds :
       /\ call = Start(kind) \/ call = Wrap(kind)
       /\ q.nest = Append(p.nest, Node(kind, 0, 0)) /\ q.byte = 0
       /\ q.mode = "any" \/ (q.mode = "bare" /\ p.mode = "bare")
  \/ /\ call = Start("Statement")
     /\ p.mode = "detached" /\ q = Spot(Append(p.nest, Node("Statement", 0, 0)), "any", 0)
  \/ /\ call = Start("Block")
     /\ p.mode = "flushed" /\ p.byte # 0 /\ q = Spot(Append(p.nest, Node("Block", p.byte, 0)), "any", 0)
  \/ /\ call = Finish /\ q.byte = 0
     /\ \E kind \in NodeKinds, at \in Nat, held \in 0..1 :
          /\ p.nest = Append(q.nest, Node(kind, at, held))
          /\ \/ kind = "Statement" /\ p.mode = "trailed" /\ q.mode = "ready"
             \/ /\ kind # "Statement"
                /\ \/ p.mode = "bare" /\ q.mode \in Ends
                   \/ p.mode = "settled" /\ q.mode = "settled"
                   \/ kind = "Block" /\ held = 1 /\ p.mode = "unclosed" /\ q.mode = "settled"
                   \/ q.mode = "any"
  \/ /\ call \in {<<"value">>, <<"annotated">>}
     /\ q = Spot(p.nest, "settled", 0)
  \/ /\ call \in TokenEnders \cup {<<"scalar">>}
     /\ call \in TokenEnders => p.mode = "bare"
     /\ q.nest = p.nest /\ q.mode \in Ends /\ q.byte = 0
  \/ \E opened \in Nat, shape \in Shapes :
       /\ call = Items(opened, shape)
       /\ p.mode \in {"bare", "ready"} /\ q.byte = 0
       /\ IF opened = 0 THEN p.nest = Append(q.nest, Node("File", 0, 0)) /\ q.mode = "any"
          ELSE p.nest = Append(q.nest, Node("Block", opened, 1)) /\ q.mode = "settled"

Turns(call, p, q) == p \in Spots /\ q \in Spots /\ call \in Entries /\ Act(call, p, q)

\* The calls keep their promises one after the other.
Runs(calls, p, q) ==
  /\ calls \in Seq(Entries)
  /\ \E at \in Seq(Spots) :
       /\ Len(at) = Len(calls) + 1 /\ at[1] = p /\ at[Len(at)] = q
       /\ \A k \in 1..Len(calls) : Act(calls[k], at[k], at[k + 1])

LEMMA RunsNowhere ==
  ASSUME NEW p \in Spots
  PROVE  Runs(<<>>, p, p)
<1>1. <<p>> \in Seq(Spots) /\ Len(<<p>>) = 1 /\ <<p>>[1] = p
  OBVIOUS
<1>2. <<>> \in Seq(Entries) /\ Len(<<>>) = 0 /\ 1..0 = {}
  OBVIOUS
<1>3. PICK at \in Seq(Spots) : Len(at) = 1 /\ at[1] = p
  BY <1>1
<1> QED
  BY <1>2, <1>3 DEF Runs

LEMMA RunsEnds ==
  ASSUME NEW calls, NEW p, NEW q, Runs(calls, p, q)
  PROVE  p \in Spots /\ q \in Spots /\ calls \in Seq(Entries)
<1>1. PICK at \in Seq(Spots) : Len(at) = Len(calls) + 1 /\ at[1] = p /\ at[Len(at)] = q
  BY DEF Runs
<1>2. calls \in Seq(Entries) /\ Len(calls) \in Nat
  BY DEF Runs
<1>3. 1 \in 1..Len(at) /\ Len(at) \in 1..Len(at)
  BY <1>1, <1>2
<1> QED
  BY <1>1, <1>2, <1>3

LEMMA RunsFirst ==
  ASSUME NEW calls, NEW p, NEW q, Runs(calls, p, q), calls # <<>>
  PROVE  \E r \in Spots : p \in Spots /\ Act(Head(calls), p, r) /\ Runs(Tail(calls), r, q)
<1>1. PICK at \in Seq(Spots) : /\ Len(at) = Len(calls) + 1 /\ at[1] = p /\ at[Len(at)] = q
                               /\ \A k \in 1..Len(calls) : Act(calls[k], at[k], at[k + 1])
  BY DEF Runs
<1>2. calls \in Seq(Entries) /\ Len(calls) \in Nat /\ Len(calls) # 0
  BY EmptySeq DEF Runs
<1> DEFINE rest == Tail(calls)
           then == Tail(at)
<1>3. /\ rest \in Seq(Entries) /\ Len(rest) = Len(calls) - 1
      /\ \A k \in 1..Len(rest) : rest[k] = calls[k + 1] /\ k + 1 \in 1..Len(calls)
  BY <1>2
<1>4. /\ at # <<>> /\ then \in Seq(Spots) /\ Len(then) = Len(at) - 1
      /\ \A k \in 1..Len(then) : then[k] = at[k + 1] /\ k + 1 \in 1..Len(at)
  BY <1>1, <1>2
<1> HIDE DEF rest, then
<1>5. Act(Head(calls), p, at[2]) /\ at[2] \in Spots /\ p \in Spots
  <2>1. 1 \in 1..Len(calls) /\ 1 + 1 = 2 /\ 2 \in 1..Len(at) /\ 1 \in 1..Len(at) /\ Head(calls) = calls[1]
    BY <1>1, <1>2
  <2> QED
    BY <1>1, <2>1
<1>6. then[1] = at[2] /\ then[Len(then)] = q /\ Len(then) = Len(rest) + 1
  <2>1. 1 \in 1..Len(then) /\ Len(then) \in 1..Len(then) /\ 1 + 1 = 2 /\ Len(then) + 1 = Len(at)
    BY <1>1, <1>2, <1>4
  <2> QED
    BY <1>1, <1>3, <1>4, <2>1
<1>7. ASSUME NEW k \in 1..Len(rest)
      PROVE  Act(rest[k], then[k], then[k + 1])
  <2>1. k \in 1..Len(then) /\ k + 1 \in 1..Len(then)
    BY <1>2, <1>3, <1>6
  <2>2. rest[k] = calls[k + 1] /\ then[k] = at[k + 1] /\ then[k + 1] = at[(k + 1) + 1] /\ k + 1 \in 1..Len(calls)
    BY <1>3, <1>4, <2>1
  <2> QED
    BY <1>1, <2>2
<1>8. Runs(rest, at[2], q)
  BY <1>3, <1>4, <1>6, <1>7 DEF Runs
<1> QED
  BY <1>5, <1>8 DEF rest

LEMMA RunsOn ==
  ASSUME NEW a, NEW b, NEW p, NEW q, NEW r, Runs(a, p, q), Runs(b, q, r)
  PROVE  Runs(a \o b, p, r)
<1>1. PICK u \in Seq(Spots) : /\ Len(u) = Len(a) + 1 /\ u[1] = p /\ u[Len(u)] = q
                               /\ \A k \in 1..Len(a) : Act(a[k], u[k], u[k + 1])
  BY DEF Runs
<1>2. PICK v \in Seq(Spots) : /\ Len(v) = Len(b) + 1 /\ v[1] = q /\ v[Len(v)] = r
                               /\ \A k \in 1..Len(b) : Act(b[k], v[k], v[k + 1])
  BY DEF Runs
<1>3. a \in Seq(Entries) /\ b \in Seq(Entries) /\ Len(a) \in Nat /\ Len(b) \in Nat
  BY DEF Runs
<1> DEFINE c == a \o b
           w == [k \in 1..(Len(a) + Len(b) + 1) |-> IF k <= Len(a) THEN u[k] ELSE v[k - Len(a)]]
<1>4. /\ c \in Seq(Entries) /\ Len(c) = Len(a) + Len(b)
      /\ \A k \in 1..Len(a) : c[k] = a[k]
      /\ \A k \in (Len(a) + 1)..(Len(a) + Len(b)) : c[k] = b[k - Len(a)]
  BY <1>3
<1>5. /\ \A k \in 1..(Len(a) + Len(b) + 1) : w[k] = IF k <= Len(a) THEN u[k] ELSE v[k - Len(a)]
      /\ DOMAIN w = 1..(Len(a) + Len(b) + 1)
  OBVIOUS
<1> HIDE DEF c, w
<1>6. w \in Seq(Spots) /\ Len(w) = Len(a) + Len(b) + 1
  <2>1. \A k \in 1..(Len(a) + Len(b) + 1) : w[k] \in Spots
    <3> TAKE k \in 1..(Len(a) + Len(b) + 1)
    <3>1. CASE k <= Len(a)
      <4>1. k \in 1..Len(u)
        BY <1>1, <1>3, <3>1
      <4> QED
        BY <1>5, <3>1, <4>1
    <3>2. CASE ~(k <= Len(a))
      <4>1. k - Len(a) \in 1..Len(v)
        BY <1>2, <1>3, <3>2
      <4> QED
        BY <1>5, <3>2, <4>1
    <3> QED
      BY <3>1, <3>2
  <2>2. w = [k \in 1..(Len(a) + Len(b) + 1) |-> w[k]]
    BY <1>5 DEF w
  <2> QED
    BY <1>3, <2>1, <2>2
<1>7. w[1] = p
  <2>1. CASE Len(a) = 0
    BY <1>1, <1>2, <1>3, <1>5, <2>1
  <2>2. CASE Len(a) # 0
    BY <1>1, <1>3, <1>5, <2>2
  <2> QED
    BY <2>1, <2>2
<1>8. w[Len(w)] = r
  <2>1. Len(w) \in 1..(Len(a) + Len(b) + 1) /\ Len(w) = Len(a) + Len(b) + 1
    BY <1>3, <1>6
  <2>2. ~(Len(w) <= Len(a)) /\ Len(w) - Len(a) = Len(v)
    BY <1>2, <1>3, <2>1
  <2>3. w[Len(w)] = v[Len(w) - Len(a)]
    BY <1>5, <2>1, <2>2
  <2> QED
    BY <1>2, <2>2, <2>3
<1>9. ASSUME NEW k \in 1..Len(c)
      PROVE  Act(c[k], w[k], w[k + 1])
  <2>1. CASE k < Len(a)
    <3>1. k \in 1..Len(a) /\ k + 1 <= Len(a) /\ k <= Len(a)
          /\ k \in 1..(Len(a) + Len(b) + 1) /\ k + 1 \in 1..(Len(a) + Len(b) + 1)
      BY <1>3, <1>4, <2>1
    <3> QED
      BY <1>1, <1>4, <1>5, <3>1
  <2>2. CASE k = Len(a)
    <3>1. k \in 1..Len(a) /\ ~(k + 1 <= Len(a)) /\ k <= Len(a) /\ (k + 1) - Len(a) = 1 /\ k + 1 = Len(u)
          /\ k \in 1..(Len(a) + Len(b) + 1) /\ k + 1 \in 1..(Len(a) + Len(b) + 1)
      BY <1>1, <1>3, <1>4, <2>2
    <3>2. w[k] = u[k] /\ w[k + 1] = v[1]
      BY <1>5, <3>1
    <3> QED
      BY <1>1, <1>2, <1>4, <3>1, <3>2
  <2>3. CASE k > Len(a)
    <3>1. /\ k - Len(a) \in 1..Len(b) /\ ~(k <= Len(a)) /\ ~(k + 1 <= Len(a))
          /\ (k + 1) - Len(a) = (k - Len(a)) + 1 /\ k \in (Len(a) + 1)..(Len(a) + Len(b))
          /\ k \in 1..(Len(a) + Len(b) + 1) /\ k + 1 \in 1..(Len(a) + Len(b) + 1)
      BY <1>3, <1>4, <2>3
    <3>2. w[k] = v[k - Len(a)] /\ w[k + 1] = v[(k - Len(a)) + 1]
      BY <1>5, <3>1
    <3> QED
      BY <1>2, <1>4, <3>1, <3>2
  <2> QED
    BY <1>3, <1>4, <2>1, <2>2, <2>3
<1>10. Len(w) = Len(c) + 1
  BY <1>4, <1>6
<1>11. Runs(c, p, r)
  BY <1>4, <1>6, <1>7, <1>8, <1>9, <1>10 DEF Runs
<1> QED
  BY <1>11 DEF c

LEMMA RunsOnce ==
  ASSUME NEW a, NEW p0, NEW p1,
         Turns(a, p0, p1)
  PROVE  Runs(<<a>>, p0, p1)
<1>1. a \in Entries
  BY DEF Turns
<1>2. p0 \in Spots /\ p1 \in Spots
  BY DEF Turns
<1>3. PICK at \in Seq(Spots) : /\ at = <<p0, p1>> /\ Len(at) = 2
                                  /\ at[1] = p0 /\ at[2] = p1
  <2>1. <<p0, p1>> \in Seq(Spots)
    BY <1>2
  <2> QED
    BY <2>1
<1>4. PICK calls \in Seq(Entries) : /\ calls = <<a>> /\ Len(calls) = 1
                                      /\ calls[1] = a
  <2>1. <<a>> \in Seq(Entries)
    BY <1>1
  <2> QED
    BY <2>1
<1>5. \A k \in 1..1 : Act(calls[k], at[k], at[k + 1])
  <2>1. \A k \in 1..1 : (k = 1 /\ k + 1 = 2)
    OBVIOUS
  <2>2. Act(a, p0, p1)
    BY DEF Turns
  <2> QED
    BY <1>3, <1>4, <2>1, <2>2
<1>6. Len(calls) = 1 /\ Len(at) = Len(calls) + 1 /\ at[1] = p0 /\ at[Len(at)] = p1
  BY <1>3, <1>4
<1>7. Runs(calls, p0, p1)
  BY <1>5, <1>6 DEF Runs
<1> QED
  BY <1>4, <1>7

LEMMA RunsTwo ==
  ASSUME NEW a, NEW b, NEW p0, NEW p1, NEW p2,
         Turns(a, p0, p1), Turns(b, p1, p2)
  PROVE  Runs(<<a, b>>, p0, p2)
<1>1. a \in Entries /\ b \in Entries
  BY DEF Turns
<1>2. p0 \in Spots /\ p1 \in Spots /\ p2 \in Spots
  BY DEF Turns
<1>3. PICK at \in Seq(Spots) : /\ at = <<p0, p1, p2>> /\ Len(at) = 3
                                  /\ at[1] = p0 /\ at[2] = p1 /\ at[3] = p2
  <2>1. <<p0, p1, p2>> \in Seq(Spots)
    BY <1>2
  <2> QED
    BY <2>1
<1>4. PICK calls \in Seq(Entries) : /\ calls = <<a, b>> /\ Len(calls) = 2
                                      /\ calls[1] = a /\ calls[2] = b
  <2>1. <<a, b>> \in Seq(Entries)
    BY <1>1
  <2> QED
    BY <2>1
<1>5. \A k \in 1..2 : Act(calls[k], at[k], at[k + 1])
  <2>1. \A k \in 1..2 : (k = 1 /\ k + 1 = 2) \/ (k = 2 /\ k + 1 = 3)
    OBVIOUS
  <2>2. Act(a, p0, p1) /\ Act(b, p1, p2)
    BY DEF Turns
  <2> QED
    BY <1>3, <1>4, <2>1, <2>2
<1>6. Len(calls) = 2 /\ Len(at) = Len(calls) + 1 /\ at[1] = p0 /\ at[Len(at)] = p2
  BY <1>3, <1>4
<1>7. Runs(calls, p0, p2)
  BY <1>5, <1>6 DEF Runs
<1> QED
  BY <1>4, <1>7

LEMMA RunsThree ==
  ASSUME NEW a, NEW b, NEW c, NEW p0, NEW p1, NEW p2, NEW p3,
         Turns(a, p0, p1), Turns(b, p1, p2), Turns(c, p2, p3)
  PROVE  Runs(<<a, b, c>>, p0, p3)
<1>1. a \in Entries /\ b \in Entries /\ c \in Entries
  BY DEF Turns
<1>2. p0 \in Spots /\ p1 \in Spots /\ p2 \in Spots /\ p3 \in Spots
  BY DEF Turns
<1>3. PICK at \in Seq(Spots) : /\ at = <<p0, p1, p2, p3>> /\ Len(at) = 4
                                  /\ at[1] = p0 /\ at[2] = p1 /\ at[3] = p2 /\ at[4] = p3
  <2>1. <<p0, p1, p2, p3>> \in Seq(Spots)
    BY <1>2
  <2> QED
    BY <2>1
<1>4. PICK calls \in Seq(Entries) : /\ calls = <<a, b, c>> /\ Len(calls) = 3
                                      /\ calls[1] = a /\ calls[2] = b /\ calls[3] = c
  <2>1. <<a, b, c>> \in Seq(Entries)
    BY <1>1
  <2> QED
    BY <2>1
<1>5. \A k \in 1..3 : Act(calls[k], at[k], at[k + 1])
  <2>1. \A k \in 1..3 : (k = 1 /\ k + 1 = 2) \/ (k = 2 /\ k + 1 = 3) \/ (k = 3 /\ k + 1 = 4)
    OBVIOUS
  <2>2. Act(a, p0, p1) /\ Act(b, p1, p2) /\ Act(c, p2, p3)
    BY DEF Turns
  <2> QED
    BY <1>3, <1>4, <2>1, <2>2
<1>6. Len(calls) = 3 /\ Len(at) = Len(calls) + 1 /\ at[1] = p0 /\ at[Len(at)] = p3
  BY <1>3, <1>4
<1>7. Runs(calls, p0, p3)
  BY <1>5, <1>6 DEF Runs
<1> QED
  BY <1>4, <1>7

LEMMA RunsFour ==
  ASSUME NEW a, NEW b, NEW c, NEW d, NEW p0, NEW p1, NEW p2, NEW p3, NEW p4,
         Turns(a, p0, p1), Turns(b, p1, p2), Turns(c, p2, p3), Turns(d, p3, p4)
  PROVE  Runs(<<a, b, c, d>>, p0, p4)
<1>1. a \in Entries /\ b \in Entries /\ c \in Entries /\ d \in Entries
  BY DEF Turns
<1>2. p0 \in Spots /\ p1 \in Spots /\ p2 \in Spots /\ p3 \in Spots /\ p4 \in Spots
  BY DEF Turns
<1>3. PICK at \in Seq(Spots) : /\ at = <<p0, p1, p2, p3, p4>> /\ Len(at) = 5
                                  /\ at[1] = p0 /\ at[2] = p1 /\ at[3] = p2 /\ at[4] = p3 /\ at[5] = p4
  <2>1. <<p0, p1, p2, p3, p4>> \in Seq(Spots)
    BY <1>2
  <2> QED
    BY <2>1
<1>4. PICK calls \in Seq(Entries) : /\ calls = <<a, b, c, d>> /\ Len(calls) = 4
                                      /\ calls[1] = a /\ calls[2] = b /\ calls[3] = c /\ calls[4] = d
  <2>1. <<a, b, c, d>> \in Seq(Entries)
    BY <1>1
  <2> QED
    BY <2>1
<1>5. \A k \in 1..4 : Act(calls[k], at[k], at[k + 1])
  <2>1. \A k \in 1..4 : (k = 1 /\ k + 1 = 2) \/ (k = 2 /\ k + 1 = 3) \/ (k = 3 /\ k + 1 = 4) \/ (k = 4 /\ k + 1 = 5)
    OBVIOUS
  <2>2. Act(a, p0, p1) /\ Act(b, p1, p2) /\ Act(c, p2, p3) /\ Act(d, p3, p4)
    BY DEF Turns
  <2> QED
    BY <1>3, <1>4, <2>1, <2>2
<1>6. Len(calls) = 4 /\ Len(at) = Len(calls) + 1 /\ at[1] = p0 /\ at[Len(at)] = p4
  BY <1>3, <1>4
<1>7. Runs(calls, p0, p4)
  BY <1>5, <1>6 DEF Runs
<1> QED
  BY <1>4, <1>7

LEMMA RunsSix ==
  ASSUME NEW a, NEW b, NEW c, NEW d, NEW e, NEW f, NEW p0, NEW p1, NEW p2, NEW p3, NEW p4, NEW p5,
         NEW p6,
         Turns(a, p0, p1), Turns(b, p1, p2), Turns(c, p2, p3), Turns(d, p3, p4), Turns(e, p4, p5),
         Turns(f, p5, p6)
  PROVE  Runs(<<a, b, c, d, e, f>>, p0, p6)
<1>1. a \in Entries /\ b \in Entries /\ c \in Entries /\ d \in Entries /\ e \in Entries /\
      f \in Entries
  BY DEF Turns
<1>2. p0 \in Spots /\ p1 \in Spots /\ p2 \in Spots /\ p3 \in Spots /\ p4 \in Spots /\
      p5 \in Spots /\ p6 \in Spots
  BY DEF Turns
<1>3. PICK at \in Seq(Spots) : /\ at = <<p0, p1, p2, p3, p4, p5, p6>> /\ Len(at) = 7
                                  /\ at[1] = p0 /\ at[2] = p1 /\ at[3] = p2 /\ at[4] = p3 /\ at[5] = p4 /\ at[6] = p5 /\ at[7] = p6
  <2>1. <<p0, p1, p2, p3, p4, p5, p6>> \in Seq(Spots)
    BY <1>2
  <2> QED
    BY <2>1
<1>4. PICK calls \in Seq(Entries) : /\ calls = <<a, b, c, d, e, f>> /\ Len(calls) = 6
                                      /\ calls[1] = a /\ calls[2] = b /\ calls[3] = c /\ calls[4] = d /\ calls[5] = e /\ calls[6] = f
  <2>1. <<a, b, c, d, e, f>> \in Seq(Entries)
    BY <1>1
  <2> QED
    BY <2>1
<1>5. \A k \in 1..6 : Act(calls[k], at[k], at[k + 1])
  <2>1. \A k \in 1..6 : (k = 1 /\ k + 1 = 2) \/ (k = 2 /\ k + 1 = 3) \/ (k = 3 /\ k + 1 = 4) \/ (k = 4 /\ k + 1 = 5) \/
          (k = 5 /\ k + 1 = 6) \/ (k = 6 /\ k + 1 = 7)
    OBVIOUS
  <2>2. Act(a, p0, p1) /\ Act(b, p1, p2) /\ Act(c, p2, p3) /\ Act(d, p3, p4) /\ Act(e, p4, p5) /\
        Act(f, p5, p6)
    BY DEF Turns
  <2> QED
    BY <1>3, <1>4, <2>1, <2>2
<1>6. Len(calls) = 6 /\ Len(at) = Len(calls) + 1 /\ at[1] = p0 /\ at[Len(at)] = p6
  BY <1>3, <1>4
<1>7. Runs(calls, p0, p6)
  BY <1>5, <1>6 DEF Runs
<1> QED
  BY <1>4, <1>7

LEMMA RunsEleven ==
  ASSUME NEW a, NEW b, NEW c, NEW d, NEW e, NEW f, NEW g, NEW h, NEW i, NEW j, NEW k, NEW p0, NEW p1,
         NEW p2, NEW p3, NEW p4, NEW p5, NEW p6, NEW p7, NEW p8, NEW p9, NEW p10, NEW p11,
         Turns(a, p0, p1), Turns(b, p1, p2), Turns(c, p2, p3), Turns(d, p3, p4), Turns(e, p4, p5),
         Turns(f, p5, p6), Turns(g, p6, p7), Turns(h, p7, p8), Turns(i, p8, p9), Turns(j, p9, p10),
         Turns(k, p10, p11)
  PROVE  Runs(<<a, b, c, d, e, f, g, h, i, j, k>>, p0, p11)
<1>1. a \in Entries /\ b \in Entries /\ c \in Entries /\ d \in Entries /\ e \in Entries /\
      f \in Entries /\ g \in Entries /\ h \in Entries /\ i \in Entries /\ j \in Entries /\
      k \in Entries
  BY DEF Turns
<1>2. p0 \in Spots /\ p1 \in Spots /\ p2 \in Spots /\ p3 \in Spots /\ p4 \in Spots /\
      p5 \in Spots /\ p6 \in Spots /\ p7 \in Spots /\ p8 \in Spots /\ p9 \in Spots /\
      p10 \in Spots /\ p11 \in Spots
  BY DEF Turns
<1>3. PICK at \in Seq(Spots) : /\ at = <<p0, p1, p2, p3, p4, p5, p6, p7, p8, p9, p10, p11>> /\ Len(at) = 12
                                  /\ at[1] = p0 /\ at[2] = p1 /\ at[3] = p2 /\ at[4] = p3 /\ at[5] = p4 /\ at[6] = p5 /\ at[7] = p6 /\
                                     at[8] = p7 /\ at[9] = p8 /\ at[10] = p9 /\ at[11] = p10 /\ at[12] = p11
  <2>1. <<p0, p1, p2, p3, p4, p5, p6, p7, p8, p9, p10, p11>> \in Seq(Spots)
    BY <1>2
  <2> QED
    BY <2>1
<1>4. PICK calls \in Seq(Entries) : /\ calls = <<a, b, c, d, e, f, g, h, i, j, k>> /\ Len(calls) = 11
                                      /\ calls[1] = a /\ calls[2] = b /\ calls[3] = c /\ calls[4] = d /\ calls[5] = e /\ calls[6] = f /\
                                         calls[7] = g /\ calls[8] = h /\ calls[9] = i /\ calls[10] = j /\ calls[11] = k
  <2>1. <<a, b, c, d, e, f, g, h, i, j, k>> \in Seq(Entries)
    BY <1>1
  <2> QED
    BY <2>1
<1>5. \A n \in 1..11 : Act(calls[n], at[n], at[n + 1])
  <2>1. \A n \in 1..11 : (n = 1 /\ n + 1 = 2) \/ (n = 2 /\ n + 1 = 3) \/ (n = 3 /\ n + 1 = 4) \/ (n = 4 /\ n + 1 = 5) \/
          (n = 5 /\ n + 1 = 6) \/ (n = 6 /\ n + 1 = 7) \/ (n = 7 /\ n + 1 = 8) \/ (n = 8 /\ n + 1 = 9) \/
          (n = 9 /\ n + 1 = 10) \/ (n = 10 /\ n + 1 = 11) \/ (n = 11 /\ n + 1 = 12)
    OBVIOUS
  <2>2. Act(a, p0, p1) /\ Act(b, p1, p2) /\ Act(c, p2, p3) /\ Act(d, p3, p4) /\ Act(e, p4, p5) /\
        Act(f, p5, p6) /\ Act(g, p6, p7) /\ Act(h, p7, p8) /\ Act(i, p8, p9) /\ Act(j, p9, p10) /\
        Act(k, p10, p11)
    BY DEF Turns
  <2> QED
    BY <1>3, <1>4, <2>1, <2>2
<1>6. Len(calls) = 11 /\ Len(at) = Len(calls) + 1 /\ at[1] = p0 /\ at[Len(at)] = p11
  BY <1>3, <1>4
<1>7. Runs(calls, p0, p11)
  BY <1>5, <1>6 DEF Runs
<1> QED
  BY <1>4, <1>7

LEMMA CallsAre ==
  /\ \A call \in {Flush, Detach, Trail, Token, Finish} \cup Decisions : call \in Entries
  /\ \A kind \in NodeKinds : Start(kind) \in Entries /\ Wrap(kind) \in Entries
  /\ \A opened \in Nat, shape \in Shapes : Items(opened, shape) \in Entries
<1>1. ASSUME NEW opened \in Nat, NEW shape \in Shapes
      PROVE  Items(opened, shape) \in {Items(o, s) : o \in Nat, s \in Shapes}
  OBVIOUS
<1>2. ASSUME NEW kind \in NodeKinds
      PROVE  Start(kind) \in {Start(k) : k \in NodeKinds} /\ Wrap(kind) \in {Wrap(k) : k \in NodeKinds}
  OBVIOUS
<1>3. \A opened \in Nat, shape \in Shapes : Items(opened, shape) \in Entries
  BY <1>1 DEF Entries
<1>4. \A kind \in NodeKinds : Start(kind) \in Entries /\ Wrap(kind) \in Entries
  BY <1>2 DEF Entries
<1>5. \A call \in {Flush, Detach, Trail, Token, Finish} \cup Decisions : call \in Entries
  BY DEF Entries
<1> QED
  BY <1>3, <1>4, <1>5

LEMMA SpotIs ==
  ASSUME NEW nest \in Nests, NEW mode \in Modes, NEW byte \in Nat
  PROVE  /\ Spot(nest, mode, byte) \in Spots
         /\ Spot(nest, mode, byte).nest = nest /\ Spot(nest, mode, byte).mode = mode
         /\ Spot(nest, mode, byte).byte = byte
BY DEF Spot, Spots

LEMMA SpotSame ==
  ASSUME NEW p \in Spots
  PROVE  p = Spot(p.nest, p.mode, p.byte) /\ p.nest \in Nests /\ p.mode \in Modes /\ p.byte \in Nat
BY DEF Spot, Spots

LEMMA ModesAre ==
  /\ "any" \in Modes /\ "flushed" \in Modes /\ "detached" \in Modes /\ "bare" \in Modes /\ "settled" \in Modes
  /\ "trailed" \in Modes /\ "ready" \in Modes /\ "unclosed" \in Modes /\ 0 \in Nat
  /\ "bare" \in Ends /\ "settled" \in Ends /\ \A mode \in Ends : mode \in Modes
BY DEF Modes, Ends

LEMMA KindsAre ==
  /\ \A kind \in PlainKinds : kind \in NodeKinds /\ kind # "Statement" /\ kind # "Block"
  /\ "Key" \in PlainKinds /\ "Value" \in PlainKinds /\ "Annotation" \in PlainKinds /\ "Scalar" \in PlainKinds
  /\ "TypeExpr" \in PlainKinds /\ "Call" \in PlainKinds /\ "Error" \in PlainKinds /\ "File" \in PlainKinds
  /\ "Statement" \in NodeKinds /\ "Block" \in NodeKinds
BY DEF PlainKinds, NodeKinds

LEMMA NestIs ==
  ASSUME NEW nest \in Nests, NEW kind \in NodeKinds, NEW at \in Nat, NEW held \in 0..1
  PROVE  /\ Append(nest, Node(kind, at, held)) \in Nests
         /\ Len(Append(nest, Node(kind, at, held))) = Len(nest) + 1
BY DEF Nests, Node, Element

-----------------------------------------------------------------------------
(* What each call promises *)

LEMMA Flushes ==
  ASSUME NEW nest \in Nests,
         NEW mode \in Modes,
         NEW byte \in Nat
  PROVE  Turns(Flush, Spot(nest, mode, byte), Spot(nest, "flushed", byte))
<1> DEFINE p == Spot(nest, mode, byte)
           q == Spot(nest, "flushed", byte)
<1>0. 0 \in Nat /\ 0 \in 0..1 /\ 1 \in 0..1
  OBVIOUS
<1>1. nest \in Nests
  BY <1>0, NestIs, KindsAre
<1>2. p \in Spots /\ p.nest = nest /\ p.mode = mode /\ p.byte = byte
  BY <1>1, ModesAre, SpotIs
<1>3. q \in Spots /\ q.nest = nest /\ q.mode = "flushed" /\ q.byte = byte /\ q = Spot(nest, "flushed", byte)
  BY <1>1, ModesAre, SpotIs
<1>4. Flush \in Entries
  BY CallsAre, KindsAre
<1> HIDE DEF p, q
<1>5. Act(Flush, p, q)
  BY <1>0, <1>1, <1>4, <1>2, <1>3, KindsAre, ModesAre, Zenon DEF Act
<1>6. Turns(Flush, p, q)
  BY <1>2, <1>3, <1>4, <1>5 DEF Turns
<1> QED
  BY <1>6 DEF p, q

LEMMA FlushesUnclosed ==
  ASSUME NEW nest \in Nests
  PROVE  Turns(Flush, Spot(nest, "unclosed", 0), Spot(nest, "unclosed", 0))
<1> DEFINE p == Spot(nest, "unclosed", 0)
           q == Spot(nest, "unclosed", 0)
<1>0. 0 \in Nat /\ 0 \in 0..1 /\ 1 \in 0..1
  OBVIOUS
<1>1. nest \in Nests
  BY <1>0, NestIs, KindsAre
<1>2. p \in Spots /\ p.nest = nest /\ p.mode = "unclosed" /\ p.byte = 0
  BY <1>1, ModesAre, SpotIs
<1>3. q \in Spots /\ q.nest = nest /\ q.mode = "unclosed" /\ q.byte = 0 /\ q = Spot(nest, "unclosed", 0)
  BY <1>1, ModesAre, SpotIs
<1>4. Flush \in Entries
  BY CallsAre, KindsAre
<1> HIDE DEF p, q
<1>5. Act(Flush, p, q)
  BY <1>0, <1>1, <1>4, <1>2, <1>3, KindsAre, ModesAre, Zenon DEF Act
<1>6. Turns(Flush, p, q)
  BY <1>2, <1>3, <1>4, <1>5 DEF Turns
<1> QED
  BY <1>6 DEF p, q

LEMMA Detaches ==
  ASSUME NEW nest \in Nests,
         NEW mode \in {"bare", "ready"}
  PROVE  Turns(Detach, Spot(nest, mode, 0), Spot(nest, "detached", 0))
<1> DEFINE p == Spot(nest, mode, 0)
           q == Spot(nest, "detached", 0)
<1>0. 0 \in Nat /\ 0 \in 0..1 /\ 1 \in 0..1
  OBVIOUS
<1>1. nest \in Nests
  BY <1>0, NestIs, KindsAre
<1>2. p \in Spots /\ p.nest = nest /\ p.mode = mode /\ p.byte = 0
  BY <1>1, ModesAre, SpotIs
<1>3. q \in Spots /\ q.nest = nest /\ q.mode = "detached" /\ q.byte = 0 /\ q = Spot(nest, "detached", 0)
  BY <1>1, ModesAre, SpotIs
<1>4. Detach \in Entries
  BY CallsAre, KindsAre
<1> HIDE DEF p, q
<1>5. Act(Detach, p, q)
  BY <1>0, <1>1, <1>4, <1>2, <1>3, KindsAre, ModesAre, Zenon DEF Act
<1>6. Turns(Detach, p, q)
  BY <1>2, <1>3, <1>4, <1>5 DEF Turns
<1> QED
  BY <1>6 DEF p, q

LEMMA Trails ==
  ASSUME NEW nest \in Nests,
         NEW mode \in Ends
  PROVE  Turns(Trail, Spot(Append(nest, Node("Statement", 0, 1)), mode, 0), Spot(Append(nest, Node("Statement", 0, 1)), "trailed", 0))
<1> DEFINE inner == Append(nest, Node("Statement", 0, 1))
           p == Spot(inner, mode, 0)
           q == Spot(inner, "trailed", 0)
<1>0. 0 \in Nat /\ 0 \in 0..1 /\ 1 \in 0..1
  OBVIOUS
<1>1. nest \in Nests /\ inner \in Nests
  BY <1>0, NestIs, KindsAre
<1> HIDE DEF inner
<1>2. p \in Spots /\ p.nest = inner /\ p.mode = mode /\ p.byte = 0
  BY <1>1, ModesAre, SpotIs
<1>3. q \in Spots /\ q.nest = inner /\ q.mode = "trailed" /\ q.byte = 0 /\ q = Spot(inner, "trailed", 0)
  BY <1>1, ModesAre, SpotIs
<1>4. Trail \in Entries
  BY CallsAre, KindsAre
<1> HIDE DEF p, q
<1>5. Act(Trail, p, q)
  BY <1>0, <1>1, <1>4, <1>2, <1>3, KindsAre, ModesAre, Zenon DEF Act, inner
<1>6. Turns(Trail, p, q)
  BY <1>2, <1>3, <1>4, <1>5 DEF Turns
<1> QED
  BY <1>6 DEF p, q, inner

LEMMA TakesToken ==
  ASSUME NEW nest \in Nests,
         NEW mode \in Modes,
         NEW end \in Ends
  PROVE  Turns(Token, Spot(nest, mode, 0), Spot(nest, end, 0))
<1> DEFINE p == Spot(nest, mode, 0)
           q == Spot(nest, end, 0)
<1>0. 0 \in Nat /\ 0 \in 0..1 /\ 1 \in 0..1
  OBVIOUS
<1>1. nest \in Nests
  BY <1>0, NestIs, KindsAre
<1>2. p \in Spots /\ p.nest = nest /\ p.mode = mode /\ p.byte = 0
  BY <1>1, ModesAre, SpotIs
<1>3. q \in Spots /\ q.nest = nest /\ q.mode = end /\ q.byte = 0 /\ q = Spot(nest, end, 0)
  BY <1>1, ModesAre, SpotIs
<1>4. Token \in Entries
  BY CallsAre, KindsAre
<1> HIDE DEF p, q
<1>5. Act(Token, p, q)
  BY <1>0, <1>1, <1>4, <1>2, <1>3, KindsAre, ModesAre, Zenon DEF Act
<1>6. Turns(Token, p, q)
  BY <1>2, <1>3, <1>4, <1>5 DEF Turns
<1> QED
  BY <1>6 DEF p, q

LEMMA HoldsToken ==
  ASSUME NEW nest \in Nests,
         NEW mode \in Modes,
         NEW end \in Ends,
         NEW kind \in NodeKinds,
         NEW at \in Nat
  PROVE  Turns(Token, Spot(Append(nest, Node(kind, at, 0)), mode, 0), Spot(Append(nest, Node(kind, at, 1)), end, 0))
<1> DEFINE inner == Append(nest, Node(kind, at, 0))
           then == Append(nest, Node(kind, at, 1))
           p == Spot(inner, mode, 0)
           q == Spot(then, end, 0)
<1>0. 0 \in Nat /\ 0 \in 0..1 /\ 1 \in 0..1
  OBVIOUS
<1>1. nest \in Nests /\ inner \in Nests /\ then \in Nests
  BY <1>0, NestIs, KindsAre
<1> HIDE DEF inner, then
<1>2. p \in Spots /\ p.nest = inner /\ p.mode = mode /\ p.byte = 0
  BY <1>1, ModesAre, SpotIs
<1>3. q \in Spots /\ q.nest = then /\ q.mode = end /\ q.byte = 0 /\ q = Spot(then, end, 0)
  BY <1>1, ModesAre, SpotIs
<1>4. Token \in Entries
  BY CallsAre, KindsAre
<1> HIDE DEF p, q
<1>5. Act(Token, p, q)
  BY <1>0, <1>1, <1>4, <1>2, <1>3, KindsAre, ModesAre, Zenon DEF Act, inner, then
<1>6. Turns(Token, p, q)
  BY <1>2, <1>3, <1>4, <1>5 DEF Turns
<1> QED
  BY <1>6 DEF p, q, inner, then

LEMMA Starting ==
  ASSUME NEW nest \in Nests,
         NEW mode \in Modes,
         NEW kind \in PlainKinds
  PROVE  Turns(Start(kind), Spot(nest, mode, 0), Spot(Append(nest, Node(kind, 0, 0)), "any", 0))
<1> DEFINE inner == Append(nest, Node(kind, 0, 0))
           p == Spot(nest, mode, 0)
           q == Spot(inner, "any", 0)
<1>0. 0 \in Nat /\ 0 \in 0..1 /\ 1 \in 0..1
  OBVIOUS
<1>1. nest \in Nests /\ inner \in Nests
  BY <1>0, NestIs, KindsAre
<1> HIDE DEF inner
<1>2. p \in Spots /\ p.nest = nest /\ p.mode = mode /\ p.byte = 0
  BY <1>1, ModesAre, SpotIs
<1>3. q \in Spots /\ q.nest = inner /\ q.mode = "any" /\ q.byte = 0 /\ q = Spot(inner, "any", 0)
  BY <1>1, ModesAre, SpotIs
<1>4. Start(kind) \in Entries
  BY CallsAre, KindsAre
<1> HIDE DEF p, q
<1>5. Act(Start(kind), p, q)
  BY <1>0, <1>1, <1>4, <1>2, <1>3, KindsAre, ModesAre, Zenon DEF Act, inner
<1>6. Turns(Start(kind), p, q)
  BY <1>2, <1>3, <1>4, <1>5 DEF Turns
<1> QED
  BY <1>6 DEF p, q, inner

LEMMA Wrapping ==
  ASSUME NEW nest \in Nests,
         NEW kind \in PlainKinds,
         NEW mode \in {"any", "bare"}
  PROVE  Turns(Wrap(kind), Spot(nest, "bare", 0), Spot(Append(nest, Node(kind, 0, 0)), mode, 0))
<1> DEFINE inner == Append(nest, Node(kind, 0, 0))
           p == Spot(nest, "bare", 0)
           q == Spot(inner, mode, 0)
<1>0. 0 \in Nat /\ 0 \in 0..1 /\ 1 \in 0..1
  OBVIOUS
<1>1. nest \in Nests /\ inner \in Nests
  BY <1>0, NestIs, KindsAre
<1> HIDE DEF inner
<1>2. p \in Spots /\ p.nest = nest /\ p.mode = "bare" /\ p.byte = 0
  BY <1>1, ModesAre, SpotIs
<1>3. q \in Spots /\ q.nest = inner /\ q.mode = mode /\ q.byte = 0 /\ q = Spot(inner, mode, 0)
  BY <1>1, ModesAre, SpotIs
<1>4. Wrap(kind) \in Entries
  BY CallsAre, KindsAre
<1> HIDE DEF p, q
<1>5. Act(Wrap(kind), p, q)
  BY <1>0, <1>1, <1>4, <1>2, <1>3, KindsAre, ModesAre, Zenon DEF Act, inner
<1>6. Turns(Wrap(kind), p, q)
  BY <1>2, <1>3, <1>4, <1>5 DEF Turns
<1> QED
  BY <1>6 DEF p, q, inner

LEMMA StartsStatement ==
  ASSUME NEW nest \in Nests
  PROVE  Turns(Start("Statement"), Spot(nest, "detached", 0), Spot(Append(nest, Node("Statement", 0, 0)), "any", 0))
<1> DEFINE inner == Append(nest, Node("Statement", 0, 0))
           p == Spot(nest, "detached", 0)
           q == Spot(inner, "any", 0)
<1>0. 0 \in Nat /\ 0 \in 0..1 /\ 1 \in 0..1
  OBVIOUS
<1>1. nest \in Nests /\ inner \in Nests
  BY <1>0, NestIs, KindsAre
<1> HIDE DEF inner
<1>2. p \in Spots /\ p.nest = nest /\ p.mode = "detached" /\ p.byte = 0
  BY <1>1, ModesAre, SpotIs
<1>3. q \in Spots /\ q.nest = inner /\ q.mode = "any" /\ q.byte = 0 /\ q = Spot(inner, "any", 0)
  BY <1>1, ModesAre, SpotIs
<1>4. Start("Statement") \in Entries
  BY CallsAre, KindsAre
<1> HIDE DEF p, q
<1>5. Act(Start("Statement"), p, q)
  BY <1>0, <1>1, <1>4, <1>2, <1>3, KindsAre, ModesAre, Zenon DEF Act, inner
<1>6. Turns(Start("Statement"), p, q)
  BY <1>2, <1>3, <1>4, <1>5 DEF Turns
<1> QED
  BY <1>6 DEF p, q, inner

LEMMA StartsBlock ==
  ASSUME NEW nest \in Nests,
         NEW byte \in Nat \ {0}
  PROVE  Turns(Start("Block"), Spot(nest, "flushed", byte), Spot(Append(nest, Node("Block", byte, 0)), "any", 0))
<1> DEFINE inner == Append(nest, Node("Block", byte, 0))
           p == Spot(nest, "flushed", byte)
           q == Spot(inner, "any", 0)
<1>0. 0 \in Nat /\ 0 \in 0..1 /\ 1 \in 0..1
  OBVIOUS
<1>1. nest \in Nests /\ inner \in Nests
  BY <1>0, NestIs, KindsAre
<1> HIDE DEF inner
<1>2. p \in Spots /\ p.nest = nest /\ p.mode = "flushed" /\ p.byte = byte
  BY <1>1, ModesAre, SpotIs
<1>3. q \in Spots /\ q.nest = inner /\ q.mode = "any" /\ q.byte = 0 /\ q = Spot(inner, "any", 0)
  BY <1>1, ModesAre, SpotIs
<1>4. Start("Block") \in Entries
  BY CallsAre, KindsAre
<1> HIDE DEF p, q
<1>5. Act(Start("Block"), p, q)
  BY <1>0, <1>1, <1>4, <1>2, <1>3, KindsAre, ModesAre, Zenon DEF Act, inner
<1>6. Turns(Start("Block"), p, q)
  BY <1>2, <1>3, <1>4, <1>5 DEF Turns
<1> QED
  BY <1>6 DEF p, q, inner

LEMMA FinishesBare ==
  ASSUME NEW nest \in Nests,
         NEW kind \in NodeKinds \ {"Statement"},
         NEW at \in Nat,
         NEW held \in 0..1,
         NEW end \in Ends
  PROVE  Turns(Finish, Spot(Append(nest, Node(kind, at, held)), "bare", 0), Spot(nest, end, 0))
<1> DEFINE inner == Append(nest, Node(kind, at, held))
           p == Spot(inner, "bare", 0)
           q == Spot(nest, end, 0)
<1>0. 0 \in Nat /\ 0 \in 0..1 /\ 1 \in 0..1 /\ kind \in NodeKinds /\ kind # "Statement"
  OBVIOUS
<1>1. nest \in Nests /\ inner \in Nests
  BY <1>0, NestIs, KindsAre
<1> HIDE DEF inner
<1>2. p \in Spots /\ p.nest = inner /\ p.mode = "bare" /\ p.byte = 0
  BY <1>1, ModesAre, SpotIs
<1>3. q \in Spots /\ q.nest = nest /\ q.mode = end /\ q.byte = 0 /\ q = Spot(nest, end, 0)
  BY <1>1, ModesAre, SpotIs
<1>4. Finish \in Entries
  BY CallsAre, KindsAre
<1> HIDE DEF p, q
<1>5. Act(Finish, p, q)
  BY <1>0, <1>1, <1>4, <1>2, <1>3, KindsAre, ModesAre, Zenon DEF Act, inner
<1>6. Turns(Finish, p, q)
  BY <1>2, <1>3, <1>4, <1>5 DEF Turns
<1> QED
  BY <1>6 DEF p, q, inner

LEMMA FinishesSettled ==
  ASSUME NEW nest \in Nests,
         NEW kind \in NodeKinds \ {"Statement"},
         NEW at \in Nat,
         NEW held \in 0..1
  PROVE  Turns(Finish, Spot(Append(nest, Node(kind, at, held)), "settled", 0), Spot(nest, "settled", 0))
<1> DEFINE inner == Append(nest, Node(kind, at, held))
           p == Spot(inner, "settled", 0)
           q == Spot(nest, "settled", 0)
<1>0. 0 \in Nat /\ 0 \in 0..1 /\ 1 \in 0..1 /\ kind \in NodeKinds /\ kind # "Statement"
  OBVIOUS
<1>1. nest \in Nests /\ inner \in Nests
  BY <1>0, NestIs, KindsAre
<1> HIDE DEF inner
<1>2. p \in Spots /\ p.nest = inner /\ p.mode = "settled" /\ p.byte = 0
  BY <1>1, ModesAre, SpotIs
<1>3. q \in Spots /\ q.nest = nest /\ q.mode = "settled" /\ q.byte = 0 /\ q = Spot(nest, "settled", 0)
  BY <1>1, ModesAre, SpotIs
<1>4. Finish \in Entries
  BY CallsAre, KindsAre
<1> HIDE DEF p, q
<1>5. Act(Finish, p, q)
  BY <1>0, <1>1, <1>4, <1>2, <1>3, KindsAre, ModesAre, Zenon DEF Act, inner
<1>6. Turns(Finish, p, q)
  BY <1>2, <1>3, <1>4, <1>5 DEF Turns
<1> QED
  BY <1>6 DEF p, q, inner

LEMMA FinishesAny ==
  ASSUME NEW nest \in Nests,
         NEW kind \in NodeKinds \ {"Statement"},
         NEW at \in Nat,
         NEW held \in 0..1,
         NEW mode \in Modes
  PROVE  Turns(Finish, Spot(Append(nest, Node(kind, at, held)), mode, 0), Spot(nest, "any", 0))
<1> DEFINE inner == Append(nest, Node(kind, at, held))
           p == Spot(inner, mode, 0)
           q == Spot(nest, "any", 0)
<1>0. 0 \in Nat /\ 0 \in 0..1 /\ 1 \in 0..1 /\ kind \in NodeKinds /\ kind # "Statement"
  OBVIOUS
<1>1. nest \in Nests /\ inner \in Nests
  BY <1>0, NestIs, KindsAre
<1> HIDE DEF inner
<1>2. p \in Spots /\ p.nest = inner /\ p.mode = mode /\ p.byte = 0
  BY <1>1, ModesAre, SpotIs
<1>3. q \in Spots /\ q.nest = nest /\ q.mode = "any" /\ q.byte = 0 /\ q = Spot(nest, "any", 0)
  BY <1>1, ModesAre, SpotIs
<1>4. Finish \in Entries
  BY CallsAre, KindsAre
<1> HIDE DEF p, q
<1>5. Act(Finish, p, q)
  BY <1>0, <1>1, <1>4, <1>2, <1>3, KindsAre, ModesAre, Zenon DEF Act, inner
<1>6. Turns(Finish, p, q)
  BY <1>2, <1>3, <1>4, <1>5 DEF Turns
<1> QED
  BY <1>6 DEF p, q, inner

LEMMA FinishesStatement ==
  ASSUME NEW nest \in Nests
  PROVE  Turns(Finish, Spot(Append(nest, Node("Statement", 0, 1)), "trailed", 0), Spot(nest, "ready", 0))
<1> DEFINE inner == Append(nest, Node("Statement", 0, 1))
           p == Spot(inner, "trailed", 0)
           q == Spot(nest, "ready", 0)
<1>0. 0 \in Nat /\ 0 \in 0..1 /\ 1 \in 0..1
  OBVIOUS
<1>1. nest \in Nests /\ inner \in Nests
  BY <1>0, NestIs, KindsAre
<1> HIDE DEF inner
<1>2. p \in Spots /\ p.nest = inner /\ p.mode = "trailed" /\ p.byte = 0
  BY <1>1, ModesAre, SpotIs
<1>3. q \in Spots /\ q.nest = nest /\ q.mode = "ready" /\ q.byte = 0 /\ q = Spot(nest, "ready", 0)
  BY <1>1, ModesAre, SpotIs
<1>4. Finish \in Entries
  BY CallsAre, KindsAre
<1> HIDE DEF p, q
<1>5. Act(Finish, p, q)
  BY <1>0, <1>1, <1>4, <1>2, <1>3, KindsAre, ModesAre, Zenon DEF Act, inner
<1>6. Turns(Finish, p, q)
  BY <1>2, <1>3, <1>4, <1>5 DEF Turns
<1> QED
  BY <1>6 DEF p, q, inner

LEMMA FinishesUnclosed ==
  ASSUME NEW nest \in Nests,
         NEW at \in Nat
  PROVE  Turns(Finish, Spot(Append(nest, Node("Block", at, 1)), "unclosed", 0), Spot(nest, "settled", 0))
<1> DEFINE inner == Append(nest, Node("Block", at, 1))
           p == Spot(inner, "unclosed", 0)
           q == Spot(nest, "settled", 0)
<1>0. 0 \in Nat /\ 0 \in 0..1 /\ 1 \in 0..1
  OBVIOUS
<1>1. nest \in Nests /\ inner \in Nests
  BY <1>0, NestIs, KindsAre
<1> HIDE DEF inner
<1>2. p \in Spots /\ p.nest = inner /\ p.mode = "unclosed" /\ p.byte = 0
  BY <1>1, ModesAre, SpotIs
<1>3. q \in Spots /\ q.nest = nest /\ q.mode = "settled" /\ q.byte = 0 /\ q = Spot(nest, "settled", 0)
  BY <1>1, ModesAre, SpotIs
<1>4. Finish \in Entries
  BY CallsAre, KindsAre
<1> HIDE DEF p, q
<1>5. Act(Finish, p, q)
  BY <1>0, <1>1, <1>4, <1>2, <1>3, KindsAre, ModesAre, Zenon DEF Act, inner
<1>6. Turns(Finish, p, q)
  BY <1>2, <1>3, <1>4, <1>5 DEF Turns
<1> QED
  BY <1>6 DEF p, q, inner

LEMMA AsksValue ==
  ASSUME NEW nest \in Nests,
         NEW mode \in Modes,
         NEW call \in {<<"value">>, <<"annotated">>}
  PROVE  Turns(call, Spot(nest, mode, 0), Spot(nest, "settled", 0))
<1> DEFINE p == Spot(nest, mode, 0)
           q == Spot(nest, "settled", 0)
<1>0. 0 \in Nat /\ 0 \in 0..1 /\ 1 \in 0..1
  OBVIOUS
<1>1. nest \in Nests
  BY <1>0, NestIs, KindsAre
<1>2. p \in Spots /\ p.nest = nest /\ p.mode = mode /\ p.byte = 0
  BY <1>1, ModesAre, SpotIs
<1>3. q \in Spots /\ q.nest = nest /\ q.mode = "settled" /\ q.byte = 0 /\ q = Spot(nest, "settled", 0)
  BY <1>1, ModesAre, SpotIs
<1>4. call \in Entries
  <2>1. call \in Decisions
    BY Names DEF TokenEnders
  <2> QED
    BY <2>1, CallsAre
<1> HIDE DEF p, q
<1>5. Act(call, p, q)
  BY <1>0, <1>1, <1>4, <1>2, <1>3, KindsAre, ModesAre, Zenon DEF Act
<1>6. Turns(call, p, q)
  BY <1>2, <1>3, <1>4, <1>5 DEF Turns
<1> QED
  BY <1>6 DEF p, q

LEMMA EndsToken ==
  ASSUME NEW nest \in Nests,
         NEW end \in Ends,
         NEW call \in TokenEnders
  PROVE  Turns(call, Spot(nest, "bare", 0), Spot(nest, end, 0))
<1> DEFINE p == Spot(nest, "bare", 0)
           q == Spot(nest, end, 0)
<1>0. 0 \in Nat /\ 0 \in 0..1 /\ 1 \in 0..1
  OBVIOUS
<1>1. nest \in Nests
  BY <1>0, NestIs, KindsAre
<1>2. p \in Spots /\ p.nest = nest /\ p.mode = "bare" /\ p.byte = 0
  BY <1>1, ModesAre, SpotIs
<1>3. q \in Spots /\ q.nest = nest /\ q.mode = end /\ q.byte = 0 /\ q = Spot(nest, end, 0)
  BY <1>1, ModesAre, SpotIs
<1>4. call \in Entries
  <2>1. call \in Decisions
    BY Names DEF TokenEnders
  <2> QED
    BY <2>1, CallsAre
<1> HIDE DEF p, q
<1>5. Act(call, p, q)
  BY <1>0, <1>1, <1>4, <1>2, <1>3, KindsAre, ModesAre, Zenon DEF Act
<1>6. Turns(call, p, q)
  BY <1>2, <1>3, <1>4, <1>5 DEF Turns
<1> QED
  BY <1>6 DEF p, q

LEMMA EndsScalar ==
  ASSUME NEW nest \in Nests,
         NEW mode \in Modes,
         NEW end \in Ends
  PROVE  Turns(<<"scalar">>, Spot(nest, mode, 0), Spot(nest, end, 0))
<1> DEFINE p == Spot(nest, mode, 0)
           q == Spot(nest, end, 0)
<1>0. 0 \in Nat /\ 0 \in 0..1 /\ 1 \in 0..1
  OBVIOUS
<1>1. nest \in Nests
  BY <1>0, NestIs, KindsAre
<1>2. p \in Spots /\ p.nest = nest /\ p.mode = mode /\ p.byte = 0
  BY <1>1, ModesAre, SpotIs
<1>3. q \in Spots /\ q.nest = nest /\ q.mode = end /\ q.byte = 0 /\ q = Spot(nest, end, 0)
  BY <1>1, ModesAre, SpotIs
<1>4. <<"scalar">> \in Entries /\ (<<"scalar">> \in TokenEnders => mode = "bare")
  <2>1. <<"scalar">> \in Decisions
    BY Names DEF TokenEnders
  <2> QED
    BY <2>1, CallsAre DEF TokenEnders
<1> HIDE DEF p, q
<1>5. Act(<<"scalar">>, p, q)
  BY <1>0, <1>1, <1>4, <1>2, <1>3, KindsAre, ModesAre, Zenon DEF Act
<1>6. Turns(<<"scalar">>, p, q)
  BY <1>2, <1>3, <1>4, <1>5 DEF Turns
<1> QED
  BY <1>6 DEF p, q

LEMMA ItemsOfBlock ==
  ASSUME NEW nest \in Nests,
         NEW mode \in {"bare", "ready"},
         NEW shape \in Shapes,
         NEW opened \in Nat \ {0}
  PROVE  Turns(Items(opened, shape), Spot(Append(nest, Node("Block", opened, 1)), mode, 0), Spot(nest, "settled", 0))
<1> DEFINE inner == Append(nest, Node("Block", opened, 1))
           p == Spot(inner, mode, 0)
           q == Spot(nest, "settled", 0)
<1>0. 0 \in Nat /\ 0 \in 0..1 /\ 1 \in 0..1
  OBVIOUS
<1>1. nest \in Nests /\ inner \in Nests
  BY <1>0, NestIs, KindsAre
<1> HIDE DEF inner
<1>2. p \in Spots /\ p.nest = inner /\ p.mode = mode /\ p.byte = 0
  BY <1>1, ModesAre, SpotIs
<1>3. q \in Spots /\ q.nest = nest /\ q.mode = "settled" /\ q.byte = 0 /\ q = Spot(nest, "settled", 0)
  BY <1>1, ModesAre, SpotIs
<1>4. Items(opened, shape) \in Entries
  BY CallsAre, KindsAre
<1> HIDE DEF p, q
<1>5. Act(Items(opened, shape), p, q)
  BY <1>0, <1>1, <1>4, <1>2, <1>3, KindsAre, ModesAre, Zenon DEF Act, inner
<1>6. Turns(Items(opened, shape), p, q)
  BY <1>2, <1>3, <1>4, <1>5 DEF Turns
<1> QED
  BY <1>6 DEF p, q, inner

LEMMA ItemsOfFile ==
  ASSUME NEW nest \in Nests,
         NEW mode \in {"bare", "ready"},
         NEW shape \in Shapes
  PROVE  Turns(Items(0, shape), Spot(Append(nest, Node("File", 0, 0)), mode, 0), Spot(nest, "any", 0))
<1> DEFINE inner == Append(nest, Node("File", 0, 0))
           p == Spot(inner, mode, 0)
           q == Spot(nest, "any", 0)
<1>0. 0 \in Nat /\ 0 \in 0..1 /\ 1 \in 0..1
  OBVIOUS
<1>1. nest \in Nests /\ inner \in Nests
  BY <1>0, NestIs, KindsAre
<1> HIDE DEF inner
<1>2. p \in Spots /\ p.nest = inner /\ p.mode = mode /\ p.byte = 0
  BY <1>1, ModesAre, SpotIs
<1>3. q \in Spots /\ q.nest = nest /\ q.mode = "any" /\ q.byte = 0 /\ q = Spot(nest, "any", 0)
  BY <1>1, ModesAre, SpotIs
<1>4. Items(0, shape) \in Entries
  BY CallsAre, KindsAre
<1> HIDE DEF p, q
<1>5. Act(Items(0, shape), p, q)
  BY <1>0, <1>1, <1>4, <1>2, <1>3, KindsAre, ModesAre, Zenon DEF Act, inner
<1>6. Turns(Items(0, shape), p, q)
  BY <1>2, <1>3, <1>4, <1>5 DEF Turns
<1> QED
  BY <1>6 DEF p, q, inner

-----------------------------------------------------------------------------
(* What the calls of the parse functions promise *)

\* As a decision after which its caller is right after a token, or is told otherwise.
Answers(calls, mode) ==
  \A nest \in Nests, end \in Ends : Runs(calls, Spot(nest, mode, 0), Spot(nest, end, 0))

\* As the value of a statement.
Settles(calls, byte) == \A nest \in Nests : Runs(calls, Spot(nest, "any", byte), Spot(nest, "settled", 0))

\* As the items of a block, or of the file.
Around(nest, opened) == Append(nest, IF opened = 0 THEN Node("File", 0, 0) ELSE Node("Block", opened, 1))
After(nest, opened) == Spot(nest, IF opened = 0 THEN "any" ELSE "settled", 0)
Completes(calls, mode, opened) ==
  \A nest \in Nests : Runs(calls, Spot(Around(nest, opened), mode, 0), After(nest, opened))

LEMMA AroundIs ==
  ASSUME NEW nest \in Nests, NEW opened \in Nat
  PROVE  Around(nest, opened) \in Nests /\ After(nest, opened) \in Spots
<1>1. 0 \in Nat /\ 0 \in 0..1 /\ 1 \in 0..1
  OBVIOUS
<1>2. After(nest, opened) \in Spots
  BY ModesAre, SpotIs DEF After
<1>3. Around(nest, opened) \in Nests
  BY <1>1, KindsAre, NestIs DEF Around
<1> QED
  BY <1>2, <1>3

LEMMA HoldsItemsOf ==
  ASSUME NEW nest \in Nests, NEW opened \in Nat, NEW shape \in Shapes, NEW mode \in {"bare", "ready"}
  PROVE  Turns(Items(opened, shape), Spot(Around(nest, opened), mode, 0), After(nest, opened))
<1>1. CASE opened = 0
  BY <1>1, ItemsOfFile DEF Around, After
<1>2. CASE opened # 0
  BY <1>2, ItemsOfBlock DEF Around, After
<1> QED
  BY <1>1, <1>2

\* The calls of parse_value and the functions it calls.
LEMMA EndersAre ==
  /\ \A call \in PlainDecisions : call # <<"value">> /\ call # <<"annotated">> => call \in TokenEnders
  /\ \A call \in NamedDecisions : call \in TokenEnders
  /\ \A call \in TokenEnders : call \in Decisions
  /\ <<"annotation">> \in TokenEnders /\ <<"annotation argument">> \in TokenEnders /\ <<"strings">> \in TokenEnders
  /\ <<"type argument">> \in TokenEnders /\ <<"after type">> \in TokenEnders
  /\ <<"call argument">> \in TokenEnders /\ <<"after argument">> \in TokenEnders
  /\ <<"named value">> \in TokenEnders /\ <<"named type">> \in TokenEnders /\ <<"named argument">> \in TokenEnders
<1>a. ASSUME NEW m, NEW n, <<m>> = <<n>>  PROVE m = n
  <2>1. <<m>>[1] = m /\ <<n>>[1] = n
    OBVIOUS
  <2> QED
    BY <1>a, <2>1
<1> DEFINE names == {"annotation", "annotation argument", "strings", "type argument", "after type", "call argument",
                     "after argument", "named value", "named type", "named argument"}
<1>1. ASSUME NEW name \in names  PROVE <<name>> \in TokenEnders
  <2>1. <<name>> \in Decisions
    BY Zenon DEF Decisions, NamedDecisions
  <2>2. name # "value" /\ name # "annotated" /\ name # "scalar"
    OBVIOUS
  <2> HIDE DEF names
  <2>3. <<name>> # <<"value">> /\ <<name>> # <<"annotated">> /\ <<name>> # <<"scalar">>
    BY <1>a, <2>2
  <2> QED
    BY <2>1, <2>3 DEF TokenEnders
<1>2. \A call \in NamedDecisions : \E name \in names : call = <<name>>
  BY Zenon DEF NamedDecisions
<1>3. \A call \in PlainDecisions : call # <<"value">> /\ call # <<"annotated">> => call \in TokenEnders
  BY Names DEF TokenEnders
<1>4. \A call \in TokenEnders : call \in Decisions
  BY DEF TokenEnders
<1>5. \A call \in NamedDecisions : call \in TokenEnders
  BY <1>1, <1>2
<1>6. /\ "annotation" \in names /\ "annotation argument" \in names /\ "strings" \in names
      /\ "type argument" \in names /\ "after type" \in names
      /\ "call argument" \in names /\ "after argument" \in names
      /\ "named value" \in names /\ "named type" \in names /\ "named argument" \in names
  OBVIOUS
<1> HIDE DEF names
<1> QED
  BY <1>1, <1>3, <1>4, <1>5, <1>6

LEMMA SettlesValue ==
  Settles(<<Flush, Start("Value"), <<"annotated">>, Finish>>, 0)
<1> SUFFICES ASSUME NEW nest \in Nests
             PROVE  Runs(<<Flush, Start("Value"), <<"annotated">>, Finish>>, Spot(nest, "any", 0), Spot(nest, "settled", 0))
  BY DEF Settles
<1> DEFINE inner == Append(nest, Node("Value", 0, 0))
<1>0. inner \in Nests
  <2>1. 0 \in Nat /\ 0 \in 0..1 /\ 1 \in 0..1
    OBVIOUS
  <2>2. inner \in Nests
    BY <2>1, NestIs, KindsAre
  <2> HIDE DEF inner
  <2> QED
    BY <2>2
<1>1. Turns(Flush, Spot(nest, "any", 0), Spot(nest, "flushed", 0))
  BY <1>0, ModesAre, KindsAre, Names, Flushes
<1>2. Turns(Start("Value"), Spot(nest, "flushed", 0), Spot(inner, "any", 0))
  BY <1>0, ModesAre, KindsAre, Names, Starting
<1>3. Turns(<<"annotated">>, Spot(inner, "any", 0), Spot(inner, "settled", 0))
  BY <1>0, ModesAre, KindsAre, Names, AsksValue
<1>4. Turns(Finish, Spot(inner, "settled", 0), Spot(nest, "settled", 0))
  <2>1. "Value" \in NodeKinds \ {"Statement"} /\ 0 \in Nat /\ 0 \in 0..1
    BY KindsAre
  <2> QED
    BY <1>0, <2>1, ModesAre, FinishesSettled
<1> QED
  BY <1>1, <1>2, <1>3, <1>4, RunsFour

LEMMA SettlesAnnotation ==
  Settles(<<Flush, Start("Annotation"), Token, <<"annotation">>, Finish, <<"annotated">>>>, 0)
<1> SUFFICES ASSUME NEW nest \in Nests
             PROVE  Runs(<<Flush, Start("Annotation"), Token, <<"annotation">>, Finish, <<"annotated">>>>, Spot(nest, "any", 0), Spot(nest, "settled", 0))
  BY DEF Settles
<1> DEFINE inner == Append(nest, Node("Annotation", 0, 0))
<1>0. inner \in Nests
  <2>1. 0 \in Nat /\ 0 \in 0..1 /\ 1 \in 0..1
    OBVIOUS
  <2>2. inner \in Nests
    BY <2>1, NestIs, KindsAre
  <2> HIDE DEF inner
  <2> QED
    BY <2>2
<1>1. Turns(Flush, Spot(nest, "any", 0), Spot(nest, "flushed", 0))
  BY <1>0, ModesAre, KindsAre, Names, Flushes
<1>2. Turns(Start("Annotation"), Spot(nest, "flushed", 0), Spot(inner, "any", 0))
  BY <1>0, ModesAre, KindsAre, Names, Starting
<1>3. Turns(Token, Spot(inner, "any", 0), Spot(inner, "bare", 0))
  BY <1>0, ModesAre, KindsAre, Names, TakesToken
<1>4. Turns(<<"annotation">>, Spot(inner, "bare", 0), Spot(inner, "bare", 0))
  BY <1>0, ModesAre, KindsAre, Names, EndersAre, EndsToken
<1>5. Turns(Finish, Spot(inner, "bare", 0), Spot(nest, "bare", 0))
  <2>1. "Annotation" \in NodeKinds \ {"Statement"} /\ 0 \in Nat /\ 0 \in 0..1
    BY KindsAre
  <2> QED
    BY <1>0, <2>1, ModesAre, FinishesBare
<1>6. Turns(<<"annotated">>, Spot(nest, "bare", 0), Spot(nest, "settled", 0))
  BY <1>0, ModesAre, KindsAre, Names, AsksValue
<1> QED
  BY <1>1, <1>2, <1>3, <1>4, <1>5, <1>6, RunsSix

LEMMA SettlesBlock ==
  ASSUME NEW opened \in Nat \ {0}, NEW shape \in Shapes
  PROVE  Settles(<<Flush, Start("Block"), Token, Items(opened, shape)>>, opened)
<1> SUFFICES ASSUME NEW nest \in Nests
             PROVE  Runs(<<Flush, Start("Block"), Token, Items(opened, shape)>>, Spot(nest, "any", opened), Spot(nest, "settled", 0))
  BY DEF Settles
<1>1. Turns(Flush, Spot(nest, "any", opened), Spot(nest, "flushed", opened))
  BY ModesAre, KindsAre, Names, Flushes
<1>2. Turns(Start("Block"), Spot(nest, "flushed", opened), Spot(Append(nest, Node("Block", opened, 0)), "any", 0))
  BY ModesAre, KindsAre, Names, StartsBlock
<1>3. Turns(Token, Spot(Append(nest, Node("Block", opened, 0)), "any", 0), Spot(Append(nest, Node("Block", opened, 1)), "bare", 0))
  BY ModesAre, KindsAre, Names, HoldsToken
<1>4. Turns(Items(opened, shape), Spot(Append(nest, Node("Block", opened, 1)), "bare", 0), Spot(nest, "settled", 0))
  BY ModesAre, KindsAre, Names, ItemsOfBlock
<1> QED
  BY <1>1, <1>2, <1>3, <1>4, RunsFour

LEMMA AnswersToken ==
  Answers(<<Token>>, "any")
<1> SUFFICES ASSUME NEW nest \in Nests, NEW end \in Ends
             PROVE  Runs(<<Token>>, Spot(nest, "any", 0), Spot(nest, end, 0))
  BY DEF Answers
<1>1. Turns(Token, Spot(nest, "any", 0), Spot(nest, end, 0))
  BY ModesAre, KindsAre, Names, TakesToken
<1> QED
  BY <1>1, RunsOnce

LEMMA AnswersMore ==
  ASSUME NEW call \in TokenEnders
  PROVE  Answers(<<Token, call>>, "any")
<1> SUFFICES ASSUME NEW nest \in Nests, NEW end \in Ends
             PROVE  Runs(<<Token, call>>, Spot(nest, "any", 0), Spot(nest, end, 0))
  BY DEF Answers
<1>1. Turns(Token, Spot(nest, "any", 0), Spot(nest, "bare", 0))
  BY ModesAre, KindsAre, Names, TakesToken
<1>2. Turns(call, Spot(nest, "bare", 0), Spot(nest, end, 0))
  BY ModesAre, KindsAre, Names, EndsToken
<1> QED
  BY <1>1, <1>2, RunsTwo

LEMMA AnswersScalar ==
  Answers(<<<<"scalar">>>>, "any")
<1> SUFFICES ASSUME NEW nest \in Nests, NEW end \in Ends
             PROVE  Runs(<<<<"scalar">>>>, Spot(nest, "any", 0), Spot(nest, end, 0))
  BY DEF Answers
<1>1. Turns(<<"scalar">>, Spot(nest, "any", 0), Spot(nest, end, 0))
  BY ModesAre, KindsAre, Names, EndsScalar
<1> QED
  BY <1>1, RunsOnce

LEMMA AnswersScalarThen ==
  ASSUME NEW after \in TokenEnders
  PROVE  Answers(<<<<"scalar">>, after>>, "any")
<1> SUFFICES ASSUME NEW nest \in Nests, NEW end \in Ends
             PROVE  Runs(<<<<"scalar">>, after>>, Spot(nest, "any", 0), Spot(nest, end, 0))
  BY DEF Answers
<1>1. Turns(<<"scalar">>, Spot(nest, "any", 0), Spot(nest, "bare", 0))
  BY ModesAre, KindsAre, Names, EndsScalar
<1>2. Turns(after, Spot(nest, "bare", 0), Spot(nest, end, 0))
  BY ModesAre, KindsAre, Names, EndsToken
<1> QED
  BY <1>1, <1>2, RunsTwo

LEMMA AnswersName ==
  ASSUME NEW call \in TokenEnders
  PROVE  Answers(<<Flush, Token, call>>, "any")
<1> SUFFICES ASSUME NEW nest \in Nests, NEW end \in Ends
             PROVE  Runs(<<Flush, Token, call>>, Spot(nest, "any", 0), Spot(nest, end, 0))
  BY DEF Answers
<1>1. Turns(Flush, Spot(nest, "any", 0), Spot(nest, "flushed", 0))
  BY ModesAre, KindsAre, Names, Flushes
<1>2. Turns(Token, Spot(nest, "flushed", 0), Spot(nest, "bare", 0))
  BY ModesAre, KindsAre, Names, TakesToken
<1>3. Turns(call, Spot(nest, "bare", 0), Spot(nest, end, 0))
  BY ModesAre, KindsAre, Names, EndsToken
<1> QED
  BY <1>1, <1>2, <1>3, RunsThree

LEMMA AnswersNameThen ==
  ASSUME NEW call \in TokenEnders, NEW after \in TokenEnders
  PROVE  Answers(<<Flush, Token, call, after>>, "any")
<1> SUFFICES ASSUME NEW nest \in Nests, NEW end \in Ends
             PROVE  Runs(<<Flush, Token, call, after>>, Spot(nest, "any", 0), Spot(nest, end, 0))
  BY DEF Answers
<1>1. Turns(Flush, Spot(nest, "any", 0), Spot(nest, "flushed", 0))
  BY ModesAre, KindsAre, Names, Flushes
<1>2. Turns(Token, Spot(nest, "flushed", 0), Spot(nest, "bare", 0))
  BY ModesAre, KindsAre, Names, TakesToken
<1>3. Turns(call, Spot(nest, "bare", 0), Spot(nest, "bare", 0))
  BY ModesAre, KindsAre, Names, EndsToken
<1>4. Turns(after, Spot(nest, "bare", 0), Spot(nest, end, 0))
  BY ModesAre, KindsAre, Names, EndsToken
<1> QED
  BY <1>1, <1>2, <1>3, <1>4, RunsFour

LEMMA AnswersBrackets ==
  ASSUME NEW kind \in PlainKinds, NEW call \in TokenEnders
  PROVE  Answers(<<Wrap(kind), Token, call, Finish>>, "bare")
<1> SUFFICES ASSUME NEW nest \in Nests, NEW end \in Ends
             PROVE  Runs(<<Wrap(kind), Token, call, Finish>>, Spot(nest, "bare", 0), Spot(nest, end, 0))
  BY DEF Answers
<1> DEFINE inner == Append(nest, Node(kind, 0, 0))
<1>0. inner \in Nests
  <2>1. 0 \in Nat /\ 0 \in 0..1 /\ 1 \in 0..1
    OBVIOUS
  <2>2. inner \in Nests
    BY <2>1, NestIs, KindsAre
  <2> HIDE DEF inner
  <2> QED
    BY <2>2
<1>1. Turns(Wrap(kind), Spot(nest, "bare", 0), Spot(inner, "any", 0))
  BY <1>0, ModesAre, KindsAre, Names, Wrapping
<1>2. Turns(Token, Spot(inner, "any", 0), Spot(inner, "bare", 0))
  BY <1>0, ModesAre, KindsAre, Names, TakesToken
<1>3. Turns(call, Spot(inner, "bare", 0), Spot(inner, "bare", 0))
  BY <1>0, ModesAre, KindsAre, Names, EndsToken
<1>4. Turns(Finish, Spot(inner, "bare", 0), Spot(nest, end, 0))
  <2>1. kind \in NodeKinds \ {"Statement"} /\ 0 \in Nat /\ 0 \in 0..1
    BY KindsAre
  <2> QED
    BY <1>0, <2>1, ModesAre, FinishesBare
<1> QED
  BY <1>1, <1>2, <1>3, <1>4, RunsFour

LEMMA AnswersWrapped ==
  Answers(<<Wrap("Scalar"), Finish>>, "bare")
<1> SUFFICES ASSUME NEW nest \in Nests, NEW end \in Ends
             PROVE  Runs(<<Wrap("Scalar"), Finish>>, Spot(nest, "bare", 0), Spot(nest, end, 0))
  BY DEF Answers
<1> DEFINE inner == Append(nest, Node("Scalar", 0, 0))
<1>0. inner \in Nests
  <2>1. 0 \in Nat /\ 0 \in 0..1 /\ 1 \in 0..1
    OBVIOUS
  <2>2. inner \in Nests
    BY <2>1, NestIs, KindsAre
  <2> HIDE DEF inner
  <2> QED
    BY <2>2
<1>1. Turns(Wrap("Scalar"), Spot(nest, "bare", 0), Spot(inner, "bare", 0))
  BY <1>0, ModesAre, KindsAre, Names, Wrapping
<1>2. Turns(Finish, Spot(inner, "bare", 0), Spot(nest, end, 0))
  <2>1. "Scalar" \in NodeKinds \ {"Statement"} /\ 0 \in Nat /\ 0 \in 0..1
    BY KindsAre
  <2> QED
    BY <1>0, <2>1, ModesAre, FinishesBare
<1> QED
  BY <1>1, <1>2, RunsTwo

LEMMA AnswersError ==
  Answers(<<Start("Error"), Token, Finish>>, "any")
<1> SUFFICES ASSUME NEW nest \in Nests, NEW end \in Ends
             PROVE  Runs(<<Start("Error"), Token, Finish>>, Spot(nest, "any", 0), Spot(nest, end, 0))
  BY DEF Answers
<1> DEFINE inner == Append(nest, Node("Error", 0, 0))
<1>0. inner \in Nests
  <2>1. 0 \in Nat /\ 0 \in 0..1 /\ 1 \in 0..1
    OBVIOUS
  <2>2. inner \in Nests
    BY <2>1, NestIs, KindsAre
  <2> HIDE DEF inner
  <2> QED
    BY <2>2
<1>1. Turns(Start("Error"), Spot(nest, "any", 0), Spot(inner, "any", 0))
  BY <1>0, ModesAre, KindsAre, Names, Starting
<1>2. Turns(Token, Spot(inner, "any", 0), Spot(inner, "bare", 0))
  BY <1>0, ModesAre, KindsAre, Names, TakesToken
<1>3. Turns(Finish, Spot(inner, "bare", 0), Spot(nest, end, 0))
  <2>1. "Error" \in NodeKinds \ {"Statement"} /\ 0 \in Nat /\ 0 \in 0..1
    BY KindsAre
  <2> QED
    BY <1>0, <2>1, ModesAre, FinishesBare
<1> QED
  BY <1>1, <1>2, <1>3, RunsThree

LEMMA AnswersStray ==
  ASSUME NEW call \in TokenEnders
  PROVE  Answers(ErrorToken \o <<call>>, "any")
<1> SUFFICES ASSUME NEW nest \in Nests, NEW end \in Ends
             PROVE  Runs(ErrorToken \o <<call>>, Spot(nest, "any", 0), Spot(nest, end, 0))
  BY DEF Answers
<1>1. Runs(ErrorToken, Spot(nest, "any", 0), Spot(nest, "bare", 0))
  BY ModesAre, AnswersError DEF Answers, ErrorToken
<1>2. Runs(<<call>>, Spot(nest, "bare", 0), Spot(nest, end, 0))
  BY EndsToken, RunsOnce
<1> QED
  BY <1>1, <1>2, RunsOn

LEMMA AnswersLiteral ==
  ASSUME NEW more, more \in {<<>>, << <<"strings">> >>}
  PROVE  Answers(<<Flush, Start("Scalar"), Token>> \o more \o <<Finish>>, "any")
<1> SUFFICES ASSUME NEW nest \in Nests, NEW end \in Ends
             PROVE  Runs(<<Flush, Start("Scalar"), Token>> \o more \o <<Finish>>, Spot(nest, "any", 0), Spot(nest, end, 0))
  BY DEF Answers
<1> DEFINE inner == Append(nest, Node("Scalar", 0, 0))
<1>0. inner \in Nests
  <2>1. 0 \in Nat /\ 0 \in 0..1
    OBVIOUS
  <2> QED
    BY <2>1, NestIs, KindsAre
<1>1. Turns(Flush, Spot(nest, "any", 0), Spot(nest, "flushed", 0))
  BY ModesAre, Flushes
<1>2. Turns(Start("Scalar"), Spot(nest, "flushed", 0), Spot(inner, "any", 0))
  BY ModesAre, KindsAre, Starting
<1>3. Turns(Token, Spot(inner, "any", 0), Spot(inner, "bare", 0))
  BY <1>0, ModesAre, TakesToken
<1>4. Runs(<<Flush, Start("Scalar"), Token>>, Spot(nest, "any", 0), Spot(inner, "bare", 0))
  BY <1>1, <1>2, <1>3, RunsThree
<1>5. Turns(Finish, Spot(inner, "bare", 0), Spot(nest, end, 0))
  <2>1. 0 \in Nat /\ 0 \in 0..1 /\ "Scalar" \in NodeKinds \ {"Statement"}
    BY KindsAre
  <2> QED
    BY <2>1, FinishesBare
<1> HIDE DEF inner
<1>6. Runs(more, Spot(inner, "bare", 0), Spot(inner, "bare", 0))
  <2>1. Runs(<<>>, Spot(inner, "bare", 0), Spot(inner, "bare", 0))
    BY <1>0, ModesAre, SpotIs, RunsNowhere
  <2>2. Runs(<< <<"strings">> >>, Spot(inner, "bare", 0), Spot(inner, "bare", 0))
    BY <1>0, ModesAre, EndersAre, EndsToken, RunsOnce
  <2> QED
    BY <2>1, <2>2
<1>7. Runs(<<Finish>>, Spot(inner, "bare", 0), Spot(nest, end, 0))
  BY <1>5, RunsOnce
<1>8. Runs(<<Flush, Start("Scalar"), Token>> \o more, Spot(nest, "any", 0), Spot(inner, "bare", 0))
  BY <1>4, <1>6, RunsOn
<1> QED
  BY <1>7, <1>8, RunsOn

\* The calls of parse_items and parse_block.
LEMMA CompletesStatement ==
  ASSUME NEW opened \in Nat, NEW shape \in Shapes, NEW mode \in {"bare", "ready"}
  PROVE  Completes(<<Detach, Start("Statement"), Flush, Start("Key"), Token, Finish, Token, <<"value">>, Trail, Finish,
                      Items(opened, shape)>>, mode, opened)
<1> SUFFICES ASSUME NEW nest \in Nests
             PROVE  Runs(<<Detach, Start("Statement"), Flush, Start("Key"), Token, Finish, Token, <<"value">>, Trail, Finish, Items(opened, shape)>>, Spot(Around(nest, opened), mode, 0), After(nest, opened))
  BY DEF Completes
<1> DEFINE inner == Around(nest, opened)
           statement == Append(inner, Node("Statement", 0, 0))
           held == Append(inner, Node("Statement", 0, 1))
           key == Append(statement, Node("Key", 0, 0))
<1>0. inner \in Nests /\ statement \in Nests /\ held \in Nests /\ key \in Nests
  <2>1. 0 \in Nat /\ 0 \in 0..1 /\ 1 \in 0..1
    OBVIOUS
  <2>2. inner \in Nests
    BY <2>1, NestIs, KindsAre, AroundIs
  <2> HIDE DEF inner
  <2>3. statement \in Nests
    BY <2>1, <2>2, NestIs, KindsAre
  <2> HIDE DEF statement
  <2>4. held \in Nests
    BY <2>1, <2>2, <2>3, NestIs, KindsAre
  <2> HIDE DEF held
  <2>5. key \in Nests
    BY <2>1, <2>2, <2>3, <2>4, NestIs, KindsAre
  <2> HIDE DEF key
  <2> QED
    BY <2>2, <2>3, <2>4, <2>5
<1>1. Turns(Detach, Spot(inner, mode, 0), Spot(inner, "detached", 0))
  BY <1>0, ModesAre, KindsAre, Names, Detaches
<1>2. Turns(Start("Statement"), Spot(inner, "detached", 0), Spot(statement, "any", 0))
  BY <1>0, ModesAre, KindsAre, Names, StartsStatement
<1>3. Turns(Flush, Spot(statement, "any", 0), Spot(statement, "flushed", 0))
  BY <1>0, ModesAre, KindsAre, Names, Flushes
<1>4. Turns(Start("Key"), Spot(statement, "flushed", 0), Spot(key, "any", 0))
  BY <1>0, ModesAre, KindsAre, Names, Starting
<1>5. Turns(Token, Spot(key, "any", 0), Spot(key, "bare", 0))
  BY <1>0, ModesAre, KindsAre, Names, TakesToken
<1>6. Turns(Finish, Spot(key, "bare", 0), Spot(statement, "bare", 0))
  <2>1. "Key" \in NodeKinds \ {"Statement"} /\ 0 \in Nat /\ 0 \in 0..1
    BY KindsAre
  <2> QED
    BY <1>0, <2>1, ModesAre, FinishesBare
<1>7. Turns(Token, Spot(statement, "bare", 0), Spot(held, "bare", 0))
  BY <1>0, ModesAre, KindsAre, Names, HoldsToken
<1>8. Turns(<<"value">>, Spot(held, "bare", 0), Spot(held, "settled", 0))
  BY <1>0, ModesAre, KindsAre, Names, AsksValue
<1>9. Turns(Trail, Spot(held, "settled", 0), Spot(held, "trailed", 0))
  BY <1>0, ModesAre, KindsAre, Names, Trails
<1>10. Turns(Finish, Spot(held, "trailed", 0), Spot(inner, "ready", 0))
  BY <1>0, ModesAre, KindsAre, Names, FinishesStatement
<1>11. Turns(Items(opened, shape), Spot(inner, "ready", 0), After(nest, opened))
  BY <1>0, ModesAre, KindsAre, Names, HoldsItemsOf
<1> QED
  BY <1>1, <1>2, <1>3, <1>4, <1>5, <1>6, <1>7, <1>8, <1>9, <1>10, <1>11, RunsEleven

LEMMA CompletesScalar ==
  ASSUME NEW opened \in Nat, NEW shape \in Shapes, NEW mode \in {"bare", "ready"}
  PROVE  Completes(<<Detach, <<"scalar">>, Items(opened, shape)>>, mode, opened)
<1> SUFFICES ASSUME NEW nest \in Nests
             PROVE  Runs(<<Detach, <<"scalar">>, Items(opened, shape)>>, Spot(Around(nest, opened), mode, 0), After(nest, opened))
  BY DEF Completes
<1> DEFINE inner == Around(nest, opened)
<1>0. inner \in Nests
  <2>1. 0 \in Nat /\ 0 \in 0..1 /\ 1 \in 0..1
    OBVIOUS
  <2>2. inner \in Nests
    BY <2>1, NestIs, KindsAre, AroundIs
  <2> HIDE DEF inner
  <2> QED
    BY <2>2
<1>1. Turns(Detach, Spot(inner, mode, 0), Spot(inner, "detached", 0))
  BY <1>0, ModesAre, KindsAre, Names, Detaches
<1>2. Turns(<<"scalar">>, Spot(inner, "detached", 0), Spot(inner, "bare", 0))
  BY <1>0, ModesAre, KindsAre, Names, EndsScalar
<1>3. Turns(Items(opened, shape), Spot(inner, "bare", 0), After(nest, opened))
  BY <1>0, ModesAre, KindsAre, Names, HoldsItemsOf
<1> QED
  BY <1>1, <1>2, <1>3, RunsThree

LEMMA CompletesStray ==
  ASSUME NEW opened \in Nat, NEW shape \in Shapes, NEW mode \in {"bare", "ready"}
  PROVE  Completes(<<Detach>> \o ErrorToken \o <<Items(opened, shape)>>, mode, opened)
<1> SUFFICES ASSUME NEW nest \in Nests
             PROVE  Runs(<<Detach>> \o ErrorToken \o <<Items(opened, shape)>>,
                         Spot(Around(nest, opened), mode, 0), After(nest, opened))
  BY DEF Completes
<1> DEFINE inner == Around(nest, opened)
<1>0. inner \in Nests
  BY AroundIs
<1>1. Turns(Items(opened, shape), Spot(inner, "bare", 0), After(nest, opened))
  BY HoldsItemsOf
<1> HIDE DEF inner
<1>2. Turns(Detach, Spot(inner, mode, 0), Spot(inner, "detached", 0))
  BY <1>0, Detaches
<1>3. Runs(ErrorToken, Spot(inner, "detached", 0), Spot(inner, "bare", 0))
  <2>1. inner \in Nests /\ "detached" \in Modes /\ "bare" \in Ends
    BY <1>0, ModesAre
  <2> DEFINE error == Append(inner, Node("Error", 0, 0))
  <2>2. error \in Nests
    <3>1. 0 \in Nat /\ 0 \in 0..1
      OBVIOUS
    <3> QED
      BY <2>1, <3>1, NestIs, KindsAre
  <2>3. Turns(Start("Error"), Spot(inner, "detached", 0), Spot(error, "any", 0))
    BY <2>1, KindsAre, Starting
  <2>4. Turns(Finish, Spot(error, "bare", 0), Spot(inner, "bare", 0))
    <3>1. 0 \in Nat /\ 0 \in 0..1 /\ "Error" \in NodeKinds \ {"Statement"}
      BY KindsAre
    <3> QED
      BY <2>1, <3>1, FinishesBare
  <2> HIDE DEF error
  <2>5. Turns(Token, Spot(error, "any", 0), Spot(error, "bare", 0))
    BY <2>2, ModesAre, TakesToken
  <2> QED
    BY <2>3, <2>4, <2>5, RunsThree DEF ErrorToken
<1>4. Runs(<<Detach>>, Spot(inner, mode, 0), Spot(inner, "detached", 0))
  BY <1>2, RunsOnce
<1>5. Runs(<<Items(opened, shape)>>, Spot(inner, "bare", 0), After(nest, opened))
  BY <1>1, RunsOnce
<1>6. Runs(<<Detach>> \o ErrorToken, Spot(inner, mode, 0), Spot(inner, "bare", 0))
  BY <1>3, <1>4, RunsOn
<1>7. Runs(<<Detach>> \o ErrorToken \o <<Items(opened, shape)>>, Spot(inner, mode, 0), After(nest, opened))
  BY <1>5, <1>6, RunsOn
<1> QED
  BY <1>7 DEF inner

LEMMA CompletesClosed ==
  ASSUME NEW opened \in Nat \ {0}
  PROVE  Completes(<<Flush, Token, Finish>>, "any", opened)
<1> SUFFICES ASSUME NEW nest \in Nests
             PROVE  Runs(<<Flush, Token, Finish>>, Spot(Append(nest, Node("Block", opened, 1)), "any", 0), Spot(nest, "settled", 0))
  BY DEF Completes, Around, After
<1> DEFINE inner == Append(nest, Node("Block", opened, 1))
<1>0. inner \in Nests
  <2>1. 0 \in Nat /\ 0 \in 0..1 /\ 1 \in 0..1
    OBVIOUS
  <2>2. inner \in Nests
    BY <2>1, NestIs, KindsAre
  <2> HIDE DEF inner
  <2> QED
    BY <2>2
<1>1. Turns(Flush, Spot(inner, "any", 0), Spot(inner, "flushed", 0))
  BY <1>0, ModesAre, KindsAre, Names, Flushes
<1>2. Turns(Token, Spot(inner, "flushed", 0), Spot(inner, "bare", 0))
  BY <1>0, ModesAre, KindsAre, Names, TakesToken
<1>3. Turns(Finish, Spot(inner, "bare", 0), Spot(nest, "settled", 0))
  <2>1. "Block" \in NodeKinds \ {"Statement"} /\ 0 \in Nat /\ 1 \in 0..1
    BY KindsAre
  <2> QED
    BY <1>0, <2>1, ModesAre, FinishesBare
<1> QED
  BY <1>1, <1>2, <1>3, RunsThree

LEMMA CompletesUnclosed ==
  ASSUME NEW opened \in Nat \ {0}
  PROVE  Completes(<<Flush, Finish>>, "unclosed", opened)
<1> SUFFICES ASSUME NEW nest \in Nests
             PROVE  Runs(<<Flush, Finish>>, Spot(Append(nest, Node("Block", opened, 1)), "unclosed", 0), Spot(nest, "settled", 0))
  BY DEF Completes, Around, After
<1> DEFINE inner == Append(nest, Node("Block", opened, 1))
<1>0. inner \in Nests
  <2>1. 0 \in Nat /\ 0 \in 0..1 /\ 1 \in 0..1
    OBVIOUS
  <2>2. inner \in Nests
    BY <2>1, NestIs, KindsAre
  <2> HIDE DEF inner
  <2> QED
    BY <2>2
<1>1. Turns(Flush, Spot(inner, "unclosed", 0), Spot(inner, "unclosed", 0))
  BY <1>0, ModesAre, KindsAre, Names, FlushesUnclosed
<1>2. Turns(Finish, Spot(inner, "unclosed", 0), Spot(nest, "settled", 0))
  BY <1>0, ModesAre, KindsAre, Names, FinishesUnclosed
<1> QED
  BY <1>1, <1>2, RunsTwo

LEMMA CompletesFile ==
  Completes(<<Flush, Finish>>, "any", 0)
<1> SUFFICES ASSUME NEW nest \in Nests
             PROVE  Runs(<<Flush, Finish>>, Spot(Append(nest, Node("File", 0, 0)), "any", 0), Spot(nest, "any", 0))
  BY DEF Completes, Around, After
<1> DEFINE inner == Append(nest, Node("File", 0, 0))
<1>0. inner \in Nests
  <2>1. 0 \in Nat /\ 0 \in 0..1 /\ 1 \in 0..1
    OBVIOUS
  <2>2. inner \in Nests
    BY <2>1, NestIs, KindsAre
  <2> HIDE DEF inner
  <2> QED
    BY <2>2
<1>1. Turns(Flush, Spot(inner, "any", 0), Spot(inner, "flushed", 0))
  BY <1>0, ModesAre, KindsAre, Names, Flushes
<1>2. Turns(Finish, Spot(inner, "flushed", 0), Spot(nest, "any", 0))
  <2>1. "File" \in NodeKinds \ {"Statement"} /\ 0 \in Nat /\ 0 \in 0..1
    BY KindsAre
  <2> QED
    BY <1>0, <2>1, ModesAre, FinishesAny
<1> QED
  BY <1>1, <1>2, RunsTwo

-----------------------------------------------------------------------------
(* What is known of the state at a spot *)

\* Where the i-th leaf starts, or will start.
Byte(i) == IF i = 1 THEN 1 ELSE leaves[i - 1].to

\* A statement starts where its own comments do.
StatementStarts(first) == Parted(TokensIn(leaves, first - 1) + 1, Byte(first))

\* A block that the file ends in, as was reported.
Unclosed(block) ==
  /\ block.kind = "Block" /\ block.first <= block.last
  /\ ReportedAt("BraceUnbalanced", Byte(block.first))

\* And it ends with its line, or as the two recoveries end it.
StatementEnds(first, last) ==
  LET after == TokensIn(leaves, last) + 1
  IN /\ first \in 1..last
     /\ TokensIn(leaves, first - 1) + 1 < after /\ after \in 1..Len(tokens)
     /\ \/ ReportedAt("ValueMissing", Gap(after))
        \/ \E block \in nodes : Unclosed(block) /\ first <= block.first /\ block.last <= last
        \/ Byte(last + 1) = LineEnd(after)

\* How a value leaves the cursor.
Settled ==
  \/ cursor = 0
  \/ ReportedAt("ValueMissing", Gap(next))
  \/ /\ next = Len(tokens)
     /\ \E block \in nodes : Unclosed(block) /\ \A k \in 1..Len(open) : open[k].first <= block.first

\* An element of a nest describes an open node.
Stands(element, node) ==
  /\ node.kind = element.kind
  /\ element.at # 0 => Byte(node.first) = element.at
  /\ element.held = 1 => TokensIn(leaves, node.first - 1) < next - 1

Nesting(nest) == Len(open) = Len(nest) /\ \A k \in 1..Len(open) : Stands(nest[k], open[k])

\* What a mode says of the cursor.
Known(mode) ==
  /\ mode = "flushed" => Here = TriviaEnd
  /\ mode = "detached" => Parted(next, Here)
  /\ mode = "bare" => cursor = 0
  /\ mode = "settled" => Settled
  /\ mode = "trailed" => AtLine /\ StatementEnds(open[Len(open)].first, Len(leaves))
  /\ mode = "ready" => AtLine
  /\ mode = "unclosed" => /\ next = Len(tokens) /\ open # <<>>
                          /\ ReportedAt("BraceUnbalanced", Byte(open[Len(open)].first))

StandsAt(p) == Nesting(p.nest) /\ (p.byte # 0 => TriviaEnd = p.byte) /\ Known(p.mode)

\* Leaves are not empty, and a comment is on one line.
LeavesRead ==
  \A i \in 1..Len(leaves) :
    /\ leaves[i].from < leaves[i].to
    /\ leaves[i].kind = "Comment" => CommentSpan(leaves[i].from, leaves[i].to)

\* The cursor is not inside a comment.
CursorBetween == Here = Gap(next) \/ Here = TriviaEnd \/ source[Here - 1] = "lf"

\* What is built so far keeps the policy; of an open statement, the start does.
StatementsKeep ==
  /\ \A n \in nodes : n.kind = "Statement" => StatementStarts(n.first) /\ StatementEnds(n.first, n.last)
  /\ \A k \in 1..Len(open) : open[k].kind = "Statement" => StatementStarts(open[k].first)

Drawn == LeavesRead /\ CursorBetween /\ StatementsKeep

\* The calls left to make can each be given where it finds the parser, from here on.
Promised == \E p \in Spots, q \in Spots : Runs(script, p, q) /\ StandsAt(p)

Policy == Drawn /\ Promised

-----------------------------------------------------------------------------
(* What a step that only adds leaves, nodes and reports keeps *)

Grows ==
  /\ UNCHANGED lexing
  /\ Len(leaves) <= Len(leaves') /\ \A i \in 1..Len(leaves) : leaves'[i] = leaves[i]
  /\ nodes \subseteq nodes' /\ said \subseteq said'

LEMMA ReportsStay ==
  ASSUME Grows, NEW code, NEW at, ReportedAt(code, at)
  PROVE  ReportedAt(code, at)'
BY DEF Grows, ReportedAt

LEMMA GapsStay ==
  ASSUME Grows, NEW i
  PROVE  Gap(i)' = Gap(i) /\ LineEnd(i)' = LineEnd(i)
<1>1. tokens' = tokens /\ source' = source
  BY DEF Grows, lexing
<1> QED
  BY <1>1 DEF Gap, LineEnd, LineFeeds

LEMMA PartedStays ==
  ASSUME Grows, NEW i, NEW byte, Parted(i, byte)
  PROVE  Parted(i, byte)'
<1>1. tokens' = tokens /\ source' = source
  BY DEF Grows, lexing
<1>2. Gap(i)' = Gap(i) /\ (ReportedAt("ValueMissing", Gap(i)) => ReportedAt("ValueMissing", Gap(i))')
  BY GapsStay DEF Grows, ReportedAt
<1>3. \A from, to : LineFeeds(from, to)' = LineFeeds(from, to)
  BY <1>1 DEF LineFeeds
<1>4. \A from, to : (CommentSpan(from, to)' <=> CommentSpan(from, to)) /\ (Blank(from, to)' <=> Blank(from, to))
  BY <1>1, <1>3 DEF CommentSpan, Blank
<1> SUFFICES ASSUME NEW from \in Nat, NEW to \in Nat,
                    i < Len(tokens), Gap(i) <= from, from < to, to <= tokens[i].from,
                    CommentSpan(from, to), Gap(i) = 1 \/ LineFeeds(Gap(i), from) # {},
                    ~ReportedAt("ValueMissing", Gap(i))
             PROVE  byte <= from <=> ~Blank(to, tokens[i].from)
  BY <1>1, <1>2, <1>3, <1>4 DEF Parted
<1> QED
  BY DEF Parted

LEMMA BytesStay ==
  ASSUME Whole, Grows, NEW i \in 1..(Len(leaves) + 1)
  PROVE  Byte(i)' = Byte(i)
<1>1. i # 1 => i - 1 \in 1..Len(leaves)
  BY WholeIs
<1> QED
  BY <1>1 DEF Byte, Grows

LEMMA TokensStay ==
  ASSUME Whole, Grows, NEW i \in 0..Len(leaves)
  PROVE  TokensIn(leaves', i) = TokensIn(leaves, i) /\ TokensIn(leaves, i)' = TokensIn(leaves, i)
<1>1. \A j \in 1..i : leaves'[j] = leaves[j]
  BY WholeIs DEF Grows
<1>2. {j \in 1..i : ~IsTrivia(leaves'[j])} = {j \in 1..i : ~IsTrivia(leaves[j])}
  BY <1>1
<1> QED
  BY <1>2 DEF TokensIn, IsTrivia

LEMMA StartStays ==
  ASSUME Whole, Grows, NEW first \in 1..(Len(leaves) + 1), StatementStarts(first)
  PROVE  StatementStarts(first)'
<1>1. PICK i : i = TokensIn(leaves, first - 1) + 1
  OBVIOUS
<1>2. PICK byte : byte = Byte(first)
  OBVIOUS
<1>3. first - 1 \in 0..Len(leaves)
  BY WholeIs
<1>4. Byte(first)' = byte /\ TokensIn(leaves', first - 1) + 1 = i
  BY <1>1, <1>2, <1>3, BytesStay, TokensStay
<1>5. Parted(i, byte)'
  BY <1>1, <1>2, PartedStays DEF StatementStarts
<1> QED
  BY <1>4, <1>5 DEF StatementStarts, Parted, TokensIn, IsTrivia, Byte

LEMMA TokensGrow ==
  ASSUME NEW ls, NEW i \in Nat, NEW j \in Nat, i <= j
  PROVE  TokensIn(ls, i) \in Nat /\ TokensIn(ls, j) \in Nat /\ TokensIn(ls, i) <= TokensIn(ls, j)
<1> DEFINE A == {k \in 1..i : ~IsTrivia(ls[k])}
           B == {k \in 1..j : ~IsTrivia(ls[k])}
<1>1. IsFiniteSet(1..j)
  BY FS_Interval
<1>2. A \subseteq B /\ B \subseteq 1..j
  OBVIOUS
<1>3. TokensIn(ls, i) = Cardinality(A) /\ TokensIn(ls, j) = Cardinality(B)
  BY DEF TokensIn
<1> HIDE DEF A, B
<1>4. IsFiniteSet(B)
  BY <1>1, <1>2, FS_Subset
<1>5. IsFiniteSet(A) /\ Cardinality(A) <= Cardinality(B)
  BY <1>2, <1>4, FS_Subset
<1>6. Cardinality(A) \in Nat /\ Cardinality(B) \in Nat
  BY <1>4, <1>5, FS_CardinalityType
<1> QED
  BY <1>3, <1>5, <1>6

LEMMA AllTaken ==
  ASSUME Whole
  PROVE  TokensIn(leaves, Len(leaves)) = next - 1 /\ Byte(Len(leaves) + 1) = Here
<1>1. Covers(leaves, next, Here) /\ Len(leaves) \in Nat
  BY WholeIs DEF LeavesReach
<1>2. (Len(leaves) + 1 = 1 <=> Len(leaves) = 0) /\ (Len(leaves) + 1) - 1 = Len(leaves)
  BY <1>1
<1> QED
  BY <1>1, <1>2 DEF Covers, Byte

LEMMA UnclosedStays ==
  ASSUME Whole, Grows, NEW block, Unclosed(block),
         block.first \in 1..(Len(leaves) + 1) \/ leaves' = leaves
  PROVE  Unclosed(block)'
<1>1. Byte(block.first)' = Byte(block.first)
  <2>1. CASE leaves' = leaves
    BY <2>1 DEF Byte
  <2>2. CASE block.first \in 1..(Len(leaves) + 1)
    BY <2>2, BytesStay
  <2> QED
    BY <2>1, <2>2
<1>2. ReportedAt("BraceUnbalanced", Byte(block.first))'
  <2>1. PICK at : at = Byte(block.first)
    OBVIOUS
  <2>2. ReportedAt("BraceUnbalanced", at)'
    BY <2>1, ReportsStay DEF Unclosed
  <2> QED
    BY <1>1, <2>1, <2>2 DEF ReportedAt, Byte
<1> QED
  BY <1>2 DEF Unclosed

LEMMA EndStays ==
  ASSUME Whole, Grows, NEW first \in Nat, NEW last \in 0..Len(leaves), StatementEnds(first, last)
  PROVE  StatementEnds(first, last)'
<1>1. PICK after : after = TokensIn(leaves, last) + 1
  OBVIOUS
<1>2. PICK before : before = TokensIn(leaves, first - 1) + 1
  OBVIOUS
<1>3. /\ first \in 1..last /\ before < after /\ after \in 1..Len(tokens)
      /\ \/ ReportedAt("ValueMissing", Gap(after))
         \/ \E block \in nodes : Unclosed(block) /\ first <= block.first /\ block.last <= last
         \/ Byte(last + 1) = LineEnd(after)
  BY <1>1, <1>2 DEF StatementEnds
<1>4. /\ last \in Nat /\ last + 1 \in 1..(Len(leaves) + 1) /\ first - 1 \in 0..Len(leaves)
      /\ Len(leaves) \in Nat
  BY <1>3, WholeIs
<1>5. TokensIn(leaves', last) + 1 = after /\ TokensIn(leaves', first - 1) + 1 = before
  BY <1>1, <1>2, <1>4, TokensStay
<1>6. tokens' = tokens
  BY DEF Grows, lexing
<1>7. Gap(after)' = Gap(after) /\ LineEnd(after)' = LineEnd(after)
  BY GapsStay
<1>8. Byte(last + 1)' = Byte(last + 1)
  BY <1>4, BytesStay
<1>9. ASSUME ReportedAt("ValueMissing", Gap(after))
      PROVE  ReportedAt("ValueMissing", Gap(after))'
  BY <1>7, <1>9 DEF ReportedAt, Grows
<1>10. ASSUME NEW block \in nodes, Unclosed(block), first <= block.first, block.last <= last
       PROVE  block \in nodes' /\ Unclosed(block)'
  <2>1. block \in nodes'
    BY DEF Grows
  <2>2. block.first \in Nat /\ block.last \in Nat
    BY <1>10, WholeIs DEF Nested
  <2>4. block.first <= block.last
    BY <1>10 DEF Unclosed
  <2>3. block.first \in 1..(Len(leaves) + 1)
    BY <1>3, <1>4, <1>10, <2>2, <2>4
  <2> QED
    BY <1>10, <2>1, <2>3, UnclosedStays
<1>11. \/ ReportedAt("ValueMissing", Gap(after))'
       \/ \E block \in nodes' : Unclosed(block)' /\ first <= block.first /\ block.last <= last
       \/ Byte(last + 1)' = LineEnd(after)'
  BY <1>3, <1>7, <1>8, <1>9, <1>10
<1> QED
  BY <1>3, <1>5, <1>6, <1>11
     DEF StatementEnds, TokensIn, IsTrivia, ReportedAt, Unclosed, Byte, LineEnd, Gap, LineFeeds

LEMMA StandsStays ==
  ASSUME Whole, Grows, NEW element, NEW node, node.first \in 1..(Len(leaves) + 1), Stands(element, node),
         next' \in Nat, next <= next'
  PROVE  Stands(element, node)'
<1>1. node.first - 1 \in 0..Len(leaves)
  BY WholeIs
<1>2. Byte(node.first)' = Byte(node.first)
  BY BytesStay
<1>3. TokensIn(leaves', node.first - 1) = TokensIn(leaves, node.first - 1)
  BY <1>1, TokensStay
<1>4. TokensIn(leaves, node.first - 1) \in Nat
  <2>1. node.first - 1 \in Nat
    BY <1>1
  <2> QED
    BY <2>1, TokensGrow
<1>5. element.held = 1 => TokensIn(leaves', node.first - 1) < next' - 1
  BY <1>3, <1>4, WholeIs DEF Stands
<1> QED
  BY <1>2, <1>5 DEF Stands, TokensIn, IsTrivia, Byte

LEMMA KeepStays ==
  ASSUME Whole, Grows, StatementsKeep, open' = open, nodes' = nodes
  PROVE  StatementsKeep'
<1>1. ASSUME NEW n \in nodes, n.kind = "Statement"
      PROVE  StatementStarts(n.first)' /\ StatementEnds(n.first, n.last)'
  <2>1. StatementStarts(n.first) /\ StatementEnds(n.first, n.last)
    BY <1>1 DEF StatementsKeep
  <2>2. n.first \in Nat /\ n.last \in Nat /\ n.last <= Len(leaves) /\ Len(leaves) \in Nat
    BY WholeIs DEF Nested
  <2>3. n.first \in 1..n.last
    BY <2>1 DEF StatementEnds
  <2>4. n.first \in 1..(Len(leaves) + 1) /\ n.last \in 0..Len(leaves)
    BY <2>2, <2>3
  <2>5. PICK first, last : first = n.first /\ last = n.last
    OBVIOUS
  <2>6. StatementStarts(first)' /\ StatementEnds(first, last)'
    BY <2>1, <2>2, <2>4, <2>5, StartStays, EndStays
  <2> QED
    BY <2>5, <2>6
<1>2. (\A k \in 1..Len(open) : open[k].kind = "Statement" => StatementStarts(open[k].first))'
  <2> SUFFICES ASSUME NEW k \in 1..Len(open'), open'[k].kind = "Statement"
               PROVE  StatementStarts(open[k].first)'
    OBVIOUS
  <2>1. PICK first : first = open[k].first
    OBVIOUS
  <2>2. first \in 1..(Len(leaves) + 1)
    BY <2>1, WholeIs DEF Nested
  <2>3. StatementStarts(first)'
    BY <2>1, <2>2, StartStays DEF StatementsKeep
  <2>4. open'[k].first = first
    BY <2>1
  <2> QED
    BY <2>3, <2>4 DEF StatementStarts, Parted, TokensIn, IsTrivia, Byte
<1>3. (\A n \in nodes : n.kind = "Statement" => StatementStarts(n.first) /\ StatementEnds(n.first, n.last))'
  BY <1>1
<1> QED
  BY <1>2, <1>3 DEF StatementsKeep

-----------------------------------------------------------------------------
(* What a call does, by its name *)

LEMMA ActIs ==
  ASSUME NEW call, NEW p, NEW q, Act(call, p, q)
  PROVE  /\ call[1] = "flush" => /\ call = Flush
                                 /\ \/ q = Spot(p.nest, "flushed", p.byte)
                                    \/ p.mode = "unclosed" /\ q = Spot(p.nest, "unclosed", 0)
         /\ call[1] = "detach" => call = Detach /\ p.mode \in {"bare", "ready"} /\ q = Spot(p.nest, "detached", 0)
         /\ call[1] = "trail" => /\ call = Trail /\ p.mode \in Ends /\ q = Spot(p.nest, "trailed", 0)
                                 /\ \E nest \in Nests : p.nest = Append(nest, Node("Statement", 0, 1))
         /\ call[1] = "token" =>
              /\ q.mode \in Ends /\ q.byte = 0
              /\ \/ q.nest = p.nest
                 \/ \E nest \in Nests, kind \in NodeKinds, at \in Nat :
                      p.nest = Append(nest, Node(kind, at, 0)) /\ q.nest = Append(nest, Node(kind, at, 1))
         /\ call[1] \in {"start", "wrap"} =>
              \/ \E kind \in PlainKinds :
                   /\ call = Start(kind) \/ call = Wrap(kind)
                   /\ q.nest = Append(p.nest, Node(kind, 0, 0)) /\ q.byte = 0
                   /\ q.mode = "any" \/ (q.mode = "bare" /\ p.mode = "bare")
              \/ /\ call = Start("Statement")
                 /\ p.mode = "detached" /\ q = Spot(Append(p.nest, Node("Statement", 0, 0)), "any", 0)
              \/ /\ call = Start("Block")
                 /\ p.mode = "flushed" /\ p.byte # 0 /\ q = Spot(Append(p.nest, Node("Block", p.byte, 0)), "any", 0)
         /\ call[1] = "finish" =>
              /\ q.byte = 0
              /\ \E kind \in NodeKinds, at \in Nat, held \in 0..1 :
                   /\ p.nest = Append(q.nest, Node(kind, at, held))
                   /\ \/ kind = "Statement" /\ p.mode = "trailed" /\ q.mode = "ready"
                      \/ /\ kind # "Statement"
                         /\ \/ p.mode = "bare" /\ q.mode \in Ends
                            \/ p.mode = "settled" /\ q.mode = "settled"
                            \/ kind = "Block" /\ held = 1 /\ p.mode = "unclosed" /\ q.mode = "settled"
                            \/ q.mode = "any"
         /\ call[1] = "items" =>
              \E opened \in Nat, shape \in Shapes :
                /\ call = Items(opened, shape)
                /\ p.mode \in {"bare", "ready"} /\ q.byte = 0
                /\ IF opened = 0 THEN p.nest = Append(q.nest, Node("File", 0, 0)) /\ q.mode = "any"
                   ELSE p.nest = Append(q.nest, Node("Block", opened, 1)) /\ q.mode = "settled"
         /\ call[1] \in DecisionNames =>
              \/ call \in {<<"value">>, <<"annotated">>} /\ q = Spot(p.nest, "settled", 0)
              \/ /\ call \in TokenEnders \cup {<<"scalar">>}
                 /\ call \in TokenEnders => p.mode = "bare"
                 /\ q.nest = p.nest /\ q.mode \in Ends /\ q.byte = 0
<1>0. "flush" \notin DecisionNames /\ "detach" \notin DecisionNames /\ "trail" \notin DecisionNames
      /\ "token" \notin DecisionNames /\ "finish" \notin DecisionNames /\ "start" \notin DecisionNames
      /\ "wrap" \notin DecisionNames /\ "items" \notin DecisionNames
  BY Tags
<1> DEFINE flush == \/ q = Spot(p.nest, "flushed", p.byte)
                    \/ p.mode = "unclosed" /\ q = Spot(p.nest, "unclosed", 0)
           detach == p.mode \in {"bare", "ready"} /\ q = Spot(p.nest, "detached", 0)
           trail == /\ p.mode \in Ends /\ q = Spot(p.nest, "trailed", 0)
                    /\ \E nest \in Nests : p.nest = Append(nest, Node("Statement", 0, 1))
           token == /\ q.mode \in Ends /\ q.byte = 0
                    /\ \/ q.nest = p.nest
                       \/ \E nest \in Nests, kind \in NodeKinds, at \in Nat :
                            p.nest = Append(nest, Node(kind, at, 0)) /\ q.nest = Append(nest, Node(kind, at, 1))
           plain == \E kind \in PlainKinds :
                      /\ call = Start(kind) \/ call = Wrap(kind)
                      /\ q.nest = Append(p.nest, Node(kind, 0, 0)) /\ q.byte = 0
                      /\ q.mode = "any" \/ (q.mode = "bare" /\ p.mode = "bare")
           statement == p.mode = "detached" /\ q = Spot(Append(p.nest, Node("Statement", 0, 0)), "any", 0)
           block == p.mode = "flushed" /\ p.byte # 0 /\ q = Spot(Append(p.nest, Node("Block", p.byte, 0)), "any", 0)
           finish == \E kind \in NodeKinds, at \in Nat, held \in 0..1 :
                       /\ p.nest = Append(q.nest, Node(kind, at, held))
                       /\ \/ kind = "Statement" /\ p.mode = "trailed" /\ q.mode = "ready"
                          \/ /\ kind # "Statement"
                             /\ \/ p.mode = "bare" /\ q.mode \in Ends
                                \/ p.mode = "settled" /\ q.mode = "settled"
                                \/ kind = "Block" /\ held = 1 /\ p.mode = "unclosed" /\ q.mode = "settled"
                                \/ q.mode = "any"
           settles == q = Spot(p.nest, "settled", 0)
           enders == /\ call \in TokenEnders => p.mode = "bare"
                     /\ q.nest = p.nest /\ q.mode \in Ends /\ q.byte = 0
           within(opened) == IF opened = 0 THEN p.nest = Append(q.nest, Node("File", 0, 0)) /\ q.mode = "any"
                             ELSE p.nest = Append(q.nest, Node("Block", opened, 1)) /\ q.mode = "settled"
           items(opened, shape) == p.mode \in {"bare", "ready"} /\ q.byte = 0 /\ within(opened)
<1>1. \/ call = Flush /\ flush
      \/ call = Detach /\ detach
      \/ call = Trail /\ trail
      \/ call = Token /\ token
      \/ plain
      \/ call = Start("Statement") /\ statement
      \/ call = Start("Block") /\ block
      \/ call = Finish /\ q.byte = 0 /\ finish
      \/ call \in {<<"value">>, <<"annotated">>} /\ settles
      \/ call \in TokenEnders \cup {<<"scalar">>} /\ enders
      \/ \E opened \in Nat, shape \in Shapes : call = Items(opened, shape) /\ items(opened, shape)
  BY Zenon DEF Act
<1>2. plain => \E kind \in NodeKinds : call = Start(kind) \/ call = Wrap(kind)
  BY DEF PlainKinds
<1> HIDE DEF flush, detach, trail, token, plain, statement, block, finish, settles, enders, items
<1>3. "Statement" \in NodeKinds /\ "Block" \in NodeKinds
  BY KindsAre
<1>4. TokenEnders \cup {<<"scalar">>} \cup {<<"value">>, <<"annotated">>} \subseteq Decisions
  BY Zenon DEF TokenEnders, Decisions
<1>5. /\ call[1] = "flush" => call = Flush /\ flush
      /\ call[1] = "detach" => call = Detach /\ detach
      /\ call[1] = "trail" => call = Trail /\ trail
      /\ call[1] = "token" => token
      /\ call[1] \in {"start", "wrap"} =>
           plain \/ (call = Start("Statement") /\ statement) \/ (call = Start("Block") /\ block)
      /\ call[1] = "finish" => q.byte = 0 /\ finish
      /\ call[1] = "items" => \E opened \in Nat, shape \in Shapes : call = Items(opened, shape) /\ items(opened, shape)
      /\ call[1] \in DecisionNames =>
           \/ call \in {<<"value">>, <<"annotated">>} /\ settles
           \/ call \in TokenEnders \cup {<<"scalar">>} /\ enders
  <2>1. CASE call = Flush /\ flush
    BY <1>0, <2>1, Tags
  <2>2. CASE call = Detach /\ detach
    BY <1>0, <2>2, Tags
  <2>3. CASE call = Trail /\ trail
    BY <1>0, <2>3, Tags
  <2>4. CASE call = Token /\ token
    BY <1>0, <2>4, Tags
  <2>5. CASE plain
    <3>1. call[1] \in {"start", "wrap"}
      BY <1>2, <2>5, Tags
    <3> QED
      BY <1>0, <2>5, <3>1
  <2>6. CASE call = Start("Statement") /\ statement
    <3>1. call[1] = "start"
      BY <1>3, <2>6, Tags
    <3> QED
      BY <1>0, <2>6, <3>1
  <2>7. CASE call = Start("Block") /\ block
    <3>1. call[1] = "start"
      BY <1>3, <2>7, Tags
    <3> QED
      BY <1>0, <2>7, <3>1
  <2>8. CASE call = Finish /\ q.byte = 0 /\ finish
    BY <1>0, <2>8, Tags
  <2>9. CASE call \in {<<"value">>, <<"annotated">>} /\ settles
    <3>1. call \in Decisions
      BY <1>4, <2>9, Zenon
    <3>2. call[1] \in DecisionNames
      BY <3>1, Tags
    <3> QED
      BY <1>0, <2>9, <3>2
  <2>10. CASE call \in TokenEnders \cup {<<"scalar">>} /\ enders
    <3>1. call \in Decisions
      BY <1>4, <2>10, Zenon
    <3>2. call[1] \in DecisionNames
      BY <3>1, Tags
    <3> QED
      BY <1>0, <2>10, <3>2
  <2>11. CASE \E opened \in Nat, shape \in Shapes : call = Items(opened, shape) /\ items(opened, shape)
    <3>1. call[1] = "items"
      BY <2>11, Tags
    <3> QED
      BY <1>0, <2>11, <3>1
  <2> QED
    BY <1>1, <2>1, <2>2, <2>3, <2>4, <2>5, <2>6, <2>7, <2>8, <2>9, <2>10, <2>11, Zenon
<1> QED
  BY <1>5, Zenon DEF flush, detach, trail, token, plain, statement, block, finish, settles, enders, items

\* Where the parser is.
LEMMA AtCall ==
  ASSUME Promised, script # <<>>
  PROVE  \E p, r, q \in Spots :
           /\ Act(Head(script), p, r) /\ Runs(Tail(script), r, q) /\ StandsAt(p)
<1>1. PICK p \in Spots, q \in Spots : Runs(script, p, q) /\ StandsAt(p)
  BY DEF Promised
<1>2. PICK r \in Spots : Act(Head(script), p, r) /\ Runs(Tail(script), r, q)
  BY <1>1, RunsFirst
<1> QED
  BY <1>1, <1>2

\* Less may be known than is.
LEMMA Forgets ==
  ASSUME NEW nest \in Nests, NEW mode \in Modes, NEW byte \in Nat, StandsAt(Spot(nest, mode, byte))
  PROVE  /\ StandsAt(Spot(nest, "any", 0)) /\ StandsAt(Spot(nest, mode, 0)) /\ StandsAt(Spot(nest, "any", byte))
         /\ Nesting(nest) /\ Known(mode) /\ (byte # 0 => TriviaEnd = byte)
<1>1. /\ Spot(nest, mode, byte).nest = nest /\ Spot(nest, mode, byte).mode = mode /\ Spot(nest, mode, byte).byte = byte
      /\ Spot(nest, "any", 0).nest = nest /\ Spot(nest, "any", 0).mode = "any" /\ Spot(nest, "any", 0).byte = 0
      /\ Spot(nest, mode, 0).nest = nest /\ Spot(nest, mode, 0).mode = mode /\ Spot(nest, mode, 0).byte = 0
      /\ Spot(nest, "any", byte).nest = nest /\ Spot(nest, "any", byte).mode = "any" /\ Spot(nest, "any", byte).byte = byte
  BY DEF Spot
<1>2. Known("any")
  BY DEF Known
<1>3. Nesting(nest) /\ Known(mode) /\ (byte # 0 => TriviaEnd = byte)
  BY <1>1 DEF StandsAt
<1> QED
  BY <1>1, <1>2, <1>3 DEF StandsAt

\* To stand at a spot is to know its parts.
LEMMA StandsThere ==
  ASSUME NEW nest \in Nests, NEW mode \in Modes, NEW byte \in Nat, Nesting(nest), Known(mode), byte # 0 => TriviaEnd = byte
  PROVE  StandsAt(Spot(nest, mode, byte))
BY DEF StandsAt, Spot

LEMMA PromisesOn ==
  ASSUME NEW calls, NEW rest, NEW p, NEW r, NEW q, Runs(calls, p, r), Runs(rest, r, q), script' = calls \o rest,
         StandsAt(p)'
  PROVE  Promised'
<1>1. Runs(calls \o rest, p, q)
  BY RunsOn
<1>2. p \in Spots /\ q \in Spots
  BY <1>1, RunsEnds
<1> QED
  BY <1>1, <1>2 DEF Promised

LEMMA PromisesNext ==
  ASSUME NEW r, NEW q, script # <<>>, Runs(Tail(script), r, q), Calls(<<>>), StandsAt(r)'
  PROVE  Promised'
<1>1. r \in Spots /\ q \in Spots /\ Tail(script) \in Seq(Entries)
  BY RunsEnds
<1>2. script' = Tail(script)
  <2>1. <<>> \o Tail(script) = Tail(script)
    BY <1>1, ConcatEmptySeq
  <2> QED
    BY <2>1 DEF Calls
<1> QED
  BY <1>1, <1>2 DEF Promised

-----------------------------------------------------------------------------
(* A parse function that replaces its call *)

LEMMA SameBytes ==
  ASSUME UNCHANGED lexing, next' = next
  PROVE  /\ tokens' = tokens /\ source' = source /\ trivia' = trivia
         /\ (Gap(next))' = Gap(next) /\ (LineEnd(next))' = LineEnd(next)
         /\ TriviaEnd' = TriviaEnd
<1>1. tokens' = tokens /\ source' = source /\ trivia' = trivia
  BY DEF lexing
<1> QED
  BY <1>1 DEF Gap, LineEnd, LineFeeds, TriviaEnd, Tok

LEMMA NestingStays ==
  ASSUME Whole, Grows, open' = open, next' \in Nat, next <= next', NEW nest \in Nests, Nesting(nest)
  PROVE  Nesting(nest)'
<1>1. ASSUME NEW k \in 1..Len(open)
      PROVE  Stands(nest[k], open[k])'
  <2>1. PICK node : node = open[k]
    OBVIOUS
  <2>2. node.first \in 1..(Len(leaves) + 1)
    BY <2>1, WholeIs DEF Nested
  <2>3. Stands(nest[k], node)
    BY <2>1 DEF Nesting
  <2>4. Stands(nest[k], node)'
    BY <2>2, <2>3, StandsStays
  <2> QED
    BY <2>1, <2>4 DEF Stands, TokensIn, IsTrivia, Byte
<1>2. (\A k \in 1..Len(open) : Stands(nest[k], open[k]))'
  BY <1>1
<1> QED
  BY <1>2 DEF Nesting

LEMMA Unmoves ==
  ASSUME Whole, Drawn, UNCHANGED lexing, next' = next, cursor' = cursor, leaves' = leaves, open' = open,
         nodes' = nodes, said \subseteq said'
  PROVE  /\ Drawn' /\ Grows
         /\ \A nest \in Nests : Nesting(nest) => Nesting(nest)'
         /\ \A mode \in Modes : Known(mode) => Known(mode)'
<1>1. Grows
  BY WholeIs DEF Grows
<1>2. /\ tokens' = tokens /\ source' = source /\ (Gap(next))' = Gap(next) /\ (LineEnd(next))' = LineEnd(next)
      /\ TriviaEnd' = TriviaEnd
  BY SameBytes
<1>3. Here' = Here
  BY WholeKept
<1>4. LeavesRead'
  <2>1. LeavesRead
    BY DEF Drawn
  <2> QED
    BY <1>2, <2>1 DEF LeavesRead, CommentSpan, LineFeeds
<1>5. CursorBetween'
  <2>1. CursorBetween
    BY DEF Drawn
  <2> QED
    BY <1>2, <1>3, <2>1 DEF CursorBetween
<1>6. StatementsKeep'
  BY <1>1, KeepStays DEF Drawn
<1>7. ASSUME NEW nest \in Nests, Nesting(nest)
      PROVE  Nesting(nest)'
  <2>1. next' \in Nat /\ next <= next'
    BY WholeIs
  <2> QED
    BY <1>1, <1>7, <2>1, NestingStays
<1>8. ASSUME Parted(next, Here)  PROVE Parted(next, Here)'
  <2>1. PICK i, byte : i = next /\ byte = Here
    OBVIOUS
  <2>2. Parted(i, byte)'
    BY <1>1, <1>8, <2>1, PartedStays
  <2>3. next' = i /\ Here' = byte
    BY <1>3, <2>1
  <2> QED
    BY <2>2, <2>3 DEF Parted, ReportedAt, Gap
<1>9. ASSUME AtLine  PROVE AtLine'
  BY <1>2, <1>3, <1>9 DEF AtLine, ReportedAt
<1>10. ASSUME Settled  PROVE Settled'
  <2>1. CASE cursor = 0
    BY <2>1 DEF Settled
  <2>2. CASE ReportedAt("ValueMissing", Gap(next))
    <3>1. ReportedAt("ValueMissing", Gap(next))'
      BY <1>2, <2>2 DEF ReportedAt
    <3> QED
      BY <3>1 DEF Settled
  <2>3. CASE /\ next = Len(tokens)
             /\ \E block \in nodes : Unclosed(block) /\ \A k \in 1..Len(open) : open[k].first <= block.first
    <3>1. PICK block \in nodes : Unclosed(block) /\ \A k \in 1..Len(open) : open[k].first <= block.first
      BY <2>3
    <3>2. Unclosed(block)'
      BY <1>1, <3>1, UnclosedStays
    <3> QED
      BY <1>2, <2>3, <3>1, <3>2 DEF Settled
  <2> QED
    BY <1>10, <2>1, <2>2, <2>3 DEF Settled
<1>11. ASSUME StatementEnds(open[Len(open)].first, Len(leaves))
       PROVE  StatementEnds(open[Len(open)].first, Len(leaves))'
  <2>1. PICK first, last : first = open[Len(open)].first /\ last = Len(leaves)
    OBVIOUS
  <2>2. StatementEnds(first, last) /\ last \in 0..Len(leaves) /\ last \in Nat
    BY <1>11, <2>1, WholeIs
  <2>3. first \in Nat
    BY <2>2 DEF StatementEnds
  <2>4. StatementEnds(first, last)'
    BY <1>1, <2>2, <2>3, EndStays
  <2>5. open'[Len(open')].first = first /\ Len(leaves') = last
    BY <2>1
  <2> QED
    BY <2>4, <2>5 DEF StatementEnds, TokensIn, IsTrivia, ReportedAt, Unclosed, Byte, LineEnd, Gap, LineFeeds
<1>12. ASSUME NEW mode \in Modes, Known(mode)
       PROVE  Known(mode)'
  BY <1>2, <1>3, <1>8, <1>9, <1>10, <1>11, <1>12, Zenon DEF Known, ReportedAt, Byte
<1> QED
  BY <1>1, <1>4, <1>5, <1>6, <1>7, <1>12 DEF Drawn

LEMMA DecisionAt ==
  ASSUME Promised, NEW name \in DecisionNames, script # <<>>, Head(script) = <<name>>
  PROVE  \E nest \in Nests, end \in Ends, q \in Spots :
           /\ Runs(Tail(script), Spot(nest, end, 0), q)
           /\ Nesting(nest)
           /\ name \in {"value", "annotated"} => end = "settled"
           /\ name \notin {"value", "annotated", "scalar"} => Known("bare")
<1>1. PICK p, r, q \in Spots : Act(Head(script), p, r) /\ Runs(Tail(script), r, q) /\ StandsAt(p)
  BY AtCall
<1>2. Head(script)[1] = name /\ \A other : Head(script) = <<other>> => name = other
  <2>1. \A other : <<other>>[1] = other
    OBVIOUS
  <2> QED
    BY <2>1
<1>3. /\ p = Spot(p.nest, p.mode, p.byte) /\ p.nest \in Nests /\ p.mode \in Modes /\ p.byte \in Nat
      /\ r = Spot(r.nest, r.mode, r.byte)
  BY SpotSame
<1>4. Nesting(p.nest) /\ Known(p.mode)
  BY <1>1 DEF StandsAt
<1>5. \/ name \in {"value", "annotated"} /\ r = Spot(p.nest, "settled", 0)
      \/ /\ Head(script) \in TokenEnders \cup {<<"scalar">>}
         /\ Head(script) \in TokenEnders => p.mode = "bare"
         /\ r.nest = p.nest /\ r.mode \in Ends /\ r.byte = 0
  <2>1. \/ Head(script) \in {<<"value">>, <<"annotated">>} /\ r = Spot(p.nest, "settled", 0)
        \/ /\ Head(script) \in TokenEnders \cup {<<"scalar">>}
           /\ Head(script) \in TokenEnders => p.mode = "bare"
           /\ r.nest = p.nest /\ r.mode \in Ends /\ r.byte = 0
    BY <1>1, <1>2, ActIs
  <2> QED
    BY <1>2, <2>1
<1>6. CASE name \in {"value", "annotated"} /\ r = Spot(p.nest, "settled", 0)
  <2>1. Runs(Tail(script), Spot(p.nest, "settled", 0), q)
    BY <1>1, <1>6
  <2> QED
    BY <1>3, <1>4, <1>6, <2>1, ModesAre
<1>7. CASE /\ Head(script) \in TokenEnders \cup {<<"scalar">>}
           /\ Head(script) \in TokenEnders => p.mode = "bare"
           /\ r.nest = p.nest /\ r.mode \in Ends /\ r.byte = 0
  <2>1. name \notin {"value", "annotated"}
    <3>1. Head(script) # <<"value">> /\ Head(script) # <<"annotated">>
      <4>1. <<"scalar">> # <<"value">> /\ <<"scalar">> # <<"annotated">>
        <5>1. <<"scalar">>[1] = "scalar" /\ <<"value">>[1] = "value" /\ <<"annotated">>[1] = "annotated"
          OBVIOUS
        <5> QED
          BY <5>1
      <4> QED
        BY <1>7, <4>1 DEF TokenEnders
    <3> QED
      BY <3>1
  <2>2. name # "scalar" => Known("bare")
    BY <1>2, <1>4, <1>7
  <2>3. Runs(Tail(script), Spot(p.nest, r.mode, 0), q)
    BY <1>1, <1>3, <1>7
  <2> QED
    BY <1>3, <1>4, <1>7, <2>1, <2>2, <2>3
<1> QED
  BY <1>5, <1>6, <1>7

\* It goes on with calls that promise what it promised.
LEMMA PolicyGoesOn ==
  ASSUME Whole, Policy, UNCHANGED lexing, NEW calls, Replaces(calls), said \subseteq said',
         NEW nest \in Nests, Nesting(nest), NEW mode \in Modes, Known(mode) \/ Known(mode)',
         NEW byte \in Nat, byte # 0 => TriviaEnd = byte,
         NEW r, NEW q, Runs(calls, Spot(nest, mode, byte), r), Runs(Tail(script), r, q)
  PROVE  Policy'
<1>1. next' = next /\ cursor' = cursor /\ leaves' = leaves /\ open' = open /\ nodes' = nodes
      /\ script' = calls \o Tail(script)
  BY DEF Replaces
<1>2. Drawn' /\ Nesting(nest)' /\ Known(mode)'
  BY <1>1, Unmoves DEF Policy
<1>3. TriviaEnd' = TriviaEnd
  BY <1>1, SameBytes
<1>4. StandsAt(Spot(nest, mode, byte))'
  BY <1>2, <1>3 DEF StandsAt, Spot
<1>5. Promised'
  BY <1>1, <1>4, PromisesOn
<1> QED
  BY <1>2, <1>5 DEF Policy

LEMMA AnyIsKnown == Known("any")
BY DEF Known

\* A value leaves what a value leaves.
LEMMA PolicySettles ==
  ASSUME Whole, Running \/ Ending, Policy, UNCHANGED lexing, NEW name \in {"value", "annotated"}, Reached(name),
         NEW calls, NEW byte \in Nat, byte # 0 => TriviaEnd = byte, Settles(calls, byte), Replaces(calls),
         said \subseteq said'
  PROVE  Policy'
<1>1. name \in DecisionNames
  BY DecisionNamed
<1>2. Head(script) = <<name>> /\ script # <<>> /\ Promised
  BY <1>1, ReachedIs DEF Reached, Parsed, Policy
<1>3. PICK nest \in Nests, end \in Ends, q \in Spots :
        /\ Runs(Tail(script), Spot(nest, end, 0), q) /\ Nesting(nest) /\ end = "settled"
  BY <1>1, <1>2, DecisionAt
<1>4. Runs(calls, Spot(nest, "any", byte), Spot(nest, "settled", 0))
  BY DEF Settles
<1> QED
  BY <1>3, <1>4, AnyIsKnown, ModesAre, PolicyGoesOn

\* The others answer what they are asked, after a token or anywhere.
LEMMA PolicyAnswers ==
  ASSUME Whole, Running \/ Ending, Policy, UNCHANGED lexing, NEW name \in DecisionNames, Reached(name),
         NEW calls, NEW mode \in {"any", "bare"}, Answers(calls, mode), Replaces(calls), said \subseteq said',
         mode = "bare" => name \notin {"value", "annotated", "scalar"}
  PROVE  Policy'
<1>1. Head(script) = <<name>> /\ script # <<>> /\ Promised
  BY ReachedIs DEF Reached, Parsed, Policy
<1>2. PICK nest \in Nests, end \in Ends, q \in Spots :
        /\ Runs(Tail(script), Spot(nest, end, 0), q) /\ Nesting(nest)
        /\ name \notin {"value", "annotated", "scalar"} => Known("bare")
  BY <1>1, DecisionAt
<1>3. Runs(calls, Spot(nest, mode, 0), Spot(nest, end, 0))
  BY DEF Answers
<1>4. Known(mode) /\ mode \in Modes /\ 0 \in Nat
  BY <1>2, AnyIsKnown, ModesAre
<1> QED
  BY <1>2, <1>3, <1>4, PolicyGoesOn

\* Right after a token there may be nothing left to do.
LEMMA PolicyReturns ==
  ASSUME Whole, Running \/ Ending, Policy, UNCHANGED lexing, NEW name \in DecisionNames, Reached(name),
         Replaces(<<>>), said \subseteq said', name \notin {"value", "annotated", "scalar"}
  PROVE  Policy'
<1>1. Head(script) = <<name>> /\ script # <<>> /\ Promised
  BY ReachedIs DEF Reached, Parsed, Policy
<1>2. PICK nest \in Nests, end \in Ends, q \in Spots :
        /\ Runs(Tail(script), Spot(nest, end, 0), q) /\ Nesting(nest) /\ Known("bare")
  BY <1>1, DecisionAt
<1>3. Known(end) /\ end \in Modes /\ 0 \in Nat
  BY <1>2, ModesAre DEF Known, Settled, Ends
<1>4. Runs(<<>>, Spot(nest, end, 0), Spot(nest, end, 0))
  BY <1>3, SpotIs, RunsNowhere
<1> QED
  BY <1>2, <1>3, <1>4, PolicyGoesOn

LEMMA ItSays ==
  /\ \A calls : Goes(calls) => Replaces(calls) /\ said \subseteq said'
  /\ \A calls : Stray(calls) => Replaces(calls) /\ said \subseteq said'
  /\ \A code, at, calls : Reports(code, at, calls) => Replaces(calls) /\ said \subseteq said'
<1>1. \A code, at, calls : Reports(code, at, calls) => said \subseteq said'
  BY DEF Reports
<1>2. \A calls : Goes(calls) => said' = said
  BY DEF Goes, tree
<1> QED
  BY <1>1, <1>2, ItReplaces DEF Stray

LEMMA PolicyValue ==
  ASSUME Whole, Running \/ Ending, Policy, ParseValue, UNCHANGED lexing
  PROVE  Policy'
<1>1. Reached("value") /\ Goes(<<Flush, Start("Value"), <<"annotated">>, Finish>>)
  BY DEF ParseValue
<1>2. 0 \in Nat /\ ~(0 # 0)
  OBVIOUS
<1> QED
  BY <1>1, <1>2, ItSays, SettlesValue, PolicySettles

LEMMA PolicyAnnotation ==
  ASSUME Whole, Running \/ Ending, Policy, ParseAnnotation, UNCHANGED lexing
  PROVE  Policy'
<1>1. /\ Reached("annotated")
      /\ Goes(<<Flush, Start("Annotation"), Token, <<"annotation">>, Finish, Head(script)>>)
  BY DEF ParseAnnotation
<1>2. Head(script) = <<"annotated">>
  BY <1>1, DecisionNamed, ReachedIs
<1>3. Goes(<<Flush, Start("Annotation"), Token, <<"annotation">>, Finish, <<"annotated">>>>)
  BY <1>1, <1>2
<1>4. 0 \in Nat /\ ~(0 # 0)
  OBVIOUS
<1> QED
  BY <1>1, <1>3, <1>4, ItSays, SettlesAnnotation, PolicySettles

LEMMA PolicyAnnotationArguments ==
  ASSUME Whole, Running \/ Ending, Policy, ParseAnnotationArguments, UNCHANGED lexing
  PROVE  Policy'
<1>1. Reached("annotation") /\ Goes(IF At("(") THEN <<Token, <<"annotation argument">>>> ELSE <<>>)
  BY DEF ParseAnnotationArguments
<1>2. CASE At("(")
  <2>1. Goes(<<Token, <<"annotation argument">>>>)
    BY <1>1, <1>2
  <2>2. Answers(<<Token, <<"annotation argument">>>>, "any")
    BY EndersAre, AnswersMore
  <2> QED
    BY <1>1, <2>1, <2>2, DecisionNamed, ItSays, PolicyAnswers
<1>3. CASE ~At("(")
  <2>1. Goes(<<>>)
    BY <1>1, <1>3
  <2> QED
    BY <1>1, <2>1, DecisionNamed, ItSays, PolicyReturns
<1> QED
  BY <1>2, <1>3

LEMMA PolicyAnnotationArgument ==
  ASSUME Whole, Running \/ Ending, Policy, ParseAnnotationArgument, UNCHANGED lexing
  PROVE  Policy'
<1>1. Reached("annotation argument")
  BY DEF ParseAnnotationArgument
<1>2. \/ Goes(<<Token>>)
      \/ Stray(<<>>)
      \/ Goes(<<Token, Head(script)>>)
      \/ Stray(ErrorToken \o <<Head(script)>>)
  <2>1. (CASE At(")") -> Goes(<<Token>>)
           [] AtEnd -> Stray(<<>>)
           [] Kind(0) \in {"Identifier", "Integer"} \/ At(",") -> Goes(<<Token, Head(script)>>)
           [] OTHER -> Stray(ErrorToken \o <<Head(script)>>))
    BY DEF ParseAnnotationArgument
  <2> QED
    BY <2>1
<1>3. Head(script) = <<"annotation argument">>
  BY <1>1, DecisionNamed, ReachedIs
<1>4. CASE Goes(<<Token>>)
  BY <1>1, <1>4, DecisionNamed, AnswersToken, ItSays, PolicyAnswers
<1>5. CASE Stray(<<>>)
  BY <1>1, <1>5, DecisionNamed, ItSays, PolicyReturns
<1>6. CASE Goes(<<Token, Head(script)>>)
  <2>1. Goes(<<Token, <<"annotation argument">>>>) /\ Answers(<<Token, <<"annotation argument">>>>, "any")
    BY <1>3, <1>6, EndersAre, AnswersMore
  <2> QED
    BY <1>1, <2>1, DecisionNamed, ItSays, PolicyAnswers
<1>7. CASE Stray(ErrorToken \o <<Head(script)>>)
  <2>1. /\ Stray(ErrorToken \o <<<<"annotation argument">>>>)
        /\ Answers(ErrorToken \o <<<<"annotation argument">>>>, "any")
    BY <1>3, <1>7, EndersAre, AnswersStray
  <2> QED
    BY <1>1, <2>1, DecisionNamed, ItSays, PolicyAnswers
<1> QED
  BY <1>2, <1>4, <1>5, <1>6, <1>7

LEMMA PolicyBlock ==
  ASSUME Whole, Running \/ Ending, Policy, ParseBlock, UNCHANGED lexing
  PROVE  Policy'
<1>1. Reached("annotated") /\ Goes(<<Flush, Start("Block"), Token, Items(Tok(0).from, {})>>)
  BY DEF ParseBlock
<1>2. PICK byte : byte = Tok(0).from
  OBVIOUS
<1>3. byte \in Nat \ {0} /\ byte \in Nat /\ TriviaEnd = byte
  BY <1>2, TokenStarts DEF TriviaEnd
<1>4. Goes(<<Flush, Start("Block"), Token, Items(byte, {})>>)
  BY <1>1, <1>2
<1>5. {} \in Shapes
  BY DEF Shapes
<1>6. Settles(<<Flush, Start("Block"), Token, Items(byte, {})>>, byte)
  BY <1>3, <1>5, SettlesBlock
<1> QED
  BY <1>1, <1>3, <1>4, <1>6, ItSays, PolicySettles

LEMMA PolicyScalarValue ==
  ASSUME Whole, Running \/ Ending, Policy, ParseScalarValue, UNCHANGED lexing
  PROVE  Policy'
<1>1. /\ Reached("annotated")
      /\ Goes(IF Kind(0) = "Identifier" THEN <<Flush, Token, <<"named value">>>> ELSE <<<<"scalar">>>>)
  BY DEF ParseScalarValue
<1>2. CASE Kind(0) = "Identifier"
  <2>1. Goes(<<Flush, Token, <<"named value">>>>) /\ Answers(<<Flush, Token, <<"named value">>>>, "any")
    BY <1>1, <1>2, EndersAre, AnswersName
  <2> QED
    BY <1>1, <2>1, DecisionNamed, ItSays, PolicyAnswers
<1>3. CASE Kind(0) # "Identifier"
  <2>1. Goes(<<<<"scalar">>>>)
    BY <1>1, <1>3
  <2> QED
    BY <1>1, <2>1, AnswersScalar, DecisionNamed, ItSays, PolicyAnswers
<1> QED
  BY <1>2, <1>3

\* What is reported to be missing is missing right after the last token.
LEMMA PolicyMissing ==
  ASSUME Whole, Running \/ Ending, Policy, ValueMissing, UNCHANGED lexing
  PROVE  Policy'
<1>1. Reached("annotated") /\ Reports("ValueMissing", TriviaStart, <<>>)
  BY DEF ValueMissing
<1>2. Replaces(<<>>) /\ said \subseteq said'
  BY <1>1, ItSays
<1>3. Head(script) = <<"annotated">> /\ script # <<>> /\ Promised
  BY <1>1, DecisionNamed, ReachedIs DEF Reached, Parsed, Policy
<1>4. PICK nest \in Nests, end \in Ends, q \in Spots :
        /\ Runs(Tail(script), Spot(nest, end, 0), q) /\ Nesting(nest)
        /\ end = "settled"
  BY <1>3, DecisionNamed, DecisionAt
<1>5. Known("settled")'
  <2>1. [code |-> "ValueMissing", at |-> Gap(next)] \in said'
    BY <1>1, WholeIs, RunFills DEF Reports
  <2>2. (Gap(next))' = Gap(next)
    BY <1>2, SameBytes DEF Replaces
  <2>3. ReportedAt("ValueMissing", Gap(next))'
    BY <2>1, <2>2 DEF ReportedAt
  <2> QED
    BY <2>3 DEF Known, Settled
<1>6. Runs(<<>>, Spot(nest, "settled", 0), Spot(nest, "settled", 0))
  BY ModesAre, SpotIs, RunsNowhere
<1>7. ~(0 # 0)
  OBVIOUS
<1> QED
  BY <1>2, <1>4, <1>5, <1>6, <1>7, ModesAre, PolicyGoesOn

LEMMA PolicyIdentifierValue ==
  ASSUME Whole, Running \/ Ending, Policy, ParseIdentifierValue, UNCHANGED lexing
  PROVE  Policy'
<1>1. Reached("named value")
  BY DEF ParseIdentifierValue
<1>2. \/ Goes(<<Wrap("TypeExpr"), Token, <<"type argument">>, Finish>>)
      \/ Goes(<<Wrap("Call"), Token, <<"call argument">>, Finish>>)
      \/ Goes(<<Wrap("Scalar"), Finish>>)
  <2>1. Goes(CASE At("<") -> <<Wrap("TypeExpr"), Token, <<"type argument">>, Finish>>
               [] At("(") -> <<Wrap("Call"), Token, <<"call argument">>, Finish>>
               [] OTHER -> <<Wrap("Scalar"), Finish>>)
    BY DEF ParseIdentifierValue
  <2>2. ~(At("<") /\ At("("))
    BY KindsOf
  <2>3. CASE At("<")
    BY <2>1, <2>2, <2>3
  <2>4. CASE At("(")
    BY <2>1, <2>2, <2>4
  <2>5. CASE ~At("<") /\ ~At("(")
    BY <2>1, <2>5
  <2> QED
    BY <2>3, <2>4, <2>5
<1>3. /\ Answers(<<Wrap("TypeExpr"), Token, <<"type argument">>, Finish>>, "bare")
      /\ Answers(<<Wrap("Call"), Token, <<"call argument">>, Finish>>, "bare")
      /\ Answers(<<Wrap("Scalar"), Finish>>, "bare")
  BY KindsAre, EndersAre, AnswersBrackets, AnswersWrapped
<1> QED
  BY <1>1, <1>2, <1>3, DecisionNamed, ItSays, PolicyAnswers

\* A closing bracket, or a report that it is missing.
LEMMA PolicyClose ==
  ASSUME Whole, Running \/ Ending, Policy, UNCHANGED lexing, NEW name \in DecisionNames, Reached(name),
         name \notin {"value", "annotated", "scalar"}, NEW byte, Close(byte)
  PROVE  Policy'
<1>1. CASE At(byte)
  <2>1. Goes(<<Token>>)
    BY <1>1 DEF Close
  <2> QED
    BY <2>1, AnswersToken, ItSays, PolicyAnswers
<1>2. CASE ~At(byte)
  <2>1. Stray(<<>>)
    BY <1>2 DEF Close
  <2> QED
    BY <2>1, ItSays, PolicyReturns
<1> QED
  BY <1>1, <1>2

LEMMA PolicyScalar ==
  ASSUME Whole, Running \/ Ending, Policy, ParseScalar, UNCHANGED lexing
  PROVE  Policy'
<1>1. CASE /\ Reached("scalar")
           /\ Goes(<<Flush, Start("Scalar"), Token>> \o (IF Kind(0) = "String" THEN <<<<"strings">>>> ELSE <<>>) \o <<Finish>>)
  <2>1. PICK more : more = IF Kind(0) = "String" THEN <<<<"strings">>>> ELSE <<>>
    OBVIOUS
  <2>2. more \in {<<>>, << <<"strings">> >>} /\ Goes(<<Flush, Start("Scalar"), Token>> \o more \o <<Finish>>)
    BY <1>1, <2>1
  <2>3. Answers(<<Flush, Start("Scalar"), Token>> \o more \o <<Finish>>, "any")
    BY <2>2, AnswersLiteral
  <2> QED
    BY <1>1, <2>2, <2>3, DecisionNamed, ItSays, PolicyAnswers
<1>2. CASE /\ Reached("strings")
           /\ Goes(IF Kind(0) = "String" THEN <<Token, Head(script)>> ELSE <<>>)
  <2>1. Head(script) = <<"strings">>
    BY <1>2, DecisionNamed, ReachedIs
  <2>2. CASE Kind(0) = "String"
    <3>1. Goes(<<Token, <<"strings">>>>) /\ Answers(<<Token, <<"strings">>>>, "any")
      BY <1>2, <2>1, <2>2, EndersAre, AnswersMore
    <3> QED
      BY <1>2, <3>1, DecisionNamed, ItSays, PolicyAnswers
  <2>3. CASE Kind(0) # "String"
    <3>1. Goes(<<>>)
      BY <1>2, <2>3
    <3> QED
      BY <1>2, <3>1, DecisionNamed, ItSays, PolicyReturns
  <2> QED
    BY <2>2, <2>3
<1> QED
  BY <1>1, <1>2 DEF ParseScalar

LEMMA PolicyTypeArgument ==
  ASSUME Whole, Running \/ Ending, Policy, ParseTypeArgument, UNCHANGED lexing
  PROVE  Policy'
<1>1. CASE /\ Reached("type argument")
           /\ IF Kind(0) = "Identifier" THEN Goes(<<Flush, Token, <<"named type">>, <<"after type">>>>) ELSE Close(">")
  <2>1. CASE Kind(0) = "Identifier"
    <3>1. /\ Goes(<<Flush, Token, <<"named type">>, <<"after type">>>>)
          /\ Answers(<<Flush, Token, <<"named type">>, <<"after type">>>>, "any")
      BY <1>1, <2>1, EndersAre, AnswersNameThen
    <3> QED
      BY <1>1, <3>1, DecisionNamed, ItSays, PolicyAnswers
  <2>2. CASE Kind(0) # "Identifier"
    BY <1>1, <2>2, DecisionNamed, PolicyClose
  <2> QED
    BY <2>1, <2>2
<1>2. CASE /\ Reached("named type")
           /\ Goes(IF At("<") THEN <<Wrap("TypeExpr"), Token, <<"type argument">>, Finish>> ELSE <<>>)
  <2>1. CASE At("<")
    <3>1. /\ Goes(<<Wrap("TypeExpr"), Token, <<"type argument">>, Finish>>)
          /\ Answers(<<Wrap("TypeExpr"), Token, <<"type argument">>, Finish>>, "bare")
      BY <1>2, <2>1, KindsAre, EndersAre, AnswersBrackets
    <3> QED
      BY <1>2, <3>1, DecisionNamed, ItSays, PolicyAnswers
  <2>2. CASE ~At("<")
    <3>1. Goes(<<>>)
      BY <1>2, <2>2
    <3> QED
      BY <1>2, <3>1, DecisionNamed, ItSays, PolicyReturns
  <2> QED
    BY <2>1, <2>2
<1>3. CASE /\ Reached("after type")
           /\ IF At(",") THEN Goes(<<Token, <<"type argument">>>>) ELSE Close(">")
  <2>1. CASE At(",")
    <3>1. Goes(<<Token, <<"type argument">>>>) /\ Answers(<<Token, <<"type argument">>>>, "any")
      BY <1>3, <2>1, EndersAre, AnswersMore
    <3> QED
      BY <1>3, <3>1, DecisionNamed, ItSays, PolicyAnswers
  <2>2. CASE ~At(",")
    BY <1>3, <2>2, DecisionNamed, PolicyClose
  <2> QED
    BY <2>1, <2>2
<1> QED
  BY <1>1, <1>2, <1>3 DEF ParseTypeArgument

LEMMA PolicyCallArgument ==
  ASSUME Whole, Running \/ Ending, Policy, ParseCallArgument, UNCHANGED lexing
  PROVE  Policy'
<1>1. ASSUME /\ Reached("call argument")
             /\ CASE At(")") \/ AtEnd -> Close(")")
                  [] Kind(0) = "Identifier" -> Goes(<<Flush, Token, <<"named argument">>, <<"after argument">>>>)
                  [] StartsScalar /\ Kind(0) # "Identifier" -> Goes(<<<<"scalar">>, <<"after argument">>>>)
                  [] OTHER -> Stray(ErrorToken \o <<Head(script)>>)
      PROVE  Policy'
  <2>1. \/ Close(")")
        \/ Goes(<<Flush, Token, <<"named argument">>, <<"after argument">>>>)
        \/ Goes(<<<<"scalar">>, <<"after argument">>>>)
        \/ Stray(ErrorToken \o <<Head(script)>>)
    BY <1>1
  <2>2. CASE Close(")")
    BY <1>1, <2>2, DecisionNamed, PolicyClose
  <2>3. CASE Goes(<<Flush, Token, <<"named argument">>, <<"after argument">>>>)
    <3>1. Answers(<<Flush, Token, <<"named argument">>, <<"after argument">>>>, "any")
      BY EndersAre, AnswersNameThen
    <3> QED
      BY <1>1, <2>3, <3>1, DecisionNamed, ItSays, PolicyAnswers
  <2>4. CASE Goes(<<<<"scalar">>, <<"after argument">>>>)
    <3>1. Answers(<<<<"scalar">>, <<"after argument">>>>, "any")
      BY EndersAre, AnswersScalarThen
    <3> QED
      BY <1>1, <2>4, <3>1, DecisionNamed, ItSays, PolicyAnswers
  <2>5. CASE Stray(ErrorToken \o <<Head(script)>>)
    <3>1. Head(script) = <<"call argument">>
      BY <1>1, DecisionNamed, ReachedIs
    <3>2. /\ Stray(ErrorToken \o <<<<"call argument">>>>)
          /\ Answers(ErrorToken \o <<<<"call argument">>>>, "any")
      BY <2>5, <3>1, EndersAre, AnswersStray
    <3> QED
      BY <1>1, <3>2, DecisionNamed, ItSays, PolicyAnswers
  <2> QED
    BY <2>1, <2>2, <2>3, <2>4, <2>5
<1>2. CASE /\ Reached("named argument")
           /\ Goes(IF At("(") THEN <<Wrap("Call"), Token, <<"call argument">>, Finish>> ELSE <<Wrap("Scalar"), Finish>>)
  <2>1. CASE At("(")
    <3>1. /\ Goes(<<Wrap("Call"), Token, <<"call argument">>, Finish>>)
          /\ Answers(<<Wrap("Call"), Token, <<"call argument">>, Finish>>, "bare")
      BY <1>2, <2>1, KindsAre, EndersAre, AnswersBrackets
    <3> QED
      BY <1>2, <3>1, DecisionNamed, ItSays, PolicyAnswers
  <2>2. CASE ~At("(")
    <3>1. Goes(<<Wrap("Scalar"), Finish>>)
      BY <1>2, <2>2
    <3> QED
      BY <1>2, <3>1, AnswersWrapped, DecisionNamed, ItSays, PolicyAnswers
  <2> QED
    BY <2>1, <2>2
<1>3. CASE /\ Reached("after argument")
           /\ IF At(",") THEN Goes(<<Token, <<"call argument">>>>) ELSE Close(")")
  <2>1. CASE At(",")
    <3>1. Goes(<<Token, <<"call argument">>>>) /\ Answers(<<Token, <<"call argument">>>>, "any")
      BY <1>3, <2>1, EndersAre, AnswersMore
    <3> QED
      BY <1>3, <3>1, DecisionNamed, ItSays, PolicyAnswers
  <2>2. CASE ~At(",")
    BY <1>3, <2>2, DecisionNamed, PolicyClose
  <2> QED
    BY <2>1, <2>2
<1> QED
  BY <1>1, <1>2, <1>3 DEF ParseCallArgument

\* At items: the nodes they are in, and what is known there.
LEMMA ItemsStand ==
  ASSUME Promised, Reached("items")
  PROVE  \E opened \in Nat, shape \in Shapes, nest \in Nests, mode \in {"bare", "ready"}, q \in Spots :
           /\ Head(script) = Items(opened, shape)
           /\ Argument.opened = opened /\ Argument.shape = shape
           /\ Nesting(Around(nest, opened)) /\ Known(mode)
           /\ Runs(Tail(script), After(nest, opened), q)
<1>1. script # <<>> /\ Head(script)[1] = "items"
  BY DEF Reached, Parsed
<1>2. PICK p, r, q \in Spots : Act(Head(script), p, r) /\ Runs(Tail(script), r, q) /\ StandsAt(p)
  BY <1>1, AtCall
<1>3. PICK opened \in Nat, shape \in Shapes :
        /\ Head(script) = Items(opened, shape)
        /\ p.mode \in {"bare", "ready"} /\ r.byte = 0
        /\ IF opened = 0 THEN p.nest = Append(r.nest, Node("File", 0, 0)) /\ r.mode = "any"
           ELSE p.nest = Append(r.nest, Node("Block", opened, 1)) /\ r.mode = "settled"
  BY <1>1, <1>2, ActIs
<1>4. r = Spot(r.nest, r.mode, r.byte) /\ r.nest \in Nests
  BY SpotSame
<1>5. p.nest = Around(r.nest, opened) /\ r = After(r.nest, opened)
  <2>1. CASE opened = 0
    BY <1>3, <1>4, <2>1 DEF Around, After
  <2>2. CASE opened # 0
    BY <1>3, <1>4, <2>2 DEF Around, After
  <2> QED
    BY <2>1, <2>2
<1>6. Nesting(p.nest) /\ Known(p.mode)
  BY <1>2 DEF StandsAt
<1>7. Argument = [opened |-> opened, shape |-> shape]
  BY <1>3 DEF Argument, Items
<1>8. Argument.opened = opened /\ Argument.shape = shape
  BY <1>7
<1>9. PICK nest : nest = r.nest
  OBVIOUS
<1>10. PICK mode : mode = p.mode
  OBVIOUS
<1>11. /\ nest \in Nests /\ mode \in {"bare", "ready"} /\ Nesting(Around(nest, opened)) /\ Known(mode)
       /\ Runs(Tail(script), After(nest, opened), q)
  BY <1>2, <1>3, <1>4, <1>5, <1>6, <1>9, <1>10
<1> QED
  BY <1>3, <1>8, <1>11

LEMMA PolicyCompletes ==
  ASSUME Whole, Policy, UNCHANGED lexing, NEW calls, Replaces(calls), said \subseteq said',
         NEW nest \in Nests, NEW opened \in Nat, Nesting(Around(nest, opened)),
         NEW mode \in Modes, Known(mode) \/ Known(mode)', Completes(calls, mode, opened),
         NEW q, Runs(Tail(script), After(nest, opened), q)
  PROVE  Policy'
<1>1. Around(nest, opened) \in Nests
  BY AroundIs
<1>2. Runs(calls, Spot(Around(nest, opened), mode, 0), After(nest, opened))
  BY DEF Completes
<1>3. 0 \in Nat /\ ~(0 # 0)
  OBVIOUS
<1> QED
  BY <1>1, <1>2, <1>3, PolicyGoesOn

LEMMA PolicyStatement ==
  ASSUME Whole, Running \/ Ending, Policy, ParseStatement, UNCHANGED lexing
  PROVE  Policy'
<1>1. /\ Reached("items")
      /\ Goes(<<Detach, Start("Statement"), Flush, Start("Key"), Token, Finish, Token, <<"value">>,
                Trail, Finish, More("statement")>>)
  BY DEF ParseStatement
<1>2. PICK opened \in Nat, shape \in Shapes, nest \in Nests, mode \in {"bare", "ready"}, q \in Spots :
        /\ Argument.opened = opened /\ Argument.shape = shape
        /\ Nesting(Around(nest, opened)) /\ Known(mode)
        /\ Runs(Tail(script), After(nest, opened), q)
  BY <1>1, ItemsStand DEF Policy
<1> DEFINE after == shape \cup {"statement"}
<1>3. More("statement") = Items(opened, after)
  BY <1>2 DEF More
<1>4. after \in Shapes
  BY DEF Shapes
<1> HIDE DEF after
<1>5. Goes(<<Detach, Start("Statement"), Flush, Start("Key"), Token, Finish, Token, <<"value">>,
             Trail, Finish, Items(opened, after)>>)
  BY <1>1, <1>3
<1>6. Completes(<<Detach, Start("Statement"), Flush, Start("Key"), Token, Finish, Token, <<"value">>,
                  Trail, Finish, Items(opened, after)>>, mode, opened)
  BY <1>4, CompletesStatement
<1> QED
  BY <1>2, <1>5, <1>6, ItSays, ModesAre, PolicyCompletes

LEMMA PolicyItemScalar ==
  ASSUME Whole, Running \/ Ending, Policy, ParseItemScalar, UNCHANGED lexing
  PROVE  Policy'
<1>1. Reached("items") /\ Goes(<<Detach, <<"scalar">>, More("scalar")>>)
  BY DEF ParseItemScalar
<1>2. PICK opened \in Nat, shape \in Shapes, nest \in Nests, mode \in {"bare", "ready"}, q \in Spots :
        /\ Argument.opened = opened /\ Argument.shape = shape
        /\ Nesting(Around(nest, opened)) /\ Known(mode)
        /\ Runs(Tail(script), After(nest, opened), q)
  BY <1>1, ItemsStand DEF Policy
<1> DEFINE after == shape \cup {"scalar"}
<1>3. More("scalar") = Items(opened, after)
  BY <1>2 DEF More
<1>4. after \in Shapes
  BY DEF Shapes
<1> HIDE DEF after
<1>5. Goes(<<Detach, <<"scalar">>, Items(opened, after)>>)
  BY <1>1, <1>3
<1>6. Completes(<<Detach, <<"scalar">>, Items(opened, after)>>, mode, opened)
  BY <1>4, CompletesScalar
<1> QED
  BY <1>2, <1>5, <1>6, ItSays, ModesAre, PolicyCompletes

LEMMA PolicyStrayItem ==
  ASSUME Whole, Running \/ Ending, Policy, StrayItem, UNCHANGED lexing
  PROVE  Policy'
<1>1. Reached("items") /\ Replaces(<<Detach>> \o ErrorToken \o <<Head(script)>>) /\ said \subseteq said'
  BY ItSays DEF StrayItem
<1>2. PICK opened \in Nat, shape \in Shapes, nest \in Nests, mode \in {"bare", "ready"}, q \in Spots :
        /\ Head(script) = Items(opened, shape)
        /\ Nesting(Around(nest, opened)) /\ Known(mode)
        /\ Runs(Tail(script), After(nest, opened), q)
  BY <1>1, ItemsStand DEF Policy
<1>3. Replaces(<<Detach>> \o ErrorToken \o <<Items(opened, shape)>>)
  BY <1>1, <1>2
<1>4. Completes(<<Detach>> \o ErrorToken \o <<Items(opened, shape)>>, mode, opened)
  BY CompletesStray
<1> QED
  BY <1>1, <1>2, <1>3, <1>4, ModesAre, PolicyCompletes

\* A block that never closes is reported where it was opened.
LEMMA PolicyCloseBlock ==
  ASSUME Whole, Running \/ Ending, Policy, CloseBlock, UNCHANGED lexing
  PROVE  Policy'
<1>1. /\ Reached("items") /\ Argument.opened # 0 /\ EndOfItems /\ said \subseteq said'
      /\ Replaces(IF At("}") THEN <<Flush, Token, Finish>> ELSE <<Flush, Finish>>)
  BY DEF CloseBlock, Calls, Replaces, InBlock
<1>2. PICK opened \in Nat, shape \in Shapes, nest \in Nests, mode \in {"bare", "ready"}, q \in Spots :
        /\ Argument.opened = opened
        /\ Nesting(Around(nest, opened)) /\ Known(mode)
        /\ Runs(Tail(script), After(nest, opened), q)
  BY <1>1, ItemsStand DEF Policy
<1>3. opened \in Nat \ {0}
  BY <1>1, <1>2
<1>4. CASE At("}")
  <2>1. Replaces(<<Flush, Token, Finish>>)
    BY <1>1, <1>4
  <2>2. Completes(<<Flush, Token, Finish>>, "any", opened)
    BY <1>3, CompletesClosed
  <2> QED
    BY <1>1, <1>2, <2>1, <2>2, AnyIsKnown, ModesAre, PolicyCompletes
<1>5. CASE ~At("}")
  <2>1. Replaces(<<Flush, Finish>>)
    BY <1>1, <1>5
  <2>2. Completes(<<Flush, Finish>>, "unclosed", opened)
    BY <1>3, CompletesUnclosed
  <2>3. next = Len(tokens)
    BY <1>1, <1>5, KindsDiffer, WholeIs, AtToken DEF EndOfItems
  <2>4. [code |-> "BraceUnbalanced", at |-> opened] \in said'
    BY <1>2, <1>5 DEF CloseBlock
  <2>5. Byte(open[Len(open)].first) = opened
    <3>1. Around(nest, opened) = Append(nest, Node("Block", opened, 1))
      BY <1>3 DEF Around
    <3>2. PICK inner \in Nests : inner = Around(nest, opened) /\ Len(inner) = Len(nest) + 1
                                 /\ inner[Len(nest) + 1] = Node("Block", opened, 1)
      <4>1. "Block" \in NodeKinds /\ opened \in Nat /\ 1 \in 0..1
        BY KindsAre
      <4>2. Node("Block", opened, 1) \in Element
        BY <4>1 DEF Node, Element
      <4>3. Append(nest, Node("Block", opened, 1))[Len(nest) + 1] = Node("Block", opened, 1)
        BY <4>2 DEF Nests
      <4> QED
        BY <3>1, <4>1, <4>3, NestIs
    <3>3. Len(nest) \in Nat
      BY DEF Nests
    <3>4. Len(open) = Len(nest) + 1 /\ \A k \in 1..Len(open) : Stands(inner[k], open[k])
      BY <1>2, <3>2 DEF Nesting
    <3>5. Len(open) \in 1..Len(open)
      BY <3>3, <3>4
    <3>6. Stands(Node("Block", opened, 1), open[Len(open)])
      BY <3>2, <3>4, <3>5
    <3>7. Node("Block", opened, 1).at = opened
      BY DEF Node
    <3> QED
      BY <1>3, <3>6, <3>7 DEF Stands
  <2>6. Known("unclosed")'
    <3>1. /\ next' = Len(tokens') /\ open' = open /\ leaves' = leaves
      BY <2>1, <2>3 DEF Replaces, lexing
    <3>2. ReportedAt("BraceUnbalanced", Byte(open[Len(open)].first))'
      BY <2>4, <2>5, <3>1 DEF ReportedAt, Byte
    <3>3. open # <<>>
      <4>1. Len(open) = Len(Around(nest, opened)) /\ Around(nest, opened) = Append(nest, Node("Block", opened, 1))
        BY <1>2, <1>3 DEF Nesting, Around
      <4>2. Len(Append(nest, Node("Block", opened, 1))) = Len(nest) + 1 /\ Len(nest) \in Nat
        <5>1. "Block" \in NodeKinds /\ opened \in Nat /\ 1 \in 0..1
          BY KindsAre
        <5> QED
          BY <5>1, NestIs DEF Nests
      <4>3. Len(open) # 0
        BY <4>1, <4>2
      <4> QED
        BY <4>3
    <3> QED
      BY <3>1, <3>2, <3>3 DEF Known
  <2> QED
    BY <1>1, <1>2, <2>1, <2>2, <2>6, ModesAre, PolicyCompletes
<1> QED
  BY <1>4, <1>5

LEMMA PolicyEndFile ==
  ASSUME Whole, Running \/ Ending, Policy, EndFile, UNCHANGED lexing
  PROVE  Policy'
<1>1. Reached("items") /\ Argument.opened = 0 /\ Goes(<<Flush, Finish>>)
  BY DEF EndFile, InBlock
<1>2. PICK opened \in Nat, shape \in Shapes, nest \in Nests, mode \in {"bare", "ready"}, q \in Spots :
        /\ Argument.opened = opened
        /\ Nesting(Around(nest, opened)) /\ Known(mode)
        /\ Runs(Tail(script), After(nest, opened), q)
  BY <1>1, ItemsStand DEF Policy
<1>3. Completes(<<Flush, Finish>>, "any", opened)
  BY <1>1, <1>2, CompletesFile
<1> QED
  BY <1>1, <1>2, <1>3, AnyIsKnown, ItSays, ModesAre, PolicyCompletes

-----------------------------------------------------------------------------
(* The calls that emit *)

\* A piece of the trivia before the token is one the lexer read.
LEMMA RunRead ==
  ASSUME Reading, CommentsRead, NEW k \in 1..Len(TriviaRun), TriviaRun[k].kind = "Comment"
  PROVE  CommentSpan(TriviaRun[k].from, TriviaRun[k].to)
<1>0. next \in 1..Len(tokens) /\ Tok(0) = tokens[next]
  BY AtToken DEF Reading
<1>1. trivia \in Seq(TriviaPieces) /\ tokens[next] \in Tokens /\ Tiled(next)
  BY <1>0 DEF Reading, LexerInvariant, LexerTypes
<1> DEFINE a == tokens[next].first
           b == tokens[next].first + tokens[next].count - 1
<1>2. a \in 1..(Len(trivia) + 1) /\ b \in 0..Len(trivia)
  BY <1>1 DEF Tiled, Tokens
<1>3. TriviaRun = SubSeq(trivia, a, b)
  BY <1>0 DEF TriviaRun
<1> HIDE DEF a, b
<1>4. a + k - 1 \in 1..Len(trivia) /\ TriviaRun[k] = trivia[a + k - 1]
  <2>0. Len(trivia) \in Nat
    BY <1>1
  <2>1. Len(TriviaRun) = IF a <= b THEN b - a + 1 ELSE 0
    BY <1>1, <1>2, <1>3, <2>0, SubSeqProperties
  <2>2. a <= b /\ k \in 1..(b - a + 1)
    BY <1>2, <2>0, <2>1
  <2>3. TriviaRun[k] = trivia[a + k - 1]
    BY <1>1, <1>2, <1>3, <2>0, <2>2, SubSeqProperties
  <2> QED
    BY <1>2, <2>0, <2>2, <2>3
<1> QED
  BY <1>4 DEF CommentsRead

\* What is emitted up to a limit holds the comments from their start.
LEMMA UptoReads ==
  ASSUME Reading, LeavesReach, CommentsRead, CursorBetween, NEW limit \in Here..TriviaEnd
  PROVE  /\ TriviaUpto(limit) \in Seq(TriviaPieces)
         /\ \A k \in 1..Len(TriviaUpto(limit)) :
              /\ TriviaUpto(limit)[k].from < TriviaUpto(limit)[k].to
              /\ TriviaUpto(limit)[k].kind = "Comment" =>
                   CommentSpan(TriviaUpto(limit)[k].from, TriviaUpto(limit)[k].to)
<1> DEFINE run == TriviaRun
<1>1. /\ run \in Seq(TriviaPieces) /\ Fills(run, 1, Len(run), Gap(next), TriviaEnd)
      /\ Gap(next) \in Nat /\ TriviaEnd \in Nat /\ Len(run) \in Nat
  BY RunFills
<1>2. /\ Here = (IF cursor = 0 THEN TriviaStart ELSE cursor)
      /\ Here \in Nat /\ limit \in Nat /\ Gap(next) <= Here /\ Here <= limit /\ limit <= TriviaEnd
      /\ Here \in Gap(next)..TriviaEnd
  BY UnemittedIsHere DEF LeavesReach
<1>a. PICK from : from = Here
  OBVIOUS
<1> DEFINE upto == TriviaUpto(limit)
           parts == Clipped(run, from, limit)
           kept == Kept(run, from, limit)
<1>3. upto \in Seq(TriviaPieces) /\ Fills(upto, 1, Len(upto), from, limit)
  BY <1>2, <1>a, UptoFills
<1>4. upto = IF kept = {} THEN <<>> ELSE SubSeq(parts, Min(kept), Max(kept))
  BY <1>2, <1>a DEF TriviaUpto, Clipped, Kept
<1>5. \A k \in 1..Len(upto) : from <= upto[k].from /\ upto[k].from < upto[k].to /\ upto[k].to <= limit
  <2>1. Len(upto) \in Int /\ Len(upto) <= Len(upto) /\ 1 \in Nat \ {0} /\ from \in Nat
    BY <1>2, <1>3, <1>a
  <2> HIDE DEF upto
  <2> QED
    BY <1>2, <1>3, <2>1, FillsInOrder
<1>6. \A k \in 1..Len(run) : /\ run[k].from \in Nat /\ run[k].to \in Nat /\ Gap(next) <= run[k].from /\ run[k].to <= TriviaEnd
  <2>1. \A k \in 1..Len(run) : run[k] \in TriviaPieces
    BY <1>1
  <2>2. 1 \in Nat \ {0} /\ Len(run) \in Int /\ Len(run) <= Len(run)
    BY <1>1
  <2>3. \A k \in 1..Len(run) : Gap(next) <= run[k].from /\ run[k].to <= TriviaEnd
    <3> HIDE DEF run
    <3> QED
      BY <1>1, <2>2, FillsInOrder
  <2> QED
    BY <2>1, <2>3 DEF TriviaPieces
<1>7. ASSUME NEW k \in 1..Len(upto)
      PROVE  \E j \in 1..Len(run) : /\ upto[k].kind = run[j].kind
                                    /\ upto[k].from = Max2(from, run[j].from)
                                    /\ upto[k].to = Min2(limit, run[j].to)
  <2>1. from < limit
    <3> HIDE DEF upto
    <3>1. upto[k] \in TriviaPieces
      BY <1>3
    <3>2. upto[k].from \in Nat /\ upto[k].to \in Nat
      BY <3>1 DEF TriviaPieces
    <3> QED
      BY <1>2, <1>5, <1>a, <3>2
  <2>2. PICK lo, hi \in 1..Len(run) : lo <= hi /\ kept = lo..hi
    BY <1>1, <1>2, <1>a, <2>1, ClippedFills
  <2>3. kept # {} /\ Min(kept) = lo /\ Max(kept) = hi
    <3>1. lo \in Nat /\ hi \in Nat /\ lo <= hi
      BY <2>2
    <3>2. Min(lo..hi) = lo /\ Max(lo..hi) = hi /\ lo..hi # {}
      BY <3>1, IntervalEnds
    <3> HIDE DEF kept
    <3> QED
      BY <2>2, <3>2
  <2>4. upto = SubSeq(parts, lo, hi)
    <3> HIDE DEF kept, parts, upto
    <3> QED
      BY <1>4, <2>3
  <2>5. \A j \in 1..Len(run) : parts[j] = [kind |-> run[j].kind, from |-> Max2(from, run[j].from), to |-> Min2(limit, run[j].to)]
    BY DEF Clipped
  <2>6. Len(parts) = Len(run) /\ DOMAIN parts = 1..Len(run)
    BY <1>1 DEF Clipped
  <2>7. parts = [j \in 1..Len(run) |-> parts[j]]
    BY DEF Clipped
  <2> HIDE DEF parts, upto
  <2>8. upto = [j \in 1..(hi - lo + 1) |-> parts[j + lo - 1]]
    BY <2>2, <2>4
  <2>9. Len(upto) = hi - lo + 1
    <3>1. DOMAIN upto = 1..(hi - lo + 1)
      BY <2>8
    <3>2. upto \in Seq(TriviaPieces) /\ hi - lo + 1 \in Nat
      BY <1>3, <2>2 DEF upto
    <3>3. Len(upto) \in Nat /\ DOMAIN upto = 1..Len(upto)
      BY <3>2
    <3> QED
      BY <3>1, <3>2, <3>3
  <2>10. k + lo - 1 \in 1..Len(run) /\ upto[k] = parts[k + lo - 1]
    BY <1>1, <2>2, <2>8, <2>9
  <2>11. PICK j \in 1..Len(run) : j = k + lo - 1
    BY <2>10
  <2>12. upto[k] = [kind |-> run[j].kind, from |-> Max2(from, run[j].from), to |-> Min2(limit, run[j].to)]
    BY <2>5, <2>10, <2>11
  <2> QED
    BY <2>12
<1>8. ASSUME NEW k \in 1..Len(upto), upto[k].kind = "Comment"
      PROVE  CommentSpan(upto[k].from, upto[k].to)
  <2>1. PICK j \in 1..Len(run) : /\ upto[k].kind = run[j].kind
                                 /\ upto[k].from = Max2(from, run[j].from)
                                 /\ upto[k].to = Min2(limit, run[j].to)
    BY <1>7
  <2>2. CommentSpan(run[j].from, run[j].to)
    BY <1>8, <2>1, RunRead
  <2>3. PICK x, y : x = run[j].from /\ y = run[j].to
    OBVIOUS
  <2>4. x \in Nat /\ y \in Nat /\ Gap(next) <= x /\ y <= TriviaEnd
    BY <1>6, <2>3
  <2>5. /\ upto[k].from = Max2(from, x) /\ upto[k].to = Min2(limit, y) /\ Max2(from, x) < Min2(limit, y)
        /\ CommentSpan(x, y)
    BY <1>5, <2>1, <2>2, <2>3
  <2> HIDE DEF run, upto
  <2>6. \A i \in Nat : x <= i /\ i < y => source[i] # "lf"
    BY <2>4, <2>5, Feeds DEF CommentSpan
  <2>7. from <= x
    <3> SUFFICES ASSUME ~(from <= x)  PROVE FALSE
      OBVIOUS
    <3>1. x < from /\ from < y
      BY <1>2, <1>a, <2>4, <2>5 DEF Max2, Min2
    <3>2. from - 1 \in Nat /\ x <= from - 1 /\ from - 1 < y
      BY <1>2, <1>a, <2>4, <3>1
    <3>3. source[from - 1] # "lf"
      BY <2>6, <3>2
    <3>4. from # Gap(next) /\ from # TriviaEnd
      BY <1>1, <1>2, <1>a, <2>4, <3>1
    <3> QED
      BY <1>a, <3>3, <3>4 DEF CursorBetween
  <2>8. upto[k].from = x /\ upto[k].to \in Nat /\ upto[k].to <= y
    BY <1>2, <1>a, <2>4, <2>5, <2>7 DEF Max2, Min2
  <2>9. LineFeeds(x, upto[k].to) = {}
    <3> SUFFICES ASSUME NEW i \in LineFeeds(x, upto[k].to)  PROVE FALSE
      OBVIOUS
    <3>1. i \in Nat /\ x <= i /\ i < upto[k].to /\ source[i] = "lf"
      BY <2>4, <2>8, Feeds
    <3> QED
      BY <2>4, <2>6, <2>8, <3>1
  <2> QED
    BY <2>5, <2>8, <2>9 DEF CommentSpan
<1> QED
  BY <1>3, <1>5, <1>8

\* A limit follows a line feed, unless it is where it was or at the token.
LEMMA LimitsFeed ==
  ASSUME Reading, LeavesReach
  PROVE  \A limit \in {TrailingLimit, DetachedLimit} :
           limit = TriviaEnd \/ limit = Here \/ source[limit - 1] = "lf"
<1>1. Unemitted = Here /\ Here \in Nat /\ TriviaEnd \in Nat
  BY UnemittedIsHere
<1>a. PICK u \in Nat : u = Unemitted
  BY <1>1
<1>b. PICK e \in Nat : e = TriviaEnd
  BY <1>1
<1> DEFINE feeds == LineFeeds(u, e)
           blank(i) == \A k \in u..(i - 1) : LineFeeds(k, i) = {} => source[k] \in {" ", "cr"}
           ends == {i \in feeds : blank(i)}
<1>2. TrailingLimit = IF feeds = {} THEN e ELSE 1 + Least(feeds)
  BY <1>a, <1>b DEF TrailingLimit, Least
<1>3. DetachedLimit = IF ends = {} THEN u ELSE 1 + Greatest(ends)
  BY <1>a, <1>b DEF DetachedLimit, Greatest
<1>4. feeds \in SUBSET Nat /\ feeds \in SUBSET (0..e) /\ \A i \in Nat : i \in feeds => source[i] = "lf"
  BY Feeds
<1>5. ends \in SUBSET feeds
  OBVIOUS
<1> HIDE DEF feeds, ends
<1>6. TrailingLimit = e \/ source[TrailingLimit - 1] = "lf"
  <2> SUFFICES ASSUME feeds # {}  PROVE source[TrailingLimit - 1] = "lf"
    BY <1>2
  <2>1. PICK m : m = Least(feeds)
    OBVIOUS
  <2>2. m \in feeds
    BY <1>4, <2>1, LeastOf
  <2>3. m \in Nat /\ source[m] = "lf" /\ TrailingLimit = 1 + m
    BY <1>2, <1>4, <2>1, <2>2
  <2>4. TrailingLimit - 1 = m
    BY <2>3
  <2> QED
    BY <2>3, <2>4
<1>7. DetachedLimit = u \/ source[DetachedLimit - 1] = "lf"
  <2> SUFFICES ASSUME ends # {}  PROVE source[DetachedLimit - 1] = "lf"
    BY <1>3
  <2>1. PICK m : m = Greatest(ends)
    OBVIOUS
  <2>2. m \in ends
    BY <1>4, <1>5, <2>1, GreatestOf
  <2>3. m \in Nat /\ source[m] = "lf" /\ DetachedLimit = 1 + m
    BY <1>3, <1>4, <1>5, <2>1, <2>2
  <2>4. DetachedLimit - 1 = m
    BY <2>3
  <2> QED
    BY <2>3, <2>4
<1> QED
  BY <1>1, <1>a, <1>b, <1>6, <1>7

LEMMA AllTakenIs == Whole => TokensIn(leaves, Len(leaves)) = next - 1 /\ Byte(Len(leaves) + 1) = Here
BY AllTaken

LEMMA ReadingEmits ==
  ASSUME Whole, CommentsRead, Drawn, UNCHANGED lexing, NEW limit \in Here..TriviaEnd,
         leaves' = leaves \o TriviaUpto(limit), nodes' = nodes, said' = said
  PROVE  /\ Grows /\ LeavesRead' /\ Len(leaves') \in Nat
<1>1. /\ TriviaUpto(limit) \in Seq(TriviaPieces)
      /\ \A k \in 1..Len(TriviaUpto(limit)) :
           /\ TriviaUpto(limit)[k].from < TriviaUpto(limit)[k].to
           /\ TriviaUpto(limit)[k].kind = "Comment" =>
                CommentSpan(TriviaUpto(limit)[k].from, TriviaUpto(limit)[k].to)
  BY WholeIs, UptoReads DEF Drawn
<1>2. PICK run \in Seq(TriviaPieces) : run = TriviaUpto(limit)
  BY <1>1
<1>3. leaves \in Seq(Leaves) /\ Len(leaves) \in Nat /\ Len(run) \in Nat
  BY WholeIs
<1>a. leaves' = leaves \o run
  BY <1>2
<1>4. /\ Len(leaves') = Len(leaves) + Len(run)
      /\ \A i \in 1..Len(leaves) : leaves'[i] = leaves[i]
      /\ \A i \in (Len(leaves) + 1)..(Len(leaves) + Len(run)) : leaves'[i] = run[i - Len(leaves)]
  BY <1>3, <1>a
<1>5. Grows
  BY <1>3, <1>4 DEF Grows
<1>6. ASSUME NEW i \in 1..Len(leaves')
      PROVE  /\ leaves'[i].from < leaves'[i].to
             /\ leaves'[i].kind = "Comment" => CommentSpan(leaves'[i].from, leaves'[i].to)
  <2>1. CASE i \in 1..Len(leaves)
    BY <1>4, <2>1 DEF Drawn, LeavesRead
  <2>2. CASE i \notin 1..Len(leaves)
    <3>1. i - Len(leaves) \in 1..Len(run) /\ leaves'[i] = run[i - Len(leaves)]
      BY <1>3, <1>4, <2>2
    <3> QED
      BY <1>1, <1>2, <3>1
  <2> QED
    BY <2>1, <2>2
<1>7. source' = source
  BY DEF lexing
<1> QED
  BY <1>3, <1>4, <1>5, <1>6, <1>7 DEF LeavesRead, CommentSpan, LineFeeds

\* The node on top of a nest.
LEMMA TopStands ==
  ASSUME Whole, NEW nest \in Nests, NEW kind \in NodeKinds, NEW at \in Nat, NEW held \in 0..1,
         Nesting(Append(nest, Node(kind, at, held)))
  PROVE  /\ Len(open) = Len(nest) + 1 /\ Len(nest) \in Nat /\ Len(open) \in 1..Len(open) /\ open # <<>>
         /\ open[Len(open)].first \in 1..(Len(leaves) + 1)
         /\ Stands(Node(kind, at, held), open[Len(open)])
         /\ open[Len(open)].kind = kind
         /\ at # 0 => Byte(open[Len(open)].first) = at
         /\ held = 1 => /\ TokensIn(leaves, open[Len(open)].first - 1) < next - 1
                        /\ open[Len(open)].first \in 1..Len(leaves)
         /\ \A k \in 1..Len(nest) : Stands(nest[k], open[k])
<1>1. Node(kind, at, held) \in Element /\ Len(nest) \in Nat /\ nest \in Seq(Element)
  BY DEF Node, Element, Nests
<1> DEFINE inner == Append(nest, Node(kind, at, held))
<1>2. /\ Len(inner) = Len(nest) + 1 /\ inner[Len(nest) + 1] = Node(kind, at, held)
      /\ \A k \in 1..Len(nest) : inner[k] = nest[k]
  BY <1>1
<1>3. Len(open) = Len(inner) /\ \A k \in 1..Len(open) : Stands(inner[k], open[k])
  BY DEF Nesting
<1> HIDE DEF inner
<1>4. Len(open) = Len(nest) + 1 /\ Len(open) \in 1..Len(open) /\ Len(open) # 0
  BY <1>1, <1>2, <1>3
<1>5. Stands(Node(kind, at, held), open[Len(open)])
  BY <1>2, <1>3, <1>4
<1>6. Node(kind, at, held).kind = kind /\ Node(kind, at, held).at = at /\ Node(kind, at, held).held = held
  BY DEF Node
<1>7. \A k \in 1..Len(nest) : Stands(nest[k], open[k])
  <2> TAKE k \in 1..Len(nest)
  <2>1. k \in 1..Len(open)
    BY <1>1, <1>4
  <2> QED
    BY <1>2, <1>3, <2>1
<1>8. open[Len(open)].first \in 1..(Len(leaves) + 1)
  BY <1>4, WholeIs DEF Nested
<1>9. ASSUME held = 1
      PROVE  TokensIn(leaves, open[Len(open)].first - 1) < next - 1 /\ open[Len(open)].first \in 1..Len(leaves)
  <2>1. TokensIn(leaves, open[Len(open)].first - 1) < next - 1
    BY <1>5, <1>6, <1>9 DEF Stands
  <2>2. open[Len(open)].first # Len(leaves) + 1
    <3> SUFFICES ASSUME open[Len(open)].first = Len(leaves) + 1  PROVE FALSE
      OBVIOUS
    <3>1. open[Len(open)].first - 1 = Len(leaves)
      BY WholeIs
    <3>2. TokensIn(leaves, Len(leaves)) < next - 1
      BY <2>1, <3>1
    <3> QED
      BY <3>2, AllTaken, WholeIs
  <2> QED
    BY <1>8, <2>1, <2>2, WholeIs
<1>10. open[Len(open)].kind = kind /\ (at # 0 => Byte(open[Len(open)].first) = at)
  BY <1>5, <1>6 DEF Stands
<1>11. open # <<>>
  BY <1>4
<1> QED
  BY <1>1, <1>4, <1>5, <1>7, <1>8, <1>9, <1>10, <1>11

\* Where a statement's value leaves the cursor, its line ends, or it was cut short.
LEMMA EndsStatement ==
  ASSUME Whole, Whole', Grows, Settled, next' = next, open' = open, nodes' = nodes, said' = said,
         Here' = TrailingLimit, Len(leaves) <= Len(leaves'), Len(leaves') \in Nat,
         NEW nest \in Nests, Nesting(Append(nest, Node("Statement", 0, 1)))
  PROVE  Known("trailed")'
<1>1. /\ Len(open) \in 1..Len(open)
      /\ TokensIn(leaves, open[Len(open)].first - 1) < next - 1
      /\ open[Len(open)].first \in 1..Len(leaves)
  <2>1. "Statement" \in NodeKinds /\ 0 \in Nat /\ 1 \in 0..1 /\ 1 = 1
    BY KindsAre
  <2> QED
    BY <2>1, TopStands
<1>2. PICK first, last : first = open[Len(open)].first /\ last = Len(leaves')
  OBVIOUS
<1>3. tokens' = tokens /\ (Gap(next))' = Gap(next) /\ (LineEnd(next))' = LineEnd(next)
  BY SameBytes DEF Grows
<1>4. first \in 1..Len(leaves) /\ first \in 1..last /\ first - 1 \in 0..Len(leaves) /\ last \in Nat
  BY <1>1, <1>2, WholeIs
<1>5. TokensIn(leaves, first - 1) \in Nat /\ TokensIn(leaves', first - 1) = TokensIn(leaves, first - 1)
  <2>1. first - 1 \in Nat
    BY <1>4
  <2> QED
    BY <1>4, <2>1, TokensGrow, TokensStay
<1>6. TokensIn(leaves', last) = next - 1 /\ Byte(last + 1)' = TrailingLimit
  <2>1. (Whole => TokensIn(leaves, Len(leaves)) = next - 1 /\ Byte(Len(leaves) + 1) = Here)'
    BY AllTakenIs, PTL
  <2>2. (TokensIn(leaves, Len(leaves)))' = TokensIn(leaves', last)
    BY <1>2 DEF TokensIn, IsTrivia
  <2>3. (Byte(Len(leaves) + 1))' = Byte(last + 1)'
    BY <1>2 DEF Byte
  <2> QED
    BY <2>1, <2>2, <2>3
<1>7. /\ TokensIn(leaves', last) + 1 = next /\ next \in 1..Len(tokens)
      /\ TokensIn(leaves', first - 1) + 1 < next /\ next # 1
  BY <1>1, <1>2, <1>5, <1>6, WholeIs
<1>8. /\ \/ ReportedAt("ValueMissing", Gap(next))'
         \/ \E block \in nodes' : Unclosed(block)' /\ first <= block.first /\ block.last <= last
         \/ Byte(last + 1)' = (LineEnd(next))'
      /\ AtLine'
  <2>1. CASE cursor = 0
    <3>1. TrailingLimit = LineEnd(next)
      BY <2>1, TrailStops, WholeIs DEF Here
    <3> QED
      BY <1>3, <1>6, <1>7, <3>1 DEF AtLine
  <2>2. CASE ReportedAt("ValueMissing", Gap(next))
    <3>1. ReportedAt("ValueMissing", Gap(next))'
      BY <1>3, <2>2 DEF ReportedAt
    <3> QED
      BY <3>1 DEF AtLine
  <2>3. CASE /\ next = Len(tokens)
             /\ \E block \in nodes : Unclosed(block) /\ \A k \in 1..Len(open) : open[k].first <= block.first
    <3>1. PICK block \in nodes : Unclosed(block) /\ \A k \in 1..Len(open) : open[k].first <= block.first
      BY <2>3
    <3>2. first <= block.first
      BY <1>1, <1>2, <3>1
    <3>3. block.first \in Nat /\ block.last \in Nat /\ block.last <= Len(leaves) /\ block.first <= block.last
      BY <3>1, WholeIs DEF Nested, Unclosed
    <3>4. block.last <= last
      BY <1>2, <3>3, WholeIs
    <3>5. block.first \in 1..(Len(leaves) + 1)
      BY <1>4, <3>2, <3>3, WholeIs
    <3>6. Unclosed(block)'
      BY <3>1, <3>5, UnclosedStays
    <3>7. AtLine'
      BY <1>3, <2>3 DEF AtLine
    <3> QED
      BY <3>1, <3>2, <3>4, <3>6, <3>7
  <2> QED
    BY <2>1, <2>2, <2>3 DEF Settled
<1>9. StatementEnds(open[Len(open)].first, Len(leaves))'
  <2>1. PICK i : i = next
    OBVIOUS
  <2>2. /\ TokensIn(leaves', last) + 1 = i /\ i \in 1..Len(tokens') /\ TokensIn(leaves', first - 1) + 1 < i
        /\ \/ ReportedAt("ValueMissing", Gap(i))'
           \/ \E block \in nodes' : Unclosed(block)' /\ first <= block.first /\ block.last <= last
           \/ Byte(last + 1)' = LineEnd(i)'
    BY <1>3, <1>7, <1>8, <2>1 DEF ReportedAt, Gap, LineEnd, LineFeeds
  <2>3. StatementEnds(first, last)'
    BY <1>4, <2>2 DEF StatementEnds, TokensIn, IsTrivia, ReportedAt, Unclosed, Byte, LineEnd, Gap, LineFeeds
  <2>4. open'[Len(open')].first = first /\ Len(leaves') = last
    BY <1>2
  <2> QED
    BY <2>3, <2>4 DEF StatementEnds, TokensIn, IsTrivia, ReportedAt, Unclosed, Byte, LineEnd, Gap, LineFeeds
<1> QED
  BY <1>8, <1>9 DEF Known

\* What each of the three calls takes, and what is known after it.
LEMMA PolicyEmitTrivia ==
  ASSUME Whole, Running \/ Ending, CommentsRead, Policy, EmitTrivia, UNCHANGED lexing
  PROVE  Policy'
<1>0. script # <<>> /\ Head(script)[1] \in {"flush", "detach", "trail"} /\ Whole'
  BY EmitTriviaStep DEF EmitTrivia, Reached, Parsed
<1>1. PICK p, r, q \in Spots : Act(Head(script), p, r) /\ Runs(Tail(script), r, q) /\ StandsAt(p)
  BY <1>0, AtCall DEF Policy
<1>2. Flush # Detach /\ Flush # Trail /\ Detach # Trail /\ Head(script) \in {Flush, Detach, Trail}
  <2>1. Flush[1] = "flush" /\ Detach[1] = "detach" /\ Trail[1] = "trail"
    BY Tags
  <2>2. Head(script) \in {Flush, Detach, Trail}
    BY <1>0, <1>1, ActIs
  <2> QED
    BY <2>1, <2>2
<1> DEFINE limit == CASE Head(script) = Flush -> TriviaEnd
                      [] Head(script) = Detach -> DetachedLimit
                      [] Head(script) = Trail -> TrailingLimit
<1>3. limit \in Here..TriviaEnd /\ limit \in {TriviaEnd, DetachedLimit, TrailingLimit}
      /\ (Head(script) = Flush => limit = TriviaEnd)
      /\ (Head(script) = Detach => limit = DetachedLimit)
      /\ (Head(script) = Trail => limit = TrailingLimit)
  <2>1. Unemitted = Here /\ Here \in Nat /\ TriviaEnd \in Nat /\ Here <= TriviaEnd
    BY WholeIs, UnemittedIsHere
  <2>2. TrailingLimit \in Here..TriviaEnd /\ DetachedLimit \in Here..TriviaEnd /\ TriviaEnd \in Here..TriviaEnd
    BY <2>1, LimitsLie
  <2> QED
    BY <1>2, <2>2
<1>4. leaves' = leaves \o TriviaUpto(limit) /\ cursor' = Max2(Unemitted, limit)
  BY DEF EmitTrivia
<1> HIDE DEF limit
<1>5. Calls(<<>>) /\ next' = next /\ open' = open /\ nodes' = nodes /\ said' = said
  BY DEF EmitTrivia
<1>6. LeavesReach' /\ Here' = limit /\ Len(leaves) <= Len(leaves')
  BY <1>3, <1>4, <1>5, WholeIs, EmitsTrivia
<1>7. Grows /\ LeavesRead' /\ Len(leaves') \in Nat
  BY <1>3, <1>4, <1>5, ReadingEmits DEF Policy
<1>8. /\ tokens' = tokens /\ source' = source /\ (Gap(next))' = Gap(next) /\ (LineEnd(next))' = LineEnd(next)
      /\ TriviaEnd' = TriviaEnd
  BY <1>5, SameBytes
<1>9. CursorBetween'
  <2>1. limit = TriviaEnd \/ limit = Here \/ source[limit - 1] = "lf"
    BY <1>3, WholeIs, LimitsFeed
  <2>2. CursorBetween
    BY DEF Policy, Drawn
  <2> QED
    BY <1>6, <1>8, <2>1, <2>2 DEF CursorBetween
<1>10. StatementsKeep'
  BY <1>5, <1>7, KeepStays DEF Policy, Drawn
<1>11. p.nest \in Nests /\ p.mode \in Modes /\ p.byte \in Nat /\ Nesting(p.nest) /\ Known(p.mode)
       /\ (p.byte # 0 => TriviaEnd = p.byte)
  BY <1>1, SpotSame DEF StandsAt
<1>12. Nesting(p.nest)'
  <2>1. next' \in Nat /\ next <= next'
    BY <1>5, WholeIs
  <2> QED
    BY <1>5, <1>7, <1>11, <2>1, NestingStays
<1>13. CASE Head(script) = Flush /\ r = Spot(p.nest, "flushed", p.byte)
  <2>1. Known("flushed")'
    BY <1>3, <1>6, <1>8, <1>13 DEF Known
  <2>2. r.nest = p.nest /\ r.mode = "flushed" /\ r.byte = p.byte
    BY <1>13 DEF Spot
  <2> QED
    BY <1>8, <1>11, <1>12, <2>1, <2>2, <1>0, <1>1, <1>5, <1>7, <1>9, <1>10, PromisesNext DEF StandsAt, Policy, Drawn
<1>14. CASE Head(script) = Flush /\ p.mode = "unclosed" /\ r = Spot(p.nest, "unclosed", 0)
  <2>1. /\ next = Len(tokens) /\ open # <<>> /\ ReportedAt("BraceUnbalanced", Byte(open[Len(open)].first))
    BY <1>11, <1>14 DEF Known
  <2>2. PICK first : first = open[Len(open)].first
    OBVIOUS
  <2>3. first \in 1..(Len(leaves) + 1)
    <3>1. Len(open) \in 1..Len(open)
      BY <2>1, EmptySeq, WholeIs
    <3> QED
      BY <2>2, <3>1, WholeIs DEF Nested
  <2>4. Byte(first)' = Byte(first)
    BY <1>7, <2>3, BytesStay
  <2>5. ReportedAt("BraceUnbalanced", Byte(open[Len(open)].first))'
    <3>1. [code |-> "BraceUnbalanced", at |-> Byte(first)] \in said'
      BY <1>5, <2>1, <2>2 DEF ReportedAt
    <3>2. open'[Len(open')].first = first
      BY <1>5, <2>2
    <3> QED
      BY <2>4, <3>1, <3>2 DEF ReportedAt, Byte
  <2>6. Known("unclosed")'
    BY <1>5, <1>8, <2>1, <2>5 DEF Known
  <2>7. r.nest = p.nest /\ r.mode = "unclosed" /\ r.byte = 0
    BY <1>14 DEF Spot
  <2> QED
    BY <1>12, <2>6, <2>7, <1>0, <1>1, <1>5, <1>7, <1>9, <1>10, PromisesNext DEF StandsAt, Policy, Drawn
<1>15. CASE Head(script) = Detach /\ p.mode \in {"bare", "ready"} /\ r = Spot(p.nest, "detached", 0)
  <2>1. AtLine
    BY <1>11, <1>15 DEF Known, AtLine
  <2>2. PICK i, byte : i = next /\ byte = DetachedLimit
    OBVIOUS
  <2>3. Parted(i, byte)'
    BY <1>7, <2>1, <2>2, WholeIs, DetachParts, PartedStays
  <2>4. next' = i /\ Here' = byte
    BY <1>3, <1>5, <1>6, <1>15, <2>2
  <2>5. Parted(next, Here)'
    BY <2>3, <2>4 DEF Parted, ReportedAt, Gap
  <2>6. Known("detached")'
    BY <2>5 DEF Known
  <2>7. r.nest = p.nest /\ r.mode = "detached" /\ r.byte = 0
    BY <1>15 DEF Spot
  <2> QED
    BY <1>12, <2>6, <2>7, <1>0, <1>1, <1>5, <1>7, <1>9, <1>10, PromisesNext DEF StandsAt, Policy, Drawn
<1>16. CASE /\ Head(script) = Trail /\ p.mode \in Ends /\ r = Spot(p.nest, "trailed", 0)
            /\ \E nest \in Nests : p.nest = Append(nest, Node("Statement", 0, 1))
  <2>1. Settled
    BY <1>11, <1>16 DEF Known, Settled, Ends
  <2>2. PICK nest \in Nests : p.nest = Append(nest, Node("Statement", 0, 1))
    BY <1>16
  <2>3. Known("trailed")'
    BY <1>0, <1>3, <1>5, <1>6, <1>7, <1>11, <1>16, <2>1, <2>2, EndsStatement
  <2>4. r.nest = p.nest /\ r.mode = "trailed" /\ r.byte = 0
    BY <1>16 DEF Spot
  <2> QED
    BY <1>12, <2>3, <2>4, <1>0, <1>1, <1>5, <1>7, <1>9, <1>10, PromisesNext DEF StandsAt, Policy, Drawn
<1>17. \/ Head(script) = Flush /\ r = Spot(p.nest, "flushed", p.byte)
       \/ Head(script) = Flush /\ p.mode = "unclosed" /\ r = Spot(p.nest, "unclosed", 0)
       \/ Head(script) = Detach /\ p.mode \in {"bare", "ready"} /\ r = Spot(p.nest, "detached", 0)
       \/ /\ Head(script) = Trail /\ p.mode \in Ends /\ r = Spot(p.nest, "trailed", 0)
          /\ \E nest \in Nests : p.nest = Append(nest, Node("Statement", 0, 1))
  <2>1. Act(Head(script), p, r)
    BY <1>1
  <2>2. CASE Head(script)[1] = "flush"
    BY <2>1, <2>2, ActIs
  <2>3. CASE Head(script)[1] = "detach"
    BY <2>1, <2>3, ActIs
  <2>4. CASE Head(script)[1] = "trail"
    BY <2>1, <2>4, ActIs
  <2> QED
    BY <1>0, <2>2, <2>3, <2>4
<1> QED
  BY <1>13, <1>14, <1>15, <1>16, <1>17

\* What a token step leaves is the file read up to the token's end.
LEMMA TokenRead ==
  ASSUME Whole, CommentsRead, Drawn, EmitToken, UNCHANGED lexing, next < Len(tokens)
  PROVE  Grows /\ LeavesRead' /\ Len(leaves') \in Nat
<1>1. TriviaEnd \in Here..TriviaEnd
  <2>1. Here \in Nat /\ TriviaEnd \in Nat /\ Here <= TriviaEnd
    BY WholeIs, UnemittedIsHere
  <2> QED
    BY <2>1
<1>2. /\ TriviaUpto(TriviaEnd) \in Seq(TriviaPieces)
      /\ \A k \in 1..Len(TriviaUpto(TriviaEnd)) :
           /\ TriviaUpto(TriviaEnd)[k].from < TriviaUpto(TriviaEnd)[k].to
           /\ TriviaUpto(TriviaEnd)[k].kind = "Comment" =>
                CommentSpan(TriviaUpto(TriviaEnd)[k].from, TriviaUpto(TriviaEnd)[k].to)
  BY <1>1, WholeIs, UptoReads DEF Drawn
<1>3. PICK run \in Seq(TriviaPieces) : run = TriviaUpto(TriviaEnd)
  BY <1>2
<1>4. leaves \in Seq(Leaves) /\ Len(leaves) \in Nat /\ Len(run) \in Nat
  BY WholeIs
<1>5. PICK token \in Leaves : /\ leaves' = Append(leaves \o run, token)
                              /\ token.from < token.to /\ token.kind # "Comment"
  <2>1. leaves' = Append(leaves \o run, LeafOf(next))
    BY <1>3, WholeIs, AtToken DEF EmitToken, LeafOf, Kind
  <2>2. tokens[next] \in Tokens /\ tokens[next].from < tokens[next].to
    BY WholeIs, Read
  <2>3. tokens[next].kind \in TokenKinds /\ tokens[next].from \in Nat /\ tokens[next].to \in Nat
    BY <2>2 DEF Tokens
  <2>4. LeafOf(next) \in Leaves /\ LeafOf(next).from < LeafOf(next).to /\ LeafOf(next).kind = tokens[next].kind
    BY <2>2, <2>3 DEF LeafOf, Leaves
  <2>5. "Comment" \notin TokenKinds
    BY DEF TokenKinds
  <2> QED
    BY <2>1, <2>3, <2>4, <2>5
<1>6. /\ Len(leaves') = Len(leaves) + Len(run) + 1
      /\ \A i \in 1..Len(leaves) : leaves'[i] = leaves[i]
      /\ \A i \in (Len(leaves) + 1)..(Len(leaves) + Len(run)) : leaves'[i] = run[i - Len(leaves)]
      /\ leaves'[Len(leaves) + Len(run) + 1] = token
  <2> DEFINE more == leaves \o run
  <2>1. /\ more \in Seq(Leaves \cup TriviaPieces) /\ Len(more) = Len(leaves) + Len(run)
        /\ \A i \in 1..Len(leaves) : more[i] = leaves[i]
        /\ \A i \in (Len(leaves) + 1)..(Len(leaves) + Len(run)) : more[i] = run[i - Len(leaves)]
    BY <1>4
  <2>2. leaves' = Append(more, token)
    BY <1>5
  <2> HIDE DEF more
  <2>3. /\ Len(leaves') = Len(more) + 1 /\ \A i \in 1..Len(more) : leaves'[i] = more[i]
        /\ leaves'[Len(more) + 1] = token
    BY <2>1, <2>2
  <2> QED
    BY <1>4, <2>1, <2>3
<1>7. Grows
  BY <1>4, <1>6 DEF Grows, EmitToken
<1>8. ASSUME NEW i \in 1..Len(leaves')
      PROVE  /\ leaves'[i].from < leaves'[i].to
             /\ leaves'[i].kind = "Comment" => CommentSpan(leaves'[i].from, leaves'[i].to)
  <2>1. CASE i \in 1..Len(leaves)
    BY <1>6, <2>1 DEF Drawn, LeavesRead
  <2>2. CASE i = Len(leaves) + Len(run) + 1
    BY <1>5, <1>6, <2>2
  <2>3. CASE i \notin 1..Len(leaves) /\ i # Len(leaves) + Len(run) + 1
    <3>0. i \in (Len(leaves) + 1)..(Len(leaves) + Len(run))
      <4>1. Len(leaves') = Len(leaves) + Len(run) + 1
        BY <1>6
      <4> QED
        BY <1>4, <2>3, <4>1
    <3>1. i - Len(leaves) \in 1..Len(run) /\ leaves'[i] = run[i - Len(leaves)]
      BY <1>4, <1>6, <3>0
    <3> QED
      BY <1>2, <1>3, <3>1
  <2> QED
    BY <2>1, <2>2, <2>3
<1>9. source' = source
  BY DEF lexing
<1> QED
  BY <1>4, <1>6, <1>7, <1>8, <1>9 DEF LeavesRead, CommentSpan, LineFeeds

\* After a token nothing of what is before the next has been emitted, and what is
\* open holds it.
LEMMA PolicyEmitToken ==
  ASSUME Whole, Running \/ Ending, CommentsRead, Policy, EmitToken, UNCHANGED lexing
  PROVE  Policy'
<1>0. script # <<>> /\ Head(script)[1] = "token" /\ Whole'
  BY EmitTokenStep DEF EmitToken, Reached, Parsed
<1>1. PICK p, r, q \in Spots : Act(Head(script), p, r) /\ Runs(Tail(script), r, q) /\ StandsAt(p)
  BY <1>0, AtCall DEF Policy
<1>2. /\ r.mode \in Ends /\ r.byte = 0
      /\ \/ r.nest = p.nest
         \/ \E nest \in Nests, kind \in NodeKinds, at \in Nat :
              p.nest = Append(nest, Node(kind, at, 0)) /\ r.nest = Append(nest, Node(kind, at, 1))
  BY <1>0, <1>1, ActIs
<1>3. /\ next' = next + 1 /\ cursor' = 0 /\ open' = open /\ nodes' = nodes /\ said' = said
      /\ Calls(<<>>) /\ tokens' = tokens
  BY DEF EmitToken, lexing
<1>4. next < Len(tokens) /\ next \in Nat /\ next' \in Nat /\ next <= next'
  <2>1. Whole' => next' \in 1..Len(tokens')
    BY DEF Whole, Reading
  <2> QED
    BY <1>0, <1>3, <2>1, WholeIs
<1>5. Grows /\ LeavesRead' /\ Len(leaves') \in Nat
  BY <1>4, TokenRead DEF Policy
<1>6. CursorBetween'
  BY <1>3 DEF CursorBetween, Here
<1>7. StatementsKeep'
  BY <1>3, <1>5, KeepStays DEF Policy, Drawn
<1>8. p.nest \in Nests /\ Nesting(p.nest)'
  BY <1>1, <1>3, <1>4, <1>5, SpotSame, NestingStays DEF StandsAt
<1>9. Known(r.mode)'
  BY <1>2, <1>3 DEF Known, Ends, Settled
<1>10. Nesting(r.nest)'
  <2>1. CASE r.nest = p.nest
    BY <1>8, <2>1
  <2>2. ASSUME NEW nest \in Nests, NEW kind \in NodeKinds, NEW at \in Nat,
               p.nest = Append(nest, Node(kind, at, 0)), r.nest = Append(nest, Node(kind, at, 1))
        PROVE  Nesting(r.nest)'
    <3> DEFINE first == open[Len(open)].first
    <3>1. /\ Len(open) = Len(nest) + 1 /\ Len(open) \in 1..Len(open) /\ Len(nest) \in Nat
          /\ first \in 1..(Len(leaves) + 1)
      BY <1>1, <2>2, TopStands DEF StandsAt
    <3>2. /\ Node(kind, at, 0) \in Element /\ Node(kind, at, 1) \in Element
          /\ Node(kind, at, 0).kind = kind /\ Node(kind, at, 1).kind = kind
          /\ Node(kind, at, 0).at = at /\ Node(kind, at, 1).at = at
      BY DEF Node, Element
    <3>3. /\ Len(p.nest) = Len(nest) + 1 /\ p.nest[Len(nest) + 1] = Node(kind, at, 0)
          /\ \A k \in 1..Len(nest) : p.nest[k] = nest[k]
          /\ Len(r.nest) = Len(nest) + 1 /\ r.nest[Len(nest) + 1] = Node(kind, at, 1)
          /\ \A k \in 1..Len(nest) : r.nest[k] = nest[k]
      BY <2>2, <3>2 DEF Nests
    <3>4. \A k \in 1..Len(open) : Stands(p.nest[k], open[k])'
      BY <1>3, <1>8 DEF Nesting
    <3>5. TokensIn(leaves', first - 1) < next' - 1
      <4>1. first - 1 \in 0..Len(leaves) /\ first - 1 \in Nat /\ first - 1 <= Len(leaves) /\ Len(leaves) \in Nat
        BY <3>1, WholeIs
      <4>2. TokensIn(leaves', first - 1) = TokensIn(leaves, first - 1)
        BY <1>5, <4>1, TokensStay
      <4>3. TokensIn(leaves, first - 1) <= TokensIn(leaves, Len(leaves)) /\ TokensIn(leaves, first - 1) \in Nat
        BY <4>1, TokensGrow
      <4> QED
        BY <1>3, <1>4, <4>2, <4>3, AllTaken
    <3>6. Stands(Node(kind, at, 1), open[Len(open)])'
      <4>1. Stands(Node(kind, at, 0), open[Len(open)])'
        BY <1>3, <3>1, <3>3, <3>4 DEF Stands, Byte, TokensIn, IsTrivia
      <4>2. open'[Len(open')].first = first
        BY <1>3
      <4> QED
        BY <3>2, <3>5, <4>1, <4>2 DEF Stands, Byte, TokensIn, IsTrivia
    <3> HIDE DEF first
    <3>7. ASSUME NEW k \in 1..Len(open)
          PROVE  Stands(r.nest[k], open[k])'
      <4>1. CASE k = Len(open)
        BY <1>3, <3>1, <3>3, <3>6, <4>1 DEF Stands, Byte, TokensIn, IsTrivia
      <4>2. CASE k # Len(open)
        <5>1. k \in 1..Len(nest) /\ r.nest[k] = p.nest[k]
          BY <3>1, <3>3, <4>2
        <5> QED
          BY <3>4, <5>1
      <4> QED
        BY <4>1, <4>2
    <3>8. (\A k \in 1..Len(open) : Stands(r.nest[k], open[k]))'
      BY <1>3, <3>7
    <3>9. Len(open') = Len(r.nest)
      BY <1>3, <3>1, <3>3
    <3> QED
      BY <3>8, <3>9 DEF Nesting
  <2> QED
    BY <1>2, <2>1, <2>2
<1>11. StandsAt(r)'
  BY <1>2, <1>9, <1>10 DEF StandsAt
<1> QED
  BY <1>0, <1>1, <1>3, <1>5, <1>6, <1>7, <1>11, PromisesNext DEF Policy, Drawn

-----------------------------------------------------------------------------
(* The calls that open and close nodes *)

\* A node opened where a nest says.
LEMMA NestingOpens ==
  ASSUME Whole, NEW nest \in Nests, Nesting(nest), NEW kind \in NodeKinds, NEW at \in Nat,
         NEW first, at # 0 => Byte(first) = at,
         open' = Append(open, [kind |-> kind, first |-> first]), leaves' = leaves, next' = next
  PROVE  Nesting(Append(nest, Node(kind, at, 0)))'
<1>1. Node(kind, at, 0) \in Element /\ Len(nest) \in Nat /\ nest \in Seq(Element)
  BY DEF Node, Element, Nests
<1>2. PICK inner : inner = Append(nest, Node(kind, at, 0))
  OBVIOUS
<1>3. /\ Len(inner) = Len(nest) + 1 /\ inner[Len(nest) + 1] = Node(kind, at, 0)
      /\ \A k \in 1..Len(nest) : inner[k] = nest[k]
  BY <1>1, <1>2
<1>4. Len(open) = Len(nest) /\ \A k \in 1..Len(open) : Stands(nest[k], open[k])
  BY DEF Nesting
<1>5. /\ Len(open') = Len(open) + 1 /\ open'[Len(open) + 1] = [kind |-> kind, first |-> first]
      /\ \A k \in 1..Len(open) : open'[k] = open[k]
  <2>1. open \in Seq(Opened)
    BY WholeIs
  <2> QED
    BY <2>1
<1>6. ASSUME NEW k \in 1..Len(open')
      PROVE  Stands(inner[k], open[k])'
  <2>1. CASE k \in 1..Len(open)
    <3>1. Stands(nest[k], open[k]) /\ inner[k] = nest[k] /\ open'[k] = open[k]
      BY <1>3, <1>4, <1>5, <2>1
    <3> QED
      BY <3>1 DEF Stands, Byte, TokensIn, IsTrivia
  <2>2. CASE k = Len(open) + 1
    <3>1. inner[k] = Node(kind, at, 0) /\ open'[k] = [kind |-> kind, first |-> first]
      BY <1>3, <1>4, <1>5, <2>2
    <3>2. Node(kind, at, 0).kind = kind /\ Node(kind, at, 0).at = at /\ Node(kind, at, 0).held = 0
      BY DEF Node
    <3>3. open'[k].kind = kind /\ open'[k].first = first
      BY <3>1
    <3> QED
      BY <3>1, <3>2, <3>3 DEF Stands, Byte, TokensIn, IsTrivia
  <2> QED
    BY <1>1, <1>4, <1>5, <2>1, <2>2
<1>7. (\A k \in 1..Len(open) : Stands(inner[k], open[k]))'
  BY <1>6
<1>8. Nesting(inner)'
  BY <1>1, <1>3, <1>4, <1>5, <1>7 DEF Nesting
<1> QED
  BY <1>2, <1>8

\* The finished statements stay what they are.
LEMMA FinishedStay ==
  ASSUME Whole, Grows, StatementsKeep, leaves' = leaves
  PROVE  \A n \in nodes : n.kind = "Statement" => StatementStarts(n.first)' /\ StatementEnds(n.first, n.last)'
<1> SUFFICES ASSUME NEW n \in nodes, n.kind = "Statement"
             PROVE  StatementStarts(n.first)' /\ StatementEnds(n.first, n.last)'
  OBVIOUS
<1>1. StatementStarts(n.first) /\ StatementEnds(n.first, n.last)
  BY DEF StatementsKeep
<1>2. n.first \in Nat /\ n.last \in Nat /\ n.last <= Len(leaves) /\ Len(leaves) \in Nat
  BY WholeIs DEF Nested
<1>3. n.first \in 1..n.last
  BY <1>1 DEF StatementEnds
<1>4. n.first \in 1..(Len(leaves) + 1) /\ n.last \in 0..Len(leaves)
  BY <1>2, <1>3
<1>5. PICK first, last : first = n.first /\ last = n.last
  OBVIOUS
<1>6. StatementStarts(first)' /\ StatementEnds(first, last)'
  BY <1>1, <1>2, <1>4, <1>5, StartStays, EndStays
<1> QED
  BY <1>5, <1>6

\* Nothing is emitted and nothing is reported.
LEMMA UnmovedStays ==
  ASSUME Whole, Drawn, UNCHANGED lexing, next' = next, cursor' = cursor, leaves' = leaves, said' = said,
         nodes \subseteq nodes'
  PROVE  Grows /\ LeavesRead' /\ CursorBetween' /\ Here' = Here /\ TriviaEnd' = TriviaEnd
<1>1. Grows
  BY WholeIs DEF Grows
<1>2. /\ source' = source /\ (Gap(next))' = Gap(next) /\ TriviaEnd' = TriviaEnd
  BY SameBytes
<1>3. Here' = Here
  BY WholeKept
<1>4. LeavesRead'
  BY <1>2 DEF Drawn, LeavesRead, CommentSpan, LineFeeds
<1>5. CursorBetween'
  <2>1. CursorBetween
    BY DEF Drawn
  <2> QED
    BY <1>2, <1>3, <2>1 DEF CursorBetween
<1> QED
  BY <1>1, <1>2, <1>3, <1>4, <1>5

\* A statement starts where its comments were divided, a block where it was flushed to.
LEMMA PolicyStartNode ==
  ASSUME Whole, Running \/ Ending, Policy, StartNode, UNCHANGED lexing
  PROVE  Policy'
<1>0. script # <<>> /\ Head(script)[1] \in {"start", "wrap"}
  BY DEF StartNode, Reached, Parsed
<1>1. PICK p, r, q \in Spots : Act(Head(script), p, r) /\ Runs(Tail(script), r, q) /\ StandsAt(p)
  BY <1>0, AtCall DEF Policy
<1>2. \/ \E kind \in PlainKinds :
           /\ Head(script) = Start(kind) \/ Head(script) = Wrap(kind)
           /\ r.nest = Append(p.nest, Node(kind, 0, 0)) /\ r.byte = 0
           /\ r.mode = "any" \/ (r.mode = "bare" /\ p.mode = "bare")
      \/ /\ Head(script) = Start("Statement")
         /\ p.mode = "detached" /\ r = Spot(Append(p.nest, Node("Statement", 0, 0)), "any", 0)
      \/ /\ Head(script) = Start("Block")
         /\ p.mode = "flushed" /\ p.byte # 0 /\ r = Spot(Append(p.nest, Node("Block", p.byte, 0)), "any", 0)
  BY <1>0, <1>1, ActIs
<1>3. /\ UNCHANGED <<next, cursor, leaves, nodes, said>> /\ Calls(<<>>) /\ tokens' = tokens
      /\ open' = Append(open, [kind |-> Argument, first |-> IF Reached("wrap") THEN Len(leaves) ELSE Len(leaves) + 1])
  BY DEF StartNode, lexing
<1>4. Grows /\ LeavesRead' /\ CursorBetween' /\ Here' = Here /\ TriviaEnd' = TriviaEnd
  BY <1>3, UnmovedStays DEF Policy
<1>5. p.nest \in Nests /\ p.mode \in Modes /\ p.byte \in Nat /\ Nesting(p.nest) /\ Known(p.mode)
      /\ (p.byte # 0 => TriviaEnd = p.byte)
  BY <1>1, SpotSame DEF StandsAt
<1> DEFINE first == IF Reached("wrap") THEN Len(leaves) ELSE Len(leaves) + 1
<1>6. ASSUME NEW kind \in NodeKinds, NEW at \in Nat,
             Argument = kind, r.nest = Append(p.nest, Node(kind, at, 0)), r.byte = 0,
             at # 0 => Byte(first) = at,
             kind = "Statement" => StatementStarts(first) /\ first \in 1..(Len(leaves) + 1),
             r.mode = "any" \/ (r.mode = "bare" /\ p.mode = "bare")
      PROVE  Policy'
  <2>1. open' = Append(open, [kind |-> kind, first |-> first])
    BY <1>3, <1>6
  <2>2. Nesting(r.nest)'
    <3>1. Nesting(Append(p.nest, Node(kind, at, 0)))'
      BY <1>3, <1>5, <1>6, <2>1, NestingOpens
    <3> QED
      BY <1>6, <3>1
  <2>3. Known(r.mode)'
    BY <1>3, <1>5, <1>6 DEF Known
  <2>4. StandsAt(r)'
    BY <1>6, <2>2, <2>3 DEF StandsAt
  <2>5. /\ Len(open') = Len(open) + 1 /\ open'[Len(open) + 1] = [kind |-> kind, first |-> first]
        /\ \A k \in 1..Len(open) : open'[k] = open[k]
    <3>1. open \in Seq(Opened)
      BY WholeIs
    <3> QED
      BY <2>1, <3>1
  <2>6. PICK start : start = first
    OBVIOUS
  <2>7. ASSUME NEW k \in 1..Len(open'), open'[k].kind = "Statement"
        PROVE  StatementStarts(open[k].first)'
    <3>1. CASE k \in 1..Len(open)
      <4>1. PICK older : older = open[k].first
        OBVIOUS
      <4>2. older \in 1..(Len(leaves) + 1)
        BY <3>1, <4>1, WholeIs DEF Nested
      <4>3. StatementStarts(older)
        BY <2>5, <2>7, <3>1, <4>1 DEF Policy, Drawn, StatementsKeep
      <4>4. StatementStarts(older)' /\ open'[k].first = older
        BY <1>4, <2>5, <3>1, <4>1, <4>2, <4>3, StartStays
      <4> QED
        BY <4>4 DEF StatementStarts, Parted, TokensIn, IsTrivia, Byte
    <3>2. CASE k = Len(open) + 1
      <4>1. open'[k].kind = kind /\ open'[k].first = start
        BY <2>5, <2>6, <3>2
      <4>2. StatementStarts(start) /\ start \in 1..(Len(leaves) + 1)
        BY <1>6, <2>6, <2>7, <4>1
      <4>3. StatementStarts(start)'
        BY <1>4, <4>2, StartStays
      <4> QED
        BY <4>1, <4>3 DEF StatementStarts, Parted, TokensIn, IsTrivia, Byte
    <3> QED
      BY <2>5, <3>1, <3>2, WholeIs
  <2>8. (\A k \in 1..Len(open) : open[k].kind = "Statement" => StatementStarts(open[k].first))'
    BY <2>7
  <2>9. (\A n \in nodes : n.kind = "Statement" => StatementStarts(n.first) /\ StatementEnds(n.first, n.last))'
    BY <1>3, <1>4, FinishedStay DEF Policy, Drawn
  <2>10. StatementsKeep'
    BY <2>8, <2>9 DEF StatementsKeep
  <2> QED
    BY <1>0, <1>1, <1>3, <1>4, <2>4, <2>10, PromisesNext DEF Policy, Drawn
<1>7. ASSUME Head(script)[1] = "start"
      PROVE  first = Len(leaves) + 1 /\ first \in 1..(Len(leaves) + 1)
  <2>1. ~Reached("wrap")
    BY <1>7 DEF Reached
  <2> QED
    BY <2>1, WholeIs
<1> HIDE DEF first
<1>8. \A kind : Start(kind)[1] = "start" /\ Start(kind)[2] = kind /\ Wrap(kind)[2] = kind
  BY DEF Start, Wrap
<1>9. CASE \E kind \in PlainKinds :
             /\ Head(script) = Start(kind) \/ Head(script) = Wrap(kind)
             /\ r.nest = Append(p.nest, Node(kind, 0, 0)) /\ r.byte = 0
             /\ r.mode = "any" \/ (r.mode = "bare" /\ p.mode = "bare")
  <2>1. PICK kind \in PlainKinds :
             /\ Head(script) = Start(kind) \/ Head(script) = Wrap(kind)
             /\ r.nest = Append(p.nest, Node(kind, 0, 0)) /\ r.byte = 0
             /\ r.mode = "any" \/ (r.mode = "bare" /\ p.mode = "bare")
    BY <1>9
  <2>2. kind \in NodeKinds /\ kind # "Statement" /\ 0 \in Nat /\ ~(0 # 0) /\ Argument = kind
    BY <1>8, <2>1, KindsAre DEF Argument
  <2> QED
    BY <1>6, <2>1, <2>2
<1>10. CASE /\ Head(script) = Start("Statement")
            /\ p.mode = "detached" /\ r = Spot(Append(p.nest, Node("Statement", 0, 0)), "any", 0)
  <2>1. Argument = "Statement" /\ first = Len(leaves) + 1 /\ first \in 1..(Len(leaves) + 1) /\ "Statement" \in NodeKinds
    BY <1>7, <1>8, <1>10, KindsAre DEF Argument
  <2>2. r.nest = Append(p.nest, Node("Statement", 0, 0)) /\ r.mode = "any" /\ r.byte = 0
    BY <1>10 DEF Spot
  <2>3. StatementStarts(first)
    <3>1. Parted(next, Here)
      BY <1>5, <1>10 DEF Known
    <3>2. first - 1 = Len(leaves) /\ next \in Nat
      BY <2>1, WholeIs
    <3>3. TokensIn(leaves, first - 1) + 1 = next /\ Byte(first) = Here
      BY <2>1, <3>2, AllTaken
    <3> QED
      BY <3>1, <3>3 DEF StatementStarts
  <2> QED
    BY <1>6, <2>1, <2>2, <2>3
<1>11. CASE /\ Head(script) = Start("Block")
            /\ p.mode = "flushed" /\ p.byte # 0 /\ r = Spot(Append(p.nest, Node("Block", p.byte, 0)), "any", 0)
  <2>1. Argument = "Block" /\ first = Len(leaves) + 1 /\ "Block" \in NodeKinds /\ "Block" # "Statement"
    BY <1>7, <1>8, <1>11, KindsAre DEF Argument
  <2>2. r.nest = Append(p.nest, Node("Block", p.byte, 0)) /\ r.mode = "any" /\ r.byte = 0
    BY <1>11 DEF Spot
  <2>3. Byte(first) = p.byte
    <3>1. Here = TriviaEnd /\ TriviaEnd = p.byte
      BY <1>5, <1>11 DEF Known
    <3> QED
      BY <2>1, <3>1, AllTaken
  <2> QED
    BY <1>5, <1>6, <2>1, <2>2, <2>3
<1> QED
  BY <1>2, <1>9, <1>10, <1>11

\* The nest without its top.
LEMMA NestingCloses ==
  ASSUME Whole, NEW nest \in Nests, NEW kind \in NodeKinds, NEW at \in Nat, NEW held \in 0..1,
         Nesting(Append(nest, Node(kind, at, held))), open' = Front(open), leaves' = leaves, next' = next
  PROVE  /\ Nesting(nest)'
         /\ Len(open') = Len(open) - 1 /\ \A k \in 1..Len(open') : open'[k] = open[k] /\ k \in 1..Len(open)
<1>1. /\ Len(open) = Len(nest) + 1 /\ Len(nest) \in Nat /\ \A k \in 1..Len(nest) : Stands(nest[k], open[k])
      /\ open # <<>>
  BY TopStands
<1>2. /\ Len(open') = Len(open) - 1 /\ \A k \in 1..(Len(open) - 1) : open'[k] = open[k]
  <2>1. open' = SubSeq(open, 1, Len(open) - 1)
    BY DEF Front
  <2>2. 1 \in 1..(Len(open) + 1) /\ Len(open) - 1 \in 0..Len(open) /\ Len(open) \in Nat /\ open \in Seq(Opened)
    BY <1>1, WholeIs
  <2>3. /\ Len(open') = IF 1 <= Len(open) - 1 THEN (Len(open) - 1) - 1 + 1 ELSE 0
        /\ 1 <= Len(open) - 1 => \A k \in 1..((Len(open) - 1) - 1 + 1) : open'[k] = open[1 + k - 1]
    BY <2>1, <2>2, SubSeqProperties
  <2>4. Len(open') = Len(open) - 1
    BY <1>1, <2>2, <2>3
  <2>5. \A k \in 1..(Len(open) - 1) : open'[k] = open[k]
    <3> TAKE k \in 1..(Len(open) - 1)
    <3>1. 1 <= Len(open) - 1 /\ k \in 1..((Len(open) - 1) - 1 + 1) /\ 1 + k - 1 = k
      BY <2>2
    <3> QED
      BY <2>3, <3>1
  <2> QED
    BY <2>4, <2>5
<1>3. ASSUME NEW k \in 1..Len(open')
      PROVE  Stands(nest[k], open[k])'
  <2>1. open'[k] = open[k] /\ Stands(nest[k], open[k])
    BY <1>1, <1>2
  <2> QED
    BY <2>1 DEF Stands, Byte, TokensIn, IsTrivia
<1>4. (\A k \in 1..Len(open) : Stands(nest[k], open[k]))'
  BY <1>3
<1> QED
  BY <1>1, <1>2, <1>4 DEF Nesting

\* A statement is finished when its line was taken, an unclosed block once it is reported.
LEMMA PolicyFinishNode ==
  ASSUME Whole, Running \/ Ending, Policy, FinishNode, UNCHANGED lexing
  PROVE  Policy'
<1>0. script # <<>> /\ Head(script)[1] = "finish"
  BY DEF FinishNode, Reached, Parsed
<1>1. PICK p, r, q \in Spots : Act(Head(script), p, r) /\ Runs(Tail(script), r, q) /\ StandsAt(p)
  BY <1>0, AtCall DEF Policy
<1>2. /\ r.byte = 0
      /\ \E kind \in NodeKinds, at \in Nat, held \in 0..1 :
           /\ p.nest = Append(r.nest, Node(kind, at, held))
           /\ \/ kind = "Statement" /\ p.mode = "trailed" /\ r.mode = "ready"
              \/ /\ kind # "Statement"
                 /\ \/ p.mode = "bare" /\ r.mode \in Ends
                    \/ p.mode = "settled" /\ r.mode = "settled"
                    \/ kind = "Block" /\ held = 1 /\ p.mode = "unclosed" /\ r.mode = "settled"
                    \/ r.mode = "any"
  BY <1>0, <1>1, ActIs
<1>3. PICK kind \in NodeKinds, at \in Nat, held \in 0..1 :
           /\ p.nest = Append(r.nest, Node(kind, at, held))
           /\ \/ kind = "Statement" /\ p.mode = "trailed" /\ r.mode = "ready"
              \/ /\ kind # "Statement"
                 /\ \/ p.mode = "bare" /\ r.mode \in Ends
                    \/ p.mode = "settled" /\ r.mode = "settled"
                    \/ kind = "Block" /\ held = 1 /\ p.mode = "unclosed" /\ r.mode = "settled"
                    \/ r.mode = "any"
  BY <1>2
<1>4. /\ UNCHANGED <<next, cursor, leaves, said>> /\ Calls(<<>>) /\ tokens' = tokens
      /\ open' = Front(open)
      /\ nodes' = nodes \cup {[kind |-> open[Len(open)].kind, first |-> open[Len(open)].first, last |-> Len(leaves)]}
  BY DEF FinishNode, lexing
<1>5. Grows /\ LeavesRead' /\ CursorBetween' /\ Here' = Here /\ TriviaEnd' = TriviaEnd
  BY <1>4, UnmovedStays DEF Policy
<1>6. /\ p.mode \in Modes /\ r.nest \in Nests /\ Nesting(Append(r.nest, Node(kind, at, held))) /\ Known(p.mode)
  BY <1>1, <1>3, SpotSame DEF StandsAt
<1>7. /\ Len(open) \in 1..Len(open)
      /\ open[Len(open)].first \in 1..(Len(leaves) + 1)
      /\ open[Len(open)].kind = kind
      /\ held = 1 => open[Len(open)].first \in 1..Len(leaves)
  BY <1>6, TopStands
<1>8. /\ Nesting(r.nest)'
      /\ Len(open') = Len(open) - 1 /\ \A k \in 1..Len(open') : open'[k] = open[k] /\ k \in 1..Len(open)
  BY <1>4, <1>6, NestingCloses
<1>9. PICK first : first = open[Len(open)].first
  OBVIOUS
<1>10. PICK x : x = [kind |-> kind, first |-> first, last |-> Len(leaves)]
  OBVIOUS
<1>11. /\ nodes' = nodes \cup {x} /\ x.kind = kind /\ x.first = first /\ x.last = Len(leaves)
       /\ first \in 1..(Len(leaves) + 1) /\ first \in Nat /\ Len(leaves) \in Nat /\ Len(leaves) \in 0..Len(leaves)
  BY <1>4, <1>7, <1>9, <1>10, WholeIs
<1>12. kind = "Statement" => StatementStarts(first)' /\ StatementEnds(first, Len(leaves))'
  <2> SUFFICES ASSUME kind = "Statement"  PROVE StatementStarts(first)' /\ StatementEnds(first, Len(leaves))'
    OBVIOUS
  <2>1. StatementStarts(first)
    BY <1>7, <1>9 DEF Policy, Drawn, StatementsKeep
  <2>2. StatementEnds(first, Len(leaves))
    BY <1>3, <1>6, <1>9 DEF Known
  <2>3. PICK last : last = Len(leaves)
    OBVIOUS
  <2>4. StatementStarts(first)' /\ StatementEnds(first, last)'
    BY <1>5, <1>11, <2>1, <2>2, <2>3, StartStays, EndStays
  <2>5. Len(leaves') = last
    BY <1>4, <2>3
  <2> QED
    BY <2>4, <2>5
<1>13. (\A n \in nodes : n.kind = "Statement" => StatementStarts(n.first) /\ StatementEnds(n.first, n.last))'
  <2> SUFFICES ASSUME NEW n \in nodes', n.kind = "Statement"
               PROVE  StatementStarts(n.first)' /\ StatementEnds(n.first, n.last)'
    OBVIOUS
  <2>1. CASE n \in nodes
    BY <1>4, <1>5, <2>1, FinishedStay DEF Policy, Drawn
  <2>2. CASE n = x
    <3>1. n.first = first /\ n.last = Len(leaves') /\ kind = "Statement"
      BY <1>4, <1>11, <2>2
    <3> QED
      BY <1>12, <3>1
         DEF StatementStarts, StatementEnds, Parted, TokensIn, IsTrivia, Byte, ReportedAt, Unclosed, LineEnd, Gap, LineFeeds
  <2> QED
    BY <1>11, <2>1, <2>2
<1>14. (\A k \in 1..Len(open) : open[k].kind = "Statement" => StatementStarts(open[k].first))'
  <2> SUFFICES ASSUME NEW k \in 1..Len(open'), open'[k].kind = "Statement"
               PROVE  StatementStarts(open[k].first)'
    OBVIOUS
  <2>1. PICK older : older = open[k].first
    OBVIOUS
  <2>2. older \in 1..(Len(leaves) + 1) /\ open'[k].first = older
    BY <1>8, <2>1, WholeIs DEF Nested
  <2>3. StatementStarts(older)
    BY <1>8, <2>1 DEF Policy, Drawn, StatementsKeep
  <2>4. StatementStarts(older)'
    BY <1>5, <2>2, <2>3, StartStays
  <2> QED
    BY <2>2, <2>4 DEF StatementStarts, Parted, TokensIn, IsTrivia, Byte
<1>15. StatementsKeep'
  BY <1>13, <1>14 DEF StatementsKeep
<1>16. /\ (Gap(next))' = Gap(next) /\ (LineEnd(next))' = LineEnd(next) /\ next' = next /\ said' = said
  BY <1>4, SameBytes
<1>17. Known(r.mode)'
  <2>1. CASE kind = "Statement" /\ p.mode = "trailed" /\ r.mode = "ready"
    <3>1. AtLine
      BY <1>6, <2>1 DEF Known
    <3>2. AtLine'
      BY <1>4, <1>5, <1>16, <3>1 DEF AtLine, ReportedAt
    <3> QED
      BY <2>1, <3>2 DEF Known
  <2>2. CASE p.mode = "bare" /\ r.mode \in Ends
    <3>1. cursor' = 0
      BY <1>4, <1>6, <2>2 DEF Known
    <3> QED
      BY <2>2, <3>1 DEF Known, Ends, Settled
  <2>3. CASE p.mode = "settled" /\ r.mode = "settled"
    <3>1. Settled
      BY <1>6, <2>3 DEF Known
    <3>2. CASE cursor = 0
      BY <1>4, <2>3, <3>2 DEF Known, Settled
    <3>3. CASE ReportedAt("ValueMissing", Gap(next))
      <4>1. ReportedAt("ValueMissing", Gap(next))'
        BY <1>16, <3>3 DEF ReportedAt
      <4> QED
        BY <2>3, <4>1 DEF Known, Settled
    <3>4. CASE /\ next = Len(tokens)
               /\ \E block \in nodes : Unclosed(block) /\ \A k \in 1..Len(open) : open[k].first <= block.first
      <4>1. PICK block \in nodes : Unclosed(block) /\ \A k \in 1..Len(open) : open[k].first <= block.first
        BY <3>4
      <4>2. Unclosed(block)'
        BY <1>4, <1>5, <4>1, UnclosedStays
      <4>3. block \in nodes' /\ \A k \in 1..Len(open') : open'[k].first <= block.first
        BY <1>8, <1>11, <4>1
      <4> QED
        BY <1>4, <2>3, <3>4, <4>2, <4>3 DEF Known, Settled
    <3> QED
      BY <3>1, <3>2, <3>3, <3>4 DEF Settled
  <2>4. CASE kind = "Block" /\ held = 1 /\ p.mode = "unclosed" /\ r.mode = "settled"
    <3>1. next = Len(tokens) /\ ReportedAt("BraceUnbalanced", Byte(first))
      BY <1>6, <1>9, <2>4 DEF Known
    <3>2. first <= Len(leaves)
      BY <1>7, <1>9, <2>4
    <3>3. Unclosed(x)
      BY <1>11, <2>4, <3>1, <3>2 DEF Unclosed
    <3>4. Unclosed(x)'
      BY <1>4, <1>5, <3>3, UnclosedStays
    <3>5. x \in nodes' /\ \A k \in 1..Len(open') : open'[k].first <= x.first
      <4>1. \A k \in 1..Len(open') : k \in 1..Len(open) /\ k < Len(open) /\ open'[k] = open[k]
        BY <1>7, <1>8, WholeIs
      <4>2. \A j, k \in 1..Len(open) : j < k => open[j].first <= open[k].first
        BY WholeIs DEF Nested
      <4> QED
        BY <1>7, <1>9, <1>11, <4>1, <4>2
    <3> QED
      BY <1>4, <2>4, <3>1, <3>4, <3>5 DEF Known, Settled
  <2>5. CASE r.mode = "any"
    BY <2>5 DEF Known
  <2> QED
    BY <1>3, <2>1, <2>2, <2>3, <2>4, <2>5
<1>18. StandsAt(r)'
  BY <1>2, <1>8, <1>17 DEF StandsAt
<1> QED
  BY <1>0, <1>1, <1>4, <1>5, <1>15, <1>18, PromisesNext DEF Policy, Drawn

LEMMA PolicyStep ==
  ASSUME Whole, Running \/ Ending, CommentsRead, Policy, ParserNext, UNCHANGED lexing
  PROVE  Policy'
BY PolicyEmitTrivia, PolicyEmitToken, PolicyStartNode, PolicyFinishNode, PolicyStatement, PolicyItemScalar,
   PolicyStrayItem, PolicyCloseBlock, PolicyEndFile, PolicyValue, PolicyAnnotation, PolicyAnnotationArguments,
   PolicyAnnotationArgument, PolicyBlock, PolicyScalarValue, PolicyMissing, PolicyIdentifierValue, PolicyScalar,
   PolicyTypeArgument, PolicyCallArgument, Zenon DEF ParserNext

-----------------------------------------------------------------------------
(* The policy is kept *)

\* The file's node is opened before its first item, at its first byte.
LEMMA StartsFile ==
  Turns(Start("File"), Spot(<<>>, "bare", 0), Spot(Append(<<>>, Node("File", 0, 0)), "bare", 0))
<1>1. <<>> \in Nests /\ 0 \in Nat /\ 0 \in 0..1 /\ "File" \in PlainKinds /\ "File" \in NodeKinds
  BY KindsAre DEF Nests
<1>2. PICK inner \in Nests : inner = Append(<<>>, Node("File", 0, 0))
  BY <1>1, NestIs
<1>3. PICK p \in Spots : p = Spot(<<>>, "bare", 0) /\ p.nest = <<>> /\ p.mode = "bare" /\ p.byte = 0
  BY <1>1, ModesAre, SpotIs
<1>4. PICK q \in Spots : q = Spot(inner, "bare", 0) /\ q.nest = inner /\ q.mode = "bare" /\ q.byte = 0
  BY <1>1, <1>2, ModesAre, SpotIs
<1>5. q.nest = Append(p.nest, Node("File", 0, 0))
  BY <1>2, <1>3, <1>4
<1>6. Act(Start("File"), p, q)
  BY <1>1, <1>3, <1>4, <1>5, Zenon DEF Act
<1>7. Start("File") \in Entries
  BY <1>1, CallsAre
<1> QED
  BY <1>2, <1>3, <1>4, <1>6, <1>7 DEF Turns

LEMMA PolicyStarts == LexerInvariant /\ Lexed /\ ParserInit => Policy
<1> SUFFICES ASSUME LexerInvariant, Lexed, ParserInit  PROVE Policy
  OBVIOUS
<1>1. next = 1 /\ cursor = 0 /\ leaves = <<>> /\ open = <<>> /\ nodes = {}
      /\ script = <<Start("File"), Items(0, {})>>
  BY DEF ParserInit
<1>2. Drawn
  <2>1. Len(leaves) = 0 /\ Len(open) = 0
    BY <1>1
  <2> QED
    BY <1>1, <2>1 DEF Drawn, LeavesRead, CursorBetween, Here, StatementsKeep
<1>3. <<>> \in Nests /\ {} \in Shapes
  BY DEF Nests, Shapes
<1>4. Runs(<<Start("File"), Items(0, {})>>, Spot(<<>>, "bare", 0), Spot(<<>>, "any", 0))
  <2>1. Turns(Items(0, {}), Spot(Append(<<>>, Node("File", 0, 0)), "bare", 0), Spot(<<>>, "any", 0))
    BY <1>3, ItemsOfFile
  <2> QED
    BY <2>1, StartsFile, RunsTwo
<1>5. StandsAt(Spot(<<>>, "bare", 0))
  <2>1. Nesting(<<>>)
    BY <1>1 DEF Nesting
  <2>2. Known("bare")
    BY <1>1 DEF Known
  <2> QED
    BY <1>3, <2>1, <2>2, ModesAre, StandsThere
<1>6. Promised
  <2>1. PICK p, q : p = Spot(<<>>, "bare", 0) /\ q = Spot(<<>>, "any", 0)
    OBVIOUS
  <2>2. p \in Spots /\ q \in Spots
    BY <1>3, <2>1, ModesAre, SpotIs
  <2> QED
    BY <1>1, <1>4, <1>5, <2>1, <2>2 DEF Promised
<1> QED
  BY <1>2, <1>6 DEF Policy

\* What the policy needs to be kept.
PolicyInvariant ==
  /\ ParserInvariant
  /\ CommentsRead
  /\ Lexed => Policy

LEMMA PolicyInit == ParsingInit => PolicyInvariant
<1>1. LexerInit => ~Lexed
  BY DEF LexerInit, Lexed
<1> QED
  BY <1>1, ParserInvariantInit, CommentsReadInit DEF ParsingInit, PolicyInvariant

LEMMA PolicyStutters ==
  ASSUME Whole, Policy, UNCHANGED parsing
  PROVE  Policy'
<1>1. UNCHANGED lexing /\ next' = next /\ cursor' = cursor /\ leaves' = leaves /\ open' = open /\ nodes' = nodes
      /\ said' = said /\ script' = script
  BY DEF parsing, tree
<1>2. PICK p \in Spots, q \in Spots : Runs(script, p, q) /\ StandsAt(p)
  BY DEF Policy, Promised
<1>3. p.nest \in Nests /\ p.mode \in Modes /\ Nesting(p.nest) /\ Known(p.mode) /\ (p.byte # 0 => TriviaEnd = p.byte)
  BY <1>2, SpotSame DEF StandsAt
<1>4. Drawn' /\ Nesting(p.nest)' /\ Known(p.mode)'
  BY <1>1, <1>3, Unmoves DEF Policy
<1>5. TriviaEnd' = TriviaEnd
  BY <1>1, SameBytes
<1>6. StandsAt(p)'
  BY <1>3, <1>4, <1>5 DEF StandsAt
<1>7. Promised'
  BY <1>1, <1>2, <1>6 DEF Promised
<1> QED
  BY <1>4, <1>7 DEF Policy

LEMMA PolicyInvariantStep == PolicyInvariant /\ [ParsingNext]_parsing => PolicyInvariant'
<1> SUFFICES ASSUME PolicyInvariant, [ParsingNext]_parsing  PROVE PolicyInvariant'
  OBVIOUS
<1>1. ParserInvariant'
  BY ParserInvariantStep DEF PolicyInvariant
<1>2. CommentsRead'
  <2>1. [LexerNext]_lexing
    BY DEF ParsingNext, parsing
  <2> QED
    BY <2>1, CommentsReadStep DEF PolicyInvariant, ParserInvariant
<1>3. CASE LexerNext /\ UNCHANGED <<tree, script>>
  <2>1. ~Lexed
    BY <1>3 DEF LexerNext
  <2>2. ParserInit'
    BY <1>3, <2>1 DEF PolicyInvariant, ParserInvariant, ParserInit, tree
  <2>3. (LexerInvariant /\ Lexed /\ ParserInit => Policy)'
    BY PolicyStarts, PTL
  <2> QED
    BY <1>1, <1>2, <2>2, <2>3 DEF PolicyInvariant, ParserInvariant
<1>4. CASE ParserNext /\ UNCHANGED lexing
  <2>1. Lexed /\ Whole /\ (Running \/ Ending) /\ CommentsRead /\ Policy
    BY <1>4, ParsesLexed DEF PolicyInvariant, ParserInvariant
  <2>2. Policy'
    BY <1>4, <2>1, PolicyStep
  <2> QED
    BY <1>1, <1>2, <2>2 DEF PolicyInvariant
<1>5. CASE UNCHANGED parsing
  <2>1. Lexed' <=> Lexed
    BY <1>5 DEF parsing, lexing, Lexed
  <2>2. Lexed => Policy'
    BY <1>5, PolicyStutters DEF PolicyInvariant, ParserInvariant
  <2> QED
    BY <1>1, <1>2, <2>1, <2>2 DEF PolicyInvariant
<1> QED
  BY <1>3, <1>4, <1>5 DEF ParsingNext

-----------------------------------------------------------------------------
(* Reading the tree *)

\* What is in order in steps of one is in order.
LEMMA StandInOrder ==
  ASSUME NEW n \in Nat, NEW from, NEW to,
         \A k \in 1..n : from[k] \in Nat /\ to[k] \in Nat /\ from[k] <= to[k],
         \A k \in 1..n : k # 1 => to[k - 1] <= from[k]
  PROVE  \A j, k \in 1..n : j < k => to[j] <= from[k]
<1> SUFFICES ASSUME NEW j \in 1..n, NEW l \in 1..n, j < l, ~(to[j] <= from[l])  PROVE FALSE
  OBVIOUS
<1> DEFINE T == {k \in 1..n : j < k /\ ~(to[j] <= from[k])}
<1>1. T \in SUBSET Nat /\ l \in T
  OBVIOUS
<1>2. PICK m \in T : \A k \in T : m <= k
  BY <1>1, NatLeast
<1>3. m \in 1..n /\ j < m /\ ~(to[j] <= from[m]) /\ m # 1 /\ m - 1 \in 1..n /\ m - 1 \notin T
  <2>1. m \in 1..n /\ j < m /\ ~(to[j] <= from[m])
    BY <1>2
  <2>2. m - 1 \in 1..n /\ m # 1 /\ ~(m <= m - 1)
    BY <2>1
  <2> QED
    BY <1>2, <2>1, <2>2
<1>4. to[m - 1] <= from[m] /\ to[m - 1] \in Nat /\ from[m] \in Nat /\ from[m - 1] \in Nat /\ to[j] \in Nat
      /\ from[m - 1] <= to[m - 1]
  BY <1>3
<1>5. j = m - 1 \/ j < m - 1
  BY <1>3
<1>6. CASE j = m - 1
  BY <1>3, <1>4, <1>6
<1>7. CASE j < m - 1
  <2>1. to[j] <= from[m - 1]
    BY <1>3, <1>7
  <2> QED
    BY <1>3, <1>4, <2>1
<1> QED
  BY <1>5, <1>6, <1>7

LEMMA TokensInOrder ==
  ASSUME Reading
  PROVE  /\ \A i \in 1..Len(tokens) :
              /\ tokens[i].from \in Nat /\ tokens[i].to \in Nat /\ Gap(i) \in Nat
              /\ Gap(i) <= tokens[i].from /\ tokens[i].from <= tokens[i].to /\ 1 <= Gap(i)
         /\ \A j, k \in 1..Len(tokens) : j < k => /\ tokens[j].to <= tokens[k].from
                                                  /\ tokens[j].from < tokens[j].to /\ tokens[j].to <= Gap(k)
<1>1. ASSUME NEW i \in 1..Len(tokens)
      PROVE  /\ tokens[i].from \in Nat /\ tokens[i].to \in Nat /\ Gap(i) \in Nat
             /\ Gap(i) <= tokens[i].from /\ tokens[i].from <= tokens[i].to
  <2>1. /\ tokens[i].from \in Nat /\ tokens[i].to \in Nat /\ Gap(i) \in Nat /\ Gap(i) <= tokens[i].from
        /\ i # Len(tokens) => tokens[i].from < tokens[i].to
        /\ tokens[i].kind = "EndOfFile" <=> i = Len(tokens)
    BY Read
  <2>2. Tiled(i)
    BY DEF Reading, LexerInvariant
  <2>3. i = Len(tokens) => tokens[i].from = tokens[i].to
    BY <2>1, <2>2 DEF Tiled
  <2> QED
    BY <2>1, <2>3
<1>2. Len(tokens) \in Nat
  BY AtToken
<1>3. PICK from, to : from = [k \in 1..Len(tokens) |-> tokens[k].from] /\ to = [k \in 1..Len(tokens) |-> tokens[k].to]
  OBVIOUS
<1>4. \A k \in 1..Len(tokens) : from[k] = tokens[k].from /\ to[k] = tokens[k].to
  BY <1>3
<1>5. \A k \in 1..Len(tokens) : k # 1 => k - 1 \in 1..Len(tokens) /\ tokens[k - 1].to = Gap(k)
  BY <1>2 DEF Gap
<1>6. \A j, k \in 1..Len(tokens) : j < k => tokens[j].to <= tokens[k].from
  <2>1. \A k \in 1..Len(tokens) : from[k] \in Nat /\ to[k] \in Nat /\ from[k] <= to[k]
    BY <1>1, <1>4
  <2>2. \A k \in 1..Len(tokens) : k # 1 => to[k - 1] <= from[k]
    BY <1>1, <1>4, <1>5
  <2>3. \A j, k \in 1..Len(tokens) : j < k => to[j] <= from[k]
    BY <1>2, <2>1, <2>2, StandInOrder
  <2> QED
    BY <1>4, <2>3
<1>7. ASSUME NEW j \in 1..Len(tokens), NEW k \in 1..Len(tokens), j < k
      PROVE  tokens[j].from < tokens[j].to /\ tokens[j].to <= Gap(k)
  <2>1. j # Len(tokens)
    BY <1>2, <1>7
  <2>2. tokens[j].from < tokens[j].to
    BY <2>1, Read
  <2>3. k # 1 /\ k - 1 \in 1..Len(tokens) /\ tokens[k - 1].to = Gap(k) /\ (j = k - 1 \/ j < k - 1)
    BY <1>2, <1>5, <1>7
  <2>4. CASE j = k - 1
    BY <1>1, <2>2, <2>3, <2>4
  <2>5. CASE j < k - 1
    <3>1. tokens[j].to <= tokens[k - 1].from /\ tokens[k - 1].from <= tokens[k - 1].to
      BY <1>1, <1>6, <2>3, <2>5
    <3>2. tokens[k - 1].from \in Nat /\ tokens[k - 1].to \in Nat /\ tokens[j].to \in Nat
      BY <1>1, <2>3
    <3> QED
      BY <2>2, <2>3, <3>1, <3>2
  <2> QED
    BY <2>3, <2>4, <2>5
<1>8. ASSUME NEW i \in 1..Len(tokens)
      PROVE  1 <= Gap(i)
  <2>1. CASE i = 1
    BY <2>1 DEF Gap
  <2>2. CASE i # 1
    <3>1. i - 1 \in 1..Len(tokens) /\ i - 1 < i /\ tokens[i - 1].to = Gap(i)
      BY <1>2, <1>5, <2>2
    <3>2. tokens[i - 1].from < tokens[i - 1].to
      BY <1>7, <3>1
    <3> QED
      BY <1>1, <3>1, <3>2
  <2> QED
    BY <2>1, <2>2
<1> QED
  BY <1>1, <1>6, <1>7, <1>8

\* The token after a byte in a gap.
LEMMA AfterGap ==
  ASSUME Reading, NEW i \in 1..Len(tokens), NEW at \in Nat, Gap(i) <= at, at <= tokens[i].from
  PROVE  TokenAfter(at) = tokens[i].from
<1>1. /\ \A k \in 1..Len(tokens) :
           /\ tokens[k].from \in Nat /\ tokens[k].to \in Nat /\ Gap(k) \in Nat
           /\ Gap(k) <= tokens[k].from /\ tokens[k].from <= tokens[k].to
      /\ \A j, k \in 1..Len(tokens) : j < k => /\ tokens[j].to <= tokens[k].from
                                               /\ tokens[j].from < tokens[j].to /\ tokens[j].to <= Gap(k)
  BY TokensInOrder
<1> DEFINE S == {tokens[k].from : k \in {l \in 1..Len(tokens) : tokens[l].from >= at}}
<1>2. tokens[i].from \in S /\ S \in SUBSET Nat
  BY <1>1
<1>3. ASSUME NEW k \in 1..Len(tokens), tokens[k].from >= at
      PROVE  tokens[i].from <= tokens[k].from
  <2>1. CASE k < i
    <3>1. tokens[k].from < tokens[k].to /\ tokens[k].to <= Gap(i)
      BY <1>1, <2>1
    <3>2. tokens[k].from \in Nat /\ tokens[k].to \in Nat /\ Gap(i) \in Nat
      BY <1>1
    <3> QED
      BY <1>3, <3>1, <3>2
  <2>2. CASE k = i
    BY <1>1, <2>2
  <2>3. CASE i < k
    <3>1. tokens[i].to <= tokens[k].from /\ tokens[i].from < tokens[i].to
      BY <1>1, <2>3
    <3>2. tokens[k].from \in Nat /\ tokens[i].to \in Nat /\ tokens[i].from \in Nat
      BY <1>1
    <3> QED
      BY <3>1, <3>2
  <2> QED
    BY <2>1, <2>2, <2>3, AtToken
<1>4. \A x \in S : tokens[i].from <= x
  BY <1>3
<1>5. TokenAfter(at) = Least(S)
  BY DEF TokenAfter
<1> HIDE DEF S
<1>6. Least(S) \in S /\ \A x \in S : Least(S) <= x
  BY <1>2, LeastOf
<1>7. PICK least \in Nat : least = Least(S)
  BY <1>2, <1>6
<1>8. least <= tokens[i].from /\ tokens[i].from <= least /\ tokens[i].from \in Nat
  BY <1>1, <1>2, <1>4, <1>6, <1>7
<1> QED
  BY <1>5, <1>7, <1>8

\* And the end of the token before it.
LEMMA BeforeGap ==
  ASSUME Reading, NEW i \in 1..Len(tokens), NEW at \in Nat, Gap(i) <= at, at < tokens[i].from
  PROVE  EndBefore(at) = Gap(i)
<1>1. /\ \A k \in 1..Len(tokens) :
           /\ tokens[k].from \in Nat /\ tokens[k].to \in Nat /\ Gap(k) \in Nat /\ 1 <= Gap(k)
           /\ Gap(k) <= tokens[k].from /\ tokens[k].from <= tokens[k].to
      /\ \A j, k \in 1..Len(tokens) : j < k => /\ tokens[j].to <= tokens[k].from
                                               /\ tokens[j].from < tokens[j].to /\ tokens[j].to <= Gap(k)
  BY TokensInOrder
<1> DEFINE S == {1} \cup {tokens[k].to : k \in {l \in 1..Len(tokens) : tokens[l].to <= at}}
<1>2. ASSUME NEW k \in 1..Len(tokens), tokens[k].to <= at
      PROVE  tokens[k].to <= Gap(i)
  <2>1. ~(i <= k)
    <3> SUFFICES ASSUME i <= k  PROVE FALSE
      OBVIOUS
    <3>1. i = k \/ i < k
      BY AtToken
    <3>2. CASE i = k
      BY <1>1, <1>2, <3>2
    <3>3. CASE i < k
      <4>1. tokens[i].to <= tokens[k].from /\ tokens[i].from < tokens[i].to /\ tokens[k].from <= tokens[k].to
        BY <1>1, <3>3
      <4>2. /\ tokens[i].to \in Nat /\ tokens[k].from \in Nat /\ tokens[i].from \in Nat /\ tokens[k].to \in Nat
        BY <1>1
      <4> QED
        BY <1>2, <4>1, <4>2
    <3> QED
      BY <3>1, <3>2, <3>3
  <2> QED
    BY <1>1, <2>1, AtToken
<1>3. S \in SUBSET (0..at) /\ \A x \in S : x <= Gap(i)
  <2>1. ASSUME NEW x \in S
        PROVE  x \in 0..at /\ x <= Gap(i)
    <3>1. CASE x = 1
      BY <1>1, <3>1
    <3>2. CASE \E k \in 1..Len(tokens) : tokens[k].to <= at /\ x = tokens[k].to
      BY <1>1, <1>2, <3>2
    <3> QED
      BY <2>1, <3>1, <3>2
  <2> QED
    BY <2>1
<1>4. Gap(i) \in S
  <2>1. CASE i = 1
    BY <2>1 DEF Gap
  <2>2. CASE i # 1
    <3>1. i - 1 \in 1..Len(tokens) /\ tokens[i - 1].to = Gap(i)
      BY <2>2, AtToken DEF Gap
    <3> QED
      BY <3>1
  <2> QED
    BY <2>1, <2>2
<1>5. EndBefore(at) = Greatest(S)
  BY DEF EndBefore
<1> HIDE DEF S
<1>6. Greatest(S) \in S /\ \A x \in S : x <= Greatest(S)
  BY <1>3, <1>4, GreatestOf
<1>7. PICK most : most = Greatest(S)
  OBVIOUS
<1>8. most \in 0..at /\ most <= Gap(i) /\ Gap(i) <= most /\ Gap(i) \in Nat
  BY <1>1, <1>3, <1>4, <1>6, <1>7
<1> QED
  BY <1>5, <1>7, <1>8

LEMMA CountsOne ==
  ASSUME NEW ls, NEW i \in Nat \ {0}
  PROVE  /\ TokensIn(ls, i) \in Nat /\ TokensIn(ls, i - 1) \in Nat
         /\ IsTrivia(ls[i]) => TokensIn(ls, i) = TokensIn(ls, i - 1)
         /\ ~IsTrivia(ls[i]) => TokensIn(ls, i) = TokensIn(ls, i - 1) + 1
<1> DEFINE A == {k \in 1..(i - 1) : ~IsTrivia(ls[k])}
           B == {k \in 1..i : ~IsTrivia(ls[k])}
<1>1. IsFiniteSet(A) /\ i \notin A
  <2>1. IsFiniteSet(1..(i - 1)) /\ A \subseteq 1..(i - 1)
    BY FS_Interval
  <2> QED
    BY <2>1, FS_Subset
<1>2. IsTrivia(ls[i]) => B = A
  OBVIOUS
<1>3. ~IsTrivia(ls[i]) => B = A \cup {i}
  OBVIOUS
<1>4. TokensIn(ls, i) = Cardinality(B) /\ TokensIn(ls, i - 1) = Cardinality(A)
  BY DEF TokensIn
<1> HIDE DEF A, B
<1>5. Cardinality(A) \in Nat
  BY <1>1, FS_CardinalityType
<1>6. Cardinality(A \cup {i}) = Cardinality(A) + 1
  BY <1>1, FS_AddElement
<1>7. CASE IsTrivia(ls[i])
  BY <1>2, <1>4, <1>5, <1>7
<1>8. CASE ~IsTrivia(ls[i])
  <2>1. TokensIn(ls, i) = TokensIn(ls, i - 1) + 1 /\ TokensIn(ls, i - 1) \in Nat
    BY <1>3, <1>4, <1>5, <1>6, <1>8
  <2> QED
    BY <1>8, <2>1
<1> QED
  BY <1>7, <1>8

\* The first and the last token of a stretch of leaves.
LEMMA TokensBetween ==
  ASSUME NEW ls, NEW first \in Nat \ {0}, NEW last \in Nat, first <= last,
         TokensIn(ls, first - 1) < TokensIn(ls, last),
         NEW S, S = {i \in first..last : ~IsTrivia(ls[i])}
  PROVE  /\ Least(S) \in S /\ Least(S) \in first..last /\ TokensIn(ls, Least(S)) = TokensIn(ls, first - 1) + 1
         /\ Greatest(S) \in S /\ Greatest(S) \in first..last /\ TokensIn(ls, Greatest(S)) = TokensIn(ls, last)
<1>1. S \in SUBSET Nat /\ S \in SUBSET (0..last) /\ S \in SUBSET (first..last) /\ \A i \in S : ~IsTrivia(ls[i])
  OBVIOUS
<1>2. S # {}
  <2> SUFFICES ASSUME S = {}  PROVE FALSE
    OBVIOUS
  <2>1. {j \in 1..last : ~IsTrivia(ls[j])} = {j \in 1..(first - 1) : ~IsTrivia(ls[j])}
    <3>1. \A j \in first..last : IsTrivia(ls[j])
      OBVIOUS
    <3>2. \A j \in 1..last : j \in 1..(first - 1) \/ j \in first..last
      OBVIOUS
    <3>3. \A j \in 1..(first - 1) : j \in 1..last
      OBVIOUS
    <3> QED
      BY <3>1, <3>2, <3>3
  <2>2. TokensIn(ls, last) = TokensIn(ls, first - 1)
    BY <2>1 DEF TokensIn
  <2>3. first - 1 \in Nat
    OBVIOUS
  <2> QED
    BY <2>2, <2>3, TokensGrow
<1>3. PICK m : m = Least(S)
  OBVIOUS
<1>4. PICK g : g = Greatest(S)
  OBVIOUS
<1>5. m \in S /\ \A j \in S : m <= j
  BY <1>1, <1>2, <1>3, LeastOf
<1>6. g \in S /\ \A j \in S : j <= g
  BY <1>1, <1>2, <1>4, GreatestOf
<1>7. m \in first..last /\ ~IsTrivia(ls[m]) /\ m \in Nat \ {0}
  BY <1>1, <1>5
<1>8. g \in first..last /\ g \in Nat
  BY <1>1, <1>6
<1>9. TokensIn(ls, m - 1) = TokensIn(ls, first - 1)
  <2>1. \A j \in first..(m - 1) : IsTrivia(ls[j])
    <3> SUFFICES ASSUME NEW j \in first..(m - 1), ~IsTrivia(ls[j])  PROVE FALSE
      OBVIOUS
    <3>1. j \in S /\ j < m
      BY <1>7
    <3> QED
      BY <1>5, <1>7, <3>1
  <2>2. \A j \in 1..(m - 1) : j \in 1..(first - 1) \/ j \in first..(m - 1)
    BY <1>7
  <2>3. \A j \in 1..(first - 1) : j \in 1..(m - 1)
    BY <1>7
  <2>4. {j \in 1..(m - 1) : ~IsTrivia(ls[j])} = {j \in 1..(first - 1) : ~IsTrivia(ls[j])}
    BY <2>1, <2>2, <2>3
  <2> QED
    BY <2>4 DEF TokensIn
<1>10. TokensIn(ls, last) = TokensIn(ls, g)
  <2>1. \A j \in (g + 1)..last : IsTrivia(ls[j])
    <3> SUFFICES ASSUME NEW j \in (g + 1)..last, ~IsTrivia(ls[j])  PROVE FALSE
      OBVIOUS
    <3>1. j \in S /\ g < j
      BY <1>8
    <3> QED
      BY <1>6, <1>8, <3>1
  <2>2. \A j \in 1..last : j \in 1..g \/ j \in (g + 1)..last
    BY <1>8
  <2>3. \A j \in 1..g : j \in 1..last
    BY <1>8
  <2>4. {j \in 1..last : ~IsTrivia(ls[j])} = {j \in 1..g : ~IsTrivia(ls[j])}
    BY <2>1, <2>2, <2>3
  <2> QED
    BY <2>4 DEF TokensIn
<1> QED
  BY <1>3, <1>4, <1>5, <1>6, <1>7, <1>8, <1>9, <1>10, CountsOne

LEMMA LeavesInOrder ==
  ASSUME Whole, LeavesRead
  PROVE  /\ \A i \in 1..Len(leaves) : /\ leaves[i].from \in Nat /\ leaves[i].to \in Nat
                                      /\ leaves[i].from < leaves[i].to /\ Byte(i) = leaves[i].from /\ 1 <= leaves[i].from
         /\ \A j, k \in 1..Len(leaves) : j < k => leaves[j].to <= leaves[k].from
         /\ \A i \in 1..Len(leaves) : leaves[i].to <= Here
<1>1. /\ leaves \in Seq(Leaves) /\ Len(leaves) \in Nat
      /\ \A i \in 1..Len(leaves) : leaves[i].from = IF i = 1 THEN 1 ELSE leaves[i - 1].to
      /\ Here = IF Len(leaves) = 0 THEN 1 ELSE leaves[Len(leaves)].to
  BY WholeIs DEF LeavesReach, Covers
<1>2. \A i \in 1..Len(leaves) : leaves[i].from \in Nat /\ leaves[i].to \in Nat /\ leaves[i].from < leaves[i].to
  <2>1. \A i \in 1..Len(leaves) : leaves[i] \in Leaves
    BY <1>1
  <2> QED
    BY <2>1 DEF Leaves, LeavesRead
<1>3. PICK from, to : from = [k \in 1..Len(leaves) |-> leaves[k].from] /\ to = [k \in 1..Len(leaves) |-> leaves[k].to]
  OBVIOUS
<1>4. \A k \in 1..Len(leaves) : from[k] = leaves[k].from /\ to[k] = leaves[k].to
  BY <1>3
<1>5. \A k \in 1..Len(leaves) : k # 1 => k - 1 \in 1..Len(leaves) /\ leaves[k - 1].to = leaves[k].from
  BY <1>1
<1>6. \A j, k \in 1..Len(leaves) : j < k => leaves[j].to <= leaves[k].from
  <2>1. \A k \in 1..Len(leaves) : from[k] \in Nat /\ to[k] \in Nat /\ from[k] <= to[k]
    BY <1>2, <1>4
  <2>2. \A k \in 1..Len(leaves) : k # 1 => to[k - 1] <= from[k]
    BY <1>2, <1>4, <1>5
  <2>3. \A j, k \in 1..Len(leaves) : j < k => to[j] <= from[k]
    BY <1>1, <2>1, <2>2, StandInOrder
  <2> QED
    BY <1>4, <2>3
<1>7. ASSUME NEW i \in 1..Len(leaves)
      PROVE  Byte(i) = leaves[i].from /\ 1 <= leaves[i].from
  <2>1. CASE i = 1
    BY <1>1, <2>1 DEF Byte
  <2>2. CASE i # 1
    <3>1. leaves[i - 1].to = leaves[i].from /\ i - 1 \in 1..Len(leaves)
      BY <1>5, <2>2
    <3>2. leaves[i - 1].from < leaves[i - 1].to /\ leaves[i - 1].from \in Nat /\ leaves[i - 1].to \in Nat
      BY <1>2, <3>1
    <3> QED
      BY <2>2, <3>1, <3>2 DEF Byte
  <2> QED
    BY <2>1, <2>2
<1>8. ASSUME NEW i \in 1..Len(leaves)
      PROVE  leaves[i].to <= Here
  <2>1. Len(leaves) # 0 /\ Len(leaves) \in 1..Len(leaves) /\ (i = Len(leaves) \/ i < Len(leaves))
    BY <1>1
  <2>2. Here = leaves[Len(leaves)].to
    BY <1>1, <2>1
  <2>3. CASE i = Len(leaves)
    BY <1>2, <2>2, <2>3
  <2>4. CASE i < Len(leaves)
    <3>1. leaves[i].to <= leaves[Len(leaves)].from /\ leaves[Len(leaves)].from < leaves[Len(leaves)].to
      BY <1>2, <1>6, <2>1, <2>4
    <3>2. leaves[i].to \in Nat /\ leaves[Len(leaves)].from \in Nat /\ leaves[Len(leaves)].to \in Nat
      BY <1>2, <2>1
    <3> QED
      BY <2>2, <3>1, <3>2
  <2> QED
    BY <2>1, <2>3, <2>4
<1> QED
  BY <1>2, <1>6, <1>7, <1>8

\* A piece of trivia lies in the gap before the token that follows it.
LEMMA TriviaInGap ==
  ASSUME Whole, LeavesRead, NEW c \in 1..Len(leaves), IsTrivia(leaves[c])
  PROVE  /\ TokensIn(leaves, c) + 1 \in 1..Len(tokens)
         /\ Gap(TokensIn(leaves, c) + 1) <= leaves[c].from
         /\ leaves[c].to <= tokens[TokensIn(leaves, c) + 1].from
<1> DEFINE T(i) == TokensIn(leaves, i)
<1>0. /\ Len(leaves) \in Nat /\ next \in 1..Len(tokens) /\ T(Len(leaves)) = next - 1 /\ Len(tokens) \in Nat
      /\ \A i \in 1..Len(leaves) : ~IsTrivia(leaves[i]) => leaves[i] = LeafOf(T(i))
      /\ c \in Nat /\ c <= Len(leaves)
  BY WholeIs, AllTaken DEF LeavesReach, Covers
<1>1. T(c) \in Nat /\ T(c) <= next - 1 /\ T(0) = 0
  <2>1. T(c) \in Nat /\ T(c) <= T(Len(leaves))
    BY <1>0, TokensGrow
  <2>2. T(0) = 0
    <3>1. {j \in 1..0 : ~IsTrivia(leaves[j])} = {}
      OBVIOUS
    <3> QED
      BY <3>1, FS_EmptySet DEF TokensIn
  <2> QED
    BY <1>0, <2>1, <2>2
<1>2. T(c) + 1 \in 1..Len(tokens)
  BY <1>0, <1>1
<1>3. Gap(T(c) + 1) <= leaves[c].from
  <2>1. CASE T(c) = 0
    BY <2>1, LeavesInOrder DEF Gap
  <2>2. CASE T(c) # 0
    <3> DEFINE S == {i \in 1..c : ~IsTrivia(leaves[i])}
               g == Greatest(S)
    <3>1. T(1 - 1) < T(c) /\ 1 <= c /\ 1 \in Nat \ {0}
      BY <1>1, <2>2
    <3> HIDE DEF T
    <3>2. g \in S /\ g \in 1..c /\ T(g) = T(c)
      BY <1>0, <3>1, TokensBetween DEF T
    <3> HIDE DEF g
    <3>3. g \in 1..Len(leaves) /\ ~IsTrivia(leaves[g]) /\ g < c
      <4>1. ~IsTrivia(leaves[g])
        BY <3>2
      <4>2. g # c
        BY <4>1
      <4> QED
        BY <1>0, <3>2, <4>1, <4>2
    <3>4. leaves[g].to <= leaves[c].from /\ leaves[g] = LeafOf(T(c))
      BY <1>0, <3>2, <3>3, LeavesInOrder
    <3>5. LeafOf(T(c)).to = tokens[T(c)].to
      BY DEF LeafOf
    <3>6. Gap(T(c) + 1) = tokens[T(c)].to
      BY <1>1, <2>2 DEF Gap
    <3> QED
      BY <3>4, <3>5, <3>6
  <2> QED
    BY <2>1, <2>2
<1>4. leaves[c].to <= tokens[T(c) + 1].from
  <2>1. CASE T(c) = next - 1
    <3>1. T(c) + 1 = next
      BY <1>0, <2>1
    <3>2. leaves[c].to <= Here /\ leaves[c].to \in Nat
      BY LeavesInOrder
    <3>3. Here <= TriviaEnd /\ Here \in Nat /\ TriviaEnd \in Nat /\ TriviaEnd = tokens[next].from
      BY WholeIs, UnemittedIsHere, RunFills
    <3> QED
      BY <3>1, <3>2, <3>3
  <2>2. CASE T(c) # next - 1
    <3> DEFINE first == c + 1
               S == {i \in first..Len(leaves) : ~IsTrivia(leaves[i])}
               m == Least(S)
    <3>0. c # Len(leaves)
      BY <1>0, <2>2
    <3>1. first \in Nat \ {0} /\ first <= Len(leaves) /\ first - 1 = c
      BY <1>0, <3>0
    <3>2. T(first - 1) < T(Len(leaves))
      BY <1>0, <1>1, <2>2, <3>1
    <3> HIDE DEF T, first
    <3>3. m \in S /\ m \in first..Len(leaves) /\ T(m) = T(first - 1) + 1
      BY <1>0, <3>1, <3>2, TokensBetween DEF T
    <3> HIDE DEF m
    <3>4. m \in 1..Len(leaves) /\ ~IsTrivia(leaves[m]) /\ c < m /\ T(m) = T(c) + 1
      BY <1>0, <3>1, <3>3
    <3>5. leaves[c].to <= leaves[m].from /\ leaves[m] = LeafOf(T(c) + 1)
      BY <1>0, <3>4, LeavesInOrder
    <3>6. LeafOf(T(c) + 1).from = tokens[T(c) + 1].from
      BY DEF LeafOf
    <3> QED
      BY <3>5, <3>6
  <2> QED
    BY <2>1, <2>2
<1> QED
  BY <1>2, <1>3, <1>4

-----------------------------------------------------------------------------
(* The policy, as the tree shows it *)

\* The first and the last token of a statement.
LEMMA StatementTokens ==
  ASSUME Whole, Drawn, NEW n \in Statements
  PROVE  /\ n \in nodes /\ n.first \in 1..n.last /\ n.last \in 1..Len(leaves) /\ n.first \in Nat /\ n.last \in Nat
         /\ StatementStarts(n.first) /\ StatementEnds(n.first, n.last)
         /\ TokensIn(leaves, n.first - 1) \in Nat /\ TokensIn(leaves, n.last) \in Nat
         /\ TokensIn(leaves, n.first - 1) < TokensIn(leaves, n.last)
         /\ TokensIn(leaves, n.last) + 1 \in 1..Len(tokens)
         /\ Leaf(Least(TokenLeaves(n))) = LeafOf(TokensIn(leaves, n.first - 1) + 1)
         /\ Leaf(Greatest(TokenLeaves(n))) = LeafOf(TokensIn(leaves, n.last))
<1>1. n \in nodes /\ n.kind = "Statement"
  BY DEF Statements
<1>2. StatementStarts(n.first) /\ StatementEnds(n.first, n.last)
  BY <1>1 DEF Drawn, StatementsKeep
<1>3. n.first \in Nat /\ n.last \in Nat /\ n.last <= Len(leaves) /\ Len(leaves) \in Nat
  BY <1>1, WholeIs DEF Nested
<1>4. /\ n.first \in 1..n.last /\ TokensIn(leaves, n.first - 1) + 1 < TokensIn(leaves, n.last) + 1
      /\ TokensIn(leaves, n.last) + 1 \in 1..Len(tokens)
  BY <1>2 DEF StatementEnds
<1>5. n.last \in 1..Len(leaves) /\ n.first - 1 \in Nat /\ n.first - 1 <= n.last /\ n.first \in Nat \ {0}
      /\ n.first <= n.last
  BY <1>3, <1>4
<1>6. TokensIn(leaves, n.first - 1) \in Nat /\ TokensIn(leaves, n.last) \in Nat
  BY <1>3, <1>5, TokensGrow
<1>7. TokensIn(leaves, n.first - 1) < TokensIn(leaves, n.last)
  BY <1>4, <1>6
<1>8. PICK S : S = {i \in n.first..n.last : ~IsTrivia(leaves[i])}
  OBVIOUS
<1>9. S = TokenLeaves(n)
  BY <1>8 DEF TokenLeaves, Leaf
<1>10. /\ Least(S) \in S /\ Least(S) \in n.first..n.last /\ TokensIn(leaves, Least(S)) = TokensIn(leaves, n.first - 1) + 1
       /\ Greatest(S) \in S /\ Greatest(S) \in n.first..n.last /\ TokensIn(leaves, Greatest(S)) = TokensIn(leaves, n.last)
  BY <1>3, <1>5, <1>7, <1>8, TokensBetween
<1>11. \A i \in 1..Len(leaves) : ~IsTrivia(leaves[i]) => leaves[i] = LeafOf(TokensIn(leaves, i))
  BY WholeIs DEF LeavesReach, Covers
<1>12. PICK m, g : m = Least(S) /\ g = Greatest(S)
  OBVIOUS
<1>13. m \in 1..Len(leaves) /\ g \in 1..Len(leaves) /\ ~IsTrivia(leaves[m]) /\ ~IsTrivia(leaves[g])
  BY <1>3, <1>5, <1>8, <1>10, <1>12
<1>14. leaves[m] = LeafOf(TokensIn(leaves, n.first - 1) + 1) /\ leaves[g] = LeafOf(TokensIn(leaves, n.last))
  BY <1>10, <1>11, <1>12, <1>13
<1>15. Leaf(Least(TokenLeaves(n))) = leaves[m] /\ Leaf(Greatest(TokenLeaves(n))) = leaves[g]
  BY <1>9, <1>12 DEF Leaf
<1> QED
  BY <1>1, <1>2, <1>4, <1>5, <1>3, <1>6, <1>7, <1>14, <1>15

LEMMA LineEndsStay ==
  ASSUME Whole, Drawn
  PROVE  LineEndStays
<1> SUFFICES ASSUME NEW n \in Statements
             PROVE  LET last == Leaf(Greatest(TokenLeaves(n))).to
                        ends == LineFeeds(last, TokenAfter(last))
                    IN \/ ReportedAt("ValueMissing", last)
                       \/ \E b \in nodes : /\ b.kind = "Block" /\ n.first <= b.first /\ b.last <= n.last
                                           /\ ReportedAt("BraceUnbalanced", Leaf(b.first).from)
                       \/ Leaf(n.last).to = IF ends = {} THEN TokenAfter(last) ELSE Least(ends) + 1
  BY DEF LineEndStays
<1>1. PICK after : after = TokensIn(leaves, n.last) + 1
  OBVIOUS
<1>2. /\ n.first \in 1..n.last /\ n.last \in 1..Len(leaves) /\ n.last \in Nat /\ n.first \in Nat
      /\ StatementEnds(n.first, n.last)
      /\ after \in 1..Len(tokens) /\ TokensIn(leaves, n.last) \in Nat
      /\ TokensIn(leaves, n.first - 1) < TokensIn(leaves, n.last) /\ TokensIn(leaves, n.first - 1) \in Nat
      /\ Leaf(Greatest(TokenLeaves(n))) = LeafOf(TokensIn(leaves, n.last))
  BY <1>1, StatementTokens
<1>3. PICK last : last = Leaf(Greatest(TokenLeaves(n))).to
  OBVIOUS
<1>4. last = Gap(after)
  <2>1. after # 1 /\ after - 1 = TokensIn(leaves, n.last)
    BY <1>1, <1>2
  <2>2. last = tokens[TokensIn(leaves, n.last)].to
    BY <1>2, <1>3 DEF LeafOf
  <2> QED
    BY <2>1, <2>2 DEF Gap
<1>5. TokenAfter(last) = tokens[after].from
  <2>1. Gap(after) \in Nat /\ Gap(after) <= tokens[after].from
    BY <1>2, WholeIs, TokensInOrder
  <2> QED
    BY <1>2, <1>4, <2>1, WholeIs, AfterGap
<1>6. CASE ReportedAt("ValueMissing", Gap(after))
  BY <1>3, <1>4, <1>6
<1>7. CASE \E block \in nodes : Unclosed(block) /\ n.first <= block.first /\ block.last <= n.last
  <2>1. PICK block \in nodes : Unclosed(block) /\ n.first <= block.first /\ block.last <= n.last
    BY <1>7
  <2>2. block.kind = "Block" /\ block.first <= block.last /\ ReportedAt("BraceUnbalanced", Byte(block.first))
    BY <2>1 DEF Unclosed
  <2>3. block.first \in Nat /\ block.last \in Nat
    BY <2>1, WholeIs DEF Nested
  <2>4. block.first \in 1..Len(leaves)
    BY <1>2, <2>1, <2>2, <2>3, WholeIs
  <2>5. Byte(block.first) = Leaf(block.first).from
    BY <2>4, LeavesInOrder DEF Leaf, Drawn
  <2> QED
    BY <2>1, <2>2, <2>5
<1>8. CASE Byte(n.last + 1) = LineEnd(after)
  <2>1. Byte(n.last + 1) = Leaf(n.last).to
    <3>1. n.last + 1 # 1 /\ (n.last + 1) - 1 = n.last
      BY <1>2
    <3> QED
      BY <3>1 DEF Byte, Leaf
  <2>2. LineEnd(after) = LET ends == LineFeeds(last, TokenAfter(last))
                         IN IF ends = {} THEN TokenAfter(last) ELSE Least(ends) + 1
    BY <1>4, <1>5 DEF LineEnd
  <2> QED
    BY <1>3, <1>8, <2>1, <2>2
<1> QED
  BY <1>1, <1>2, <1>6, <1>7, <1>8 DEF StatementEnds

LEMMA CommentsDoAttach ==
  ASSUME Whole, Drawn
  PROVE  CommentsAttach
<1> SUFFICES ASSUME NEW n \in Statements, NEW c \in 1..Len(leaves)
             PROVE  LET comment == Leaf(c)
                        key == Leaf(Least(TokenLeaves(n))).from
                        feeds == LineFeeds(comment.to, key)
                        blank == \E i, j \in feeds : i < j /\ \A k \in (i + 1)..(j - 1) : source[k] \in {" ", "cr"}
                    IN /\ comment.kind = "Comment" /\ TokenAfter(comment.from) = key
                       /\ EndBefore(comment.from) = 1 \/ LineFeeds(EndBefore(comment.from), comment.from) # {}
                       /\ ~ReportedAt("ValueMissing", EndBefore(comment.from))
                       => (c \in n.first..n.last <=> ~blank)
  BY DEF CommentsAttach
<1>1. PICK i : i = TokensIn(leaves, n.first - 1) + 1
  OBVIOUS
<1>2. /\ n.first \in 1..n.last /\ n.last \in 1..Len(leaves) /\ n.last \in Nat /\ n.first \in Nat
      /\ StatementStarts(n.first)
      /\ TokensIn(leaves, n.last) + 1 \in 1..Len(tokens) /\ TokensIn(leaves, n.last) \in Nat
      /\ TokensIn(leaves, n.first - 1) < TokensIn(leaves, n.last) /\ TokensIn(leaves, n.first - 1) \in Nat
      /\ Leaf(Least(TokenLeaves(n))) = LeafOf(i)
  BY <1>1, StatementTokens
<1>3. i \in 1..Len(tokens) /\ i < Len(tokens) /\ i \in Nat
  BY <1>1, <1>2, WholeIs
<1>4. Parted(i, Byte(n.first))
  BY <1>1, <1>2 DEF StatementStarts
<1>5. PICK comment : comment = Leaf(c)
  OBVIOUS
<1>6. PICK key : key = Leaf(Least(TokenLeaves(n))).from
  OBVIOUS
<1>7. key = tokens[i].from
  BY <1>2, <1>6 DEF LeafOf
<1> SUFFICES ASSUME comment.kind = "Comment", TokenAfter(comment.from) = key,
                    EndBefore(comment.from) = 1 \/ LineFeeds(EndBefore(comment.from), comment.from) # {},
                    ~ReportedAt("ValueMissing", EndBefore(comment.from))
             PROVE  c \in n.first..n.last <=> ~Blank(comment.to, key)
  BY <1>5, <1>6, Zenon DEF Blank
<1>8. /\ comment = leaves[c] /\ IsTrivia(leaves[c])
      /\ comment.from \in Nat /\ comment.to \in Nat /\ comment.from < comment.to
      /\ CommentSpan(comment.from, comment.to)
  BY <1>5, LeavesInOrder DEF Leaf, IsTrivia, Drawn, LeavesRead
<1>9. PICK j : j = TokensIn(leaves, c) + 1
  OBVIOUS
<1>10. j \in 1..Len(tokens) /\ Gap(j) <= comment.from /\ comment.to <= tokens[j].from
  BY <1>8, <1>9, TriviaInGap DEF Drawn
<1>11. tokens[j].from \in Nat /\ comment.from < tokens[j].from /\ comment.from <= tokens[j].from
  BY <1>8, <1>10, WholeIs, TokensInOrder
<1>12. TokenAfter(comment.from) = tokens[j].from /\ EndBefore(comment.from) = Gap(j)
  BY <1>8, <1>10, <1>11, WholeIs, AfterGap, BeforeGap
<1>13. i = j
  <2>1. tokens[i].from = tokens[j].from
    BY <1>7, <1>12
  <2>2. \A k, l \in 1..Len(tokens) : k < l => tokens[k].from < tokens[l].from
    <3> SUFFICES ASSUME NEW k \in 1..Len(tokens), NEW l \in 1..Len(tokens), k < l
                 PROVE  tokens[k].from < tokens[l].from
      OBVIOUS
    <3>1. tokens[k].to <= tokens[l].from /\ tokens[k].from < tokens[k].to
      BY WholeIs, TokensInOrder
    <3>2. tokens[k].to \in Nat /\ tokens[l].from \in Nat /\ tokens[k].from \in Nat
      BY WholeIs, TokensInOrder
    <3> QED
      BY <3>1, <3>2
  <2>3. ~(i < j)
    BY <1>3, <1>10, <1>11, <2>1, <2>2
  <2>4. ~(j < i)
    BY <1>3, <1>10, <1>11, <2>1, <2>2
  <2> QED
    BY <1>3, <1>10, <2>3, <2>4
<1>14. Byte(n.first) <= comment.from <=> ~Blank(comment.to, key)
  BY <1>3, <1>4, <1>7, <1>8, <1>10, <1>12, <1>13 DEF Parted
<1>15. ASSUME n.first <= c
       PROVE  Byte(n.first) <= comment.from /\ c \in n.first..n.last
  <2>1. Byte(n.first) <= comment.from
    <3>1. Byte(n.first) = leaves[n.first].from /\ leaves[n.first].from \in Nat /\ leaves[n.first].to \in Nat
          /\ leaves[n.first].from < leaves[n.first].to
      BY <1>2, LeavesInOrder DEF Drawn
    <3>2. n.first = c \/ (n.first < c /\ n.first \in 1..Len(leaves))
      BY <1>2, <1>15
    <3>3. n.first < c /\ n.first \in 1..Len(leaves) => leaves[n.first].to <= leaves[c].from
      BY LeavesInOrder DEF Drawn
    <3> QED
      BY <1>8, <3>1, <3>2, <3>3
  <2>2. ~(n.last < c)
    <3> SUFFICES ASSUME n.last < c  PROVE FALSE
      OBVIOUS
    <3>1. TokensIn(leaves, n.last) <= TokensIn(leaves, c) /\ TokensIn(leaves, c) \in Nat
      BY <1>2, TokensGrow
    <3> QED
      BY <1>1, <1>2, <1>9, <1>13, <3>1
  <2> QED
    BY <1>2, <1>15, <2>1, <2>2
<1>16. ASSUME ~(n.first <= c)
       PROVE  ~(Byte(n.first) <= comment.from) /\ c \notin n.first..n.last
  <2>1. n.first # 1 /\ n.first - 1 \in 1..Len(leaves) /\ (c = n.first - 1 \/ c < n.first - 1)
    <3>1. PICK f, l \in Nat : f = n.first /\ l = n.last
      BY <1>2
    <3>2. PICK last : last = Len(leaves)
      OBVIOUS
    <3>3. last \in Nat
      BY <3>2, WholeIs
    <3>4. f \in 1..l /\ l \in 1..last /\ c \in 1..last /\ ~(f <= c)
      BY <1>2, <1>16, <3>1, <3>2
    <3>5. f # 1 /\ f - 1 \in 1..last /\ (c = f - 1 \/ c < f - 1)
      BY <3>1, <3>3, <3>4
    <3> QED
      BY <3>1, <3>2, <3>5
  <2>2. Byte(n.first) = leaves[n.first - 1].to
    BY <2>1 DEF Byte
  <2>3. /\ leaves[n.first - 1].from \in Nat /\ leaves[n.first - 1].to \in Nat
        /\ leaves[n.first - 1].from < leaves[n.first - 1].to
        /\ c < n.first - 1 => leaves[c].to <= leaves[n.first - 1].from
    BY <2>1, LeavesInOrder DEF Drawn
  <2>4. comment.to <= Byte(n.first)
    <3>1. CASE c = n.first - 1
      BY <1>8, <2>2, <3>1
    <3>2. CASE c < n.first - 1
      BY <1>8, <2>2, <2>3, <3>2
    <3> QED
      BY <2>1, <3>1, <3>2
  <2>5. Byte(n.first) \in Nat
    BY <2>2, <2>3
  <2> QED
    BY <1>8, <1>16, <2>4, <2>5
<1> QED
  BY <1>14, <1>15, <1>16

LEMMA PolicyOwns == PolicyInvariant => TriviaOwned
<1> SUFFICES ASSUME PolicyInvariant, Parsed  PROVE TriviaOwned
  BY DEF TriviaOwned, LineEndStays, CommentsAttach
<1>1. Lexed
  <2>1. script = <<Start("File"), Items(0, {})>> => script # <<>>
    OBVIOUS
  <2> QED
    BY <2>1 DEF PolicyInvariant, ParserInvariant, ParserInit, Parsed
<1>2. Whole /\ Drawn
  BY <1>1 DEF PolicyInvariant, ParserInvariant, Policy
<1> QED
  BY <1>2, LineEndsStay, CommentsDoAttach DEF TriviaOwned

\* Of every file, whatever the parser has to recover from: what follows a statement on
\* its line is the statement's own, up to and including the line feed, and a comment
\* above a statement is inside it exactly when no blank line lies between them.
THEOREM TriviaIsOwned == ParsingSpec => []TriviaOwned
<1> QED
  BY PolicyInit, PolicyInvariantStep, PolicyOwns, PTL DEF ParsingSpec
=============================================================================
