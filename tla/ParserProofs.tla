---------------------------- MODULE ParserProofs ----------------------------
(***************************************************************************)
(* Proofs about Parser: the tree is total.                                 *)
(*                                                                         *)
(* What the builder has been given covers the file up to a byte (`Here`)   *)
(* because the pieces of trivia before a token fill what is between it and *)
(* the token before, which is what the lexer's invariant says of them, and *)
(* because a limit lies among those pieces.  That the nodes nest and that  *)
(* the parse ends with all of them closed is said of the script: it leads, *)
(* call by call, from the nodes that are open to the end of the file's     *)
(* items, never past the end of the file and never wrapping a name that is *)
(* not the last leaf.  A parse function replaces its call by calls that    *)
(* lead where that one did; there is a lemma for each of these replacements*)
(* and one for each action.                                                *)
(***************************************************************************)
EXTENDS Parser, LexerProofs, FiniteSetTheorems

-----------------------------------------------------------------------------
(* The tokens the parser reads, and the trivia before each *)

\* Pieces that fill a stretch lie in order, and inside it.
LEMMA FillsInOrder ==
  ASSUME NEW run \in Seq(TriviaPieces), NEW a \in Nat \ {0}, NEW b \in Int, b <= Len(run),
         NEW start \in Nat, NEW end \in Nat, Fills(run, a, b, start, end)
  PROVE  /\ \A j, k \in a..b : j < k => run[j].to <= run[k].from
         /\ \A k \in a..b : start <= run[k].from /\ run[k].from < run[k].to /\ run[k].to <= end
         /\ start <= end
<1>1. CASE b < a
  BY <1>1 DEF Fills
<1>2. CASE ~(b < a)
  <2>1. /\ run[a].from = start /\ run[b].to = end
        /\ \A k \in a..b : run[k].from < run[k].to
        /\ \A k \in (a + 1)..b : run[k].from = run[k - 1].to
    BY <1>2 DEF Fills
  <2>2. \A k \in a..b : run[k].from \in Nat /\ run[k].to \in Nat
    <3>1. \A k \in a..b : run[k] \in TriviaPieces
      OBVIOUS
    <3> QED
      BY <3>1 DEF TriviaPieces
  <2> DEFINE T == {k \in a..b : \E j \in a..b : j < k /\ run[j].to > run[k].from}
  <2>3. T = {}
    <3> SUFFICES ASSUME T # {}  PROVE FALSE
      OBVIOUS
    <3>1. T \in SUBSET Nat
      OBVIOUS
    <3>2. PICK k \in T : \A m \in T : k <= m
      BY <3>1, NatLeast
    <3>3. k \in a..b /\ \E j \in a..b : j < k /\ run[j].to > run[k].from
      BY <3>2
    <3>4. PICK j \in a..b : j < k /\ run[j].to > run[k].from
      BY <3>3
    <3>11. \A m \in a..b : m \notin T => \A i \in a..b : i < m => ~(run[i].to > run[m].from)
      OBVIOUS
    <3> HIDE DEF T
    <3>12. k \in (a + 1)..b /\ k - 1 \in a..b /\ ~(k <= k - 1)
      BY <3>3, <3>4
    <3>13. k - 1 \notin T
      BY <3>2, <3>12
    <3>5. j < k - 1 => ~(run[j].to > run[k - 1].from)
      BY <3>11, <3>12, <3>13
    <3>6. j = k - 1 \/ j < k - 1
      BY <3>3, <3>4
    <3>7. run[k].from = run[k - 1].to /\ run[k - 1].from < run[k - 1].to
      BY <2>1, <3>12
    <3>8. /\ run[j].to \in Nat /\ run[k].from \in Nat
          /\ run[k - 1].from \in Nat /\ run[k - 1].to \in Nat
      BY <2>2, <3>3, <3>12
    <3>9. CASE j = k - 1
      BY <3>4, <3>7, <3>8, <3>9
    <3>10. CASE j < k - 1
      BY <3>4, <3>5, <3>7, <3>8, <3>10
    <3> QED
      BY <3>6, <3>9, <3>10
  <2>4. \A j, k \in a..b : j < k => run[j].to <= run[k].from
    BY <2>2, <2>3
  <2>5. a \in a..b /\ b \in a..b
    BY <1>2
  <2> HIDE DEF T
  <2>6. ASSUME NEW k \in a..b
        PROVE  start <= run[k].from /\ run[k].to <= end
    <3>0. (k = a \/ a < k) /\ (k = b \/ k < b)
      BY <1>2
    <3>1. k = a \/ run[a].to <= run[k].from
      BY <2>4, <2>5, <3>0
    <3>2. k = b \/ run[k].to <= run[b].from
      BY <2>4, <2>5, <3>0
    <3>3. run[a].from < run[a].to /\ run[b].from < run[b].to
      BY <2>1, <2>5
    <3>4. /\ run[a].from \in Nat /\ run[a].to \in Nat /\ run[k].from \in Nat
          /\ run[k].to \in Nat /\ run[b].from \in Nat /\ run[b].to \in Nat
      BY <2>2, <2>5
    <3>5. run[k].from < run[k].to /\ run[a].from = start /\ run[b].to = end
      BY <2>1
    <3> QED
      BY <3>1, <3>2, <3>3, <3>4, <3>5
  <2> QED
    BY <2>1, <2>2, <2>4, <2>5, <2>6
<1> QED
  BY <1>1, <1>2

\* The lexer is done, and the parser has not passed the end of the file.
Reading == LexerInvariant /\ Lexed /\ next \in 1..Len(tokens)

LEMMA Read ==
  ASSUME Reading, NEW i \in 1..Len(tokens)
  PROVE  /\ tokens[i] \in Tokens
         /\ tokens[i].from \in Nat /\ tokens[i].to \in Nat
         /\ tokens[i].kind = "EndOfFile" <=> i = Len(tokens)
         /\ Gap(i) \in Nat /\ Gap(i) <= tokens[i].from
         /\ i # Len(tokens) => Gap(i + 1) = tokens[i].to /\ tokens[i].from < tokens[i].to
         /\ i = Len(tokens) => tokens[i].from = End
<1>1. tokens \in Seq(Tokens) /\ trivia \in Seq(TriviaPieces) /\ tokens[i] \in Tokens
  BY DEF Reading, LexerInvariant, LexerTypes
<1>2. Tiled(i)
  BY DEF Reading, LexerInvariant
<1>3. /\ tokens[i].from \in Nat /\ tokens[i].to \in Nat /\ tokens[i].first \in Nat /\ tokens[i].count \in Nat
      /\ Gap(i) \in Nat
  BY <1>1, GapIsNat, SMTT(30) DEF Tokens
<1>4. Gap(i) <= tokens[i].from
  <2> DEFINE a == tokens[i].first
             b == tokens[i].first + tokens[i].count - 1
  <2>1. a \in Nat \ {0} /\ b \in Int /\ b <= Len(trivia) /\ Fills(trivia, a, b, Gap(i), tokens[i].from)
    BY <1>2, <1>3 DEF Tiled
  <2> HIDE DEF a, b
  <2> QED
    BY <1>1, <1>3, <2>1, FillsInOrder
<1>5. tokens[i].kind = "EndOfFile" <=> i = Len(tokens)
  BY <1>2 DEF Tiled, Reading, Lexed
<1>6. i + 1 # 1 /\ (i + 1) - 1 = i
  OBVIOUS
<1> QED
  BY <1>1, <1>2, <1>3, <1>4, <1>5, <1>6 DEF Tiled, Gap

\* The token the parser is at.
LEMMA AtToken ==
  ASSUME Reading
  PROVE  /\ Tok(0) = tokens[next]
         /\ Kind(0) = "EndOfFile" <=> next = Len(tokens)
         /\ Kind(1) # "EndOfFile" => next + 1 < Len(tokens)
         /\ Len(tokens) \in Nat /\ next \in Nat
<1>1. tokens \in Seq(Tokens) /\ next \in 1..Len(tokens) /\ Len(tokens) \in Nat
  BY DEF Reading, LexerInvariant, LexerTypes
<1>2. next + 0 = next /\ Min2(next, Len(tokens)) = next
  BY <1>1 DEF Min2
<1>3. Tok(0) = tokens[next]
  BY <1>2 DEF Tok
<1>4. ~(next + 1 < Len(tokens)) => Min2(next + 1, Len(tokens)) = Len(tokens)
  BY <1>1 DEF Min2
<1>5. tokens[Len(tokens)].kind = "EndOfFile"
  BY DEF Reading, Lexed
<1>6. Kind(0) = "EndOfFile" <=> next = Len(tokens)
  BY <1>1, <1>3, Read DEF Kind
<1> QED
  BY <1>1, <1>3, <1>4, <1>5, <1>6 DEF Kind, Tok

\* The trivia before it fills what is between the token before and it.
LEMMA RunFills ==
  ASSUME Reading
  PROVE  /\ TriviaRun \in Seq(TriviaPieces)
         /\ Fills(TriviaRun, 1, Len(TriviaRun), Gap(next), TriviaEnd)
         /\ TriviaStart = Gap(next) /\ TriviaEnd = tokens[next].from
         /\ Gap(next) \in Nat /\ TriviaEnd \in Nat /\ Gap(next) <= TriviaEnd
<1>0. next \in 1..Len(tokens) /\ Tok(0) = tokens[next]
  BY AtToken DEF Reading
<1>1. trivia \in Seq(TriviaPieces) /\ tokens[next] \in Tokens /\ Tiled(next)
  BY <1>0 DEF Reading, LexerInvariant, LexerTypes
<1>2. TriviaEnd = tokens[next].from /\ Gap(next) \in Nat /\ TriviaEnd \in Nat /\ Gap(next) <= TriviaEnd
  BY <1>0, Read DEF TriviaEnd
<1> DEFINE a == tokens[next].first
           b == tokens[next].first + tokens[next].count - 1
<1>3. a \in 1..(Len(trivia) + 1) /\ b \in 0..Len(trivia)
  BY <1>1 DEF Tiled, Tokens
<1>4. TriviaRun = SubSeq(trivia, a, b)
  BY <1>0 DEF TriviaRun
<1> HIDE DEF a, b
<1>5. TriviaRun \in Seq(TriviaPieces)
  BY <1>1, <1>3, <1>4, SubSeqProperties
<1>6. /\ IF TriviaRun = <<>> THEN TriviaEnd = Gap(next)
         ELSE /\ TriviaRun[1].from = Gap(next) /\ TriviaRun[Len(TriviaRun)].to = TriviaEnd
              /\ \A k \in 1..Len(TriviaRun) : TriviaRun[k].to > TriviaRun[k].from
              /\ \A k \in 2..Len(TriviaRun) : TriviaRun[k].from = TriviaRun[k - 1].to
  <2>1. TokensTile
    BY InvariantTiles DEF Reading
  <2>2. TriviaRun = SubSeq(trivia, tokens[next].first, tokens[next].first + tokens[next].count - 1)
    BY <1>0 DEF TriviaRun
  <2> QED
    BY <1>0, <1>2, <2>1, <2>2, Zenon DEF TokensTile, Gap
<1>7. TriviaStart = Gap(next)
  BY <1>6 DEF TriviaStart
<1>8. Fills(TriviaRun, 1, Len(TriviaRun), Gap(next), TriviaEnd)
  <2>1. CASE TriviaRun = <<>>
    BY <1>6, <2>1 DEF Fills
  <2>2. CASE TriviaRun # <<>>
    <3>1. ~(Len(TriviaRun) < 1) /\ Len(TriviaRun) \in Nat
      BY <1>5, <2>2, EmptySeq
    <3>2. \A k \in 1..Len(TriviaRun) : TriviaRun[k].from \in Nat /\ TriviaRun[k].to \in Nat
      <4>1. \A k \in 1..Len(TriviaRun) : TriviaRun[k] \in TriviaPieces
        BY <1>5
      <4> QED
        BY <4>1 DEF TriviaPieces
    <3> QED
      BY <1>6, <2>2, <3>1, <3>2 DEF Fills
  <2> QED
    BY <2>1, <2>2
<1> QED
  BY <1>2, <1>5, <1>7, <1>8

\* Some of the trivia: what of each piece lies between two limits.
Clipped(run, from, limit) ==
  [k \in 1..Len(run) |-> [kind |-> run[k].kind, from |-> Max2(from, run[k].from), to |-> Min2(limit, run[k].to)]]
Kept(run, from, limit) ==
  {k \in 1..Len(run) : Clipped(run, from, limit)[k].from < Clipped(run, from, limit)[k].to}

\* The pieces that have something between the limits stand side by side, and what
\* they have fills it.
LEMMA ClippedFills ==
  ASSUME NEW run \in Seq(TriviaPieces), NEW start \in Nat, NEW end \in Nat, Fills(run, 1, Len(run), start, end),
         NEW from \in start..end, NEW limit \in from..end, from < limit
  PROVE  \E lo, hi \in 1..Len(run) :
           /\ lo <= hi /\ Kept(run, from, limit) = lo..hi
           /\ Fills(Clipped(run, from, limit), lo, hi, from, limit)
<1> DEFINE parts == Clipped(run, from, limit)
<1>1. Len(run) \in Nat /\ \A k \in 1..Len(run) : run[k] \in TriviaPieces
  OBVIOUS
<1>2. \A k \in 1..Len(run) : run[k].from \in Nat /\ run[k].to \in Nat
  BY <1>1 DEF TriviaPieces
<1>3. from \in Nat /\ limit \in Nat /\ start <= from /\ limit <= end
  OBVIOUS
<1>4. ~(Len(run) < 1)
  BY <1>1, <1>3 DEF Fills
<1>5. /\ run[1].from = start /\ run[Len(run)].to = end
      /\ \A k \in 1..Len(run) : run[k].from < run[k].to
      /\ \A k \in 2..Len(run) : run[k].from = run[k - 1].to
  BY <1>4 DEF Fills
<1>6. /\ \A j, k \in 1..Len(run) : j < k => run[j].to <= run[k].from
  BY <1>1, FillsInOrder
<1> DEFINE L == {k \in 1..Len(run) : from < run[k].to}
           H == {k \in 1..Len(run) : run[k].from < limit}
<1>7. PICK lo \in L : \A k \in L : lo <= k
  <2>1. Len(run) \in L
    BY <1>1, <1>3, <1>4, <1>5
  <2>2. L \in SUBSET Nat
    OBVIOUS
  <2> QED
    BY <2>1, <2>2, NatLeast
<1>8. lo \in 1..Len(run) /\ from < run[lo].to
  BY <1>7
<1>9. run[lo].from <= from
  <2>1. CASE lo = 1
    BY <1>3, <1>5, <2>1
  <2>2. CASE lo # 1
    <3>1. lo - 1 \in 1..Len(run) /\ lo \in 2..Len(run)
      BY <1>8, <2>2
    <3>2. lo - 1 \notin L
      BY <1>7, <1>8
    <3>3. ~(from < run[lo - 1].to)
      BY <3>1, <3>2
    <3>4. run[lo].from = run[lo - 1].to
      BY <1>5, <3>1
    <3> QED
      BY <1>2, <1>3, <3>1, <3>3, <3>4
  <2> QED
    BY <2>1, <2>2
<1>10. PICK hi \in H : \A k \in H : k <= hi
  <2>1. lo \in H
    BY <1>2, <1>3, <1>8, <1>9
  <2>2. H \in SUBSET (0..Len(run))
    BY <1>1
  <2> QED
    BY <1>1, <2>1, <2>2, NatGreatest
<1>11. hi \in 1..Len(run) /\ run[hi].from < limit
  BY <1>10
<1>12. limit <= run[hi].to
  <2>1. CASE hi = Len(run)
    BY <1>3, <1>5, <2>1
  <2>2. CASE hi # Len(run)
    <3>1. hi + 1 \in 2..Len(run) /\ (hi + 1) - 1 = hi
      BY <1>1, <1>11, <2>2
    <3>2. hi + 1 \notin H
      BY <1>10, <1>11
    <3>3. ~(run[hi + 1].from < limit)
      BY <3>1, <3>2
    <3>4. run[hi + 1].from = run[hi].to
      BY <1>5, <3>1
    <3> QED
      BY <1>2, <1>3, <1>11, <3>1, <3>3, <3>4
  <2> QED
    BY <2>1, <2>2
<1>13. lo <= hi
  <2>1. lo \in H
    BY <1>2, <1>3, <1>8, <1>9
  <2> HIDE DEF H
  <2> QED
    BY <1>10, <2>1
<1>14. \A k \in 1..Len(run) : k \in L <=> lo <= k
  <2> SUFFICES ASSUME NEW k \in 1..Len(run), lo < k  PROVE from < run[k].to
    BY <1>7, <1>8
  <2>1. run[lo].to <= run[k].from /\ run[k].from < run[k].to
    BY <1>5, <1>6, <1>8
  <2> QED
    BY <1>2, <1>3, <1>8, <2>1
<1>15. \A k \in 1..Len(run) : k \in H <=> k <= hi
  <2> SUFFICES ASSUME NEW k \in 1..Len(run), k < hi  PROVE run[k].from < limit
    BY <1>10, <1>11
  <2>1. run[k].to <= run[hi].from /\ run[k].from < run[k].to
    BY <1>5, <1>6, <1>11
  <2> QED
    BY <1>2, <1>3, <1>11, <2>1
<1>16. \A k \in 1..Len(run) : /\ k \in L <=> from < run[k].to
                              /\ k \in H <=> run[k].from < limit
  OBVIOUS
<1> HIDE DEF L, H
<1>17. \A k \in 1..Len(run) : parts[k].from = Max2(from, run[k].from) /\ parts[k].to = Min2(limit, run[k].to)
  BY DEF Clipped
<1>18. \A k \in 1..Len(run) : parts[k].from < parts[k].to <=> (lo <= k /\ k <= hi)
  <2> TAKE k \in 1..Len(run)
  <2>1. k \in L /\ k \in H <=> (lo <= k /\ k <= hi)
    BY <1>14, <1>15
  <2>2. Max2(from, run[k].from) < Min2(limit, run[k].to) <=> (from < run[k].to /\ run[k].from < limit)
    BY <1>2, <1>3, <1>5 DEF Max2, Min2
  <2> QED
    BY <1>16, <1>17, <2>1, <2>2
<1>19. Kept(run, from, limit) = lo..hi
  <2>1. \A k : k \in lo..hi <=> (k \in 1..Len(run) /\ lo <= k /\ k <= hi)
    BY <1>8, <1>11
  <2> QED
    BY <1>18, <2>1 DEF Kept
<1>20. parts[lo].from = from /\ parts[hi].to = limit
  BY <1>2, <1>3, <1>8, <1>9, <1>11, <1>12, <1>17 DEF Max2, Min2
<1>21. \A k \in lo..hi : parts[k].from < parts[k].to
  BY <1>8, <1>11, <1>18
<1>22. ASSUME NEW k \in (lo + 1)..hi
       PROVE  parts[k].from = parts[k - 1].to
  <2>1. k \in 2..Len(run) /\ k \in 1..Len(run) /\ k - 1 \in 1..Len(run) /\ lo <= k - 1 /\ k <= hi
    BY <1>8, <1>11
  <2>2. run[k].from = run[k - 1].to
    BY <1>5, <2>1
  <2>3. from < run[k - 1].to
    BY <1>14, <1>16, <2>1
  <2>4. run[k].from < limit
    BY <1>15, <1>16, <2>1
  <2>5. parts[k].from = run[k].from
    BY <1>2, <1>3, <1>17, <2>1, <2>2, <2>3 DEF Max2
  <2>6. parts[k - 1].to = run[k - 1].to
    BY <1>2, <1>3, <1>17, <2>1, <2>2, <2>4 DEF Min2
  <2> QED
    BY <2>2, <2>5, <2>6
<1> HIDE DEF parts
<1>23. ~(hi < lo)
  BY <1>8, <1>11, <1>13
<1>24. Fills(parts, lo, hi, from, limit)
  BY <1>20, <1>21, <1>22, <1>23 DEF Fills
<1> QED
  BY <1>8, <1>11, <1>13, <1>19, <1>24 DEF parts

\* What fills a stretch fills it also when it is cut out of its sequence.
LEMMA FillsAlone ==
  ASSUME NEW run \in Seq(TriviaPieces), NEW lo \in 1..Len(run), NEW hi \in lo..Len(run),
         NEW start, NEW end, Fills(run, lo, hi, start, end)
  PROVE  /\ SubSeq(run, lo, hi) \in Seq(TriviaPieces)
         /\ Fills(SubSeq(run, lo, hi), 1, Len(SubSeq(run, lo, hi)), start, end)
<1> DEFINE part == SubSeq(run, lo, hi)
<1>1. /\ part \in Seq(TriviaPieces) /\ Len(part) = hi - lo + 1
      /\ \A k \in 1..Len(part) : part[k] = run[lo + k - 1]
  BY SubSeqProperties
<1> HIDE DEF part
<1>2. ~(hi < lo) /\ lo \in Nat /\ hi \in Nat /\ ~(Len(part) < 1) /\ Len(part) \in Nat
  BY <1>1
<1>3. /\ run[lo].from = start /\ run[hi].to = end
      /\ \A k \in lo..hi : run[k].from < run[k].to
      /\ \A k \in (lo + 1)..hi : run[k].from = run[k - 1].to
  BY <1>2 DEF Fills
<1>4. part[1] = run[lo] /\ part[Len(part)] = run[hi]
  BY <1>1, <1>2
<1>5. \A k \in 1..Len(part) : part[k].from < part[k].to
  BY <1>1, <1>2, <1>3
<1>6. ASSUME NEW k \in 2..Len(part)
      PROVE  part[k].from = part[k - 1].to
  <2>1. /\ k \in 1..Len(part) /\ k - 1 \in 1..Len(part) /\ lo + k - 1 \in (lo + 1)..hi
        /\ lo + (k - 1) - 1 = (lo + k - 1) - 1
    BY <1>1, <1>2
  <2> QED
    BY <1>1, <1>3, <2>1
<1>7. \A k \in (1 + 1)..Len(part) : k \in 2..Len(part)
  OBVIOUS
<1>8. Fills(part, 1, Len(part), start, end)
  BY <1>2, <1>3, <1>4, <1>5, <1>6, <1>7 DEF Fills
<1> QED
  BY <1>1, <1>8 DEF part

LEMMA IntervalEnds ==
  ASSUME NEW lo \in Nat, NEW hi \in Nat, lo <= hi
  PROVE  Min(lo..hi) = lo /\ Max(lo..hi) = hi
<1>1. lo \in lo..hi /\ hi \in lo..hi /\ \A k \in lo..hi : k \in Nat /\ lo <= k /\ k <= hi
  OBVIOUS
<1>2. \A k \in lo..hi : /\ (\A j \in lo..hi : k <= j) => k = lo
                        /\ (\A j \in lo..hi : k >= j) => k = hi
  BY <1>1
<1>3. \A k \in lo..hi : hi >= k
  BY <1>1
<1> QED
  BY <1>1, <1>2, <1>3, Zenon DEF Min, Max

LEMMA UptoFills ==
  ASSUME Reading,
         NEW from, from = (IF cursor = 0 THEN TriviaStart ELSE cursor), from \in Gap(next)..TriviaEnd,
         NEW limit \in from..TriviaEnd
  PROVE  /\ TriviaUpto(limit) \in Seq(TriviaPieces)
         /\ Fills(TriviaUpto(limit), 1, Len(TriviaUpto(limit)), from, limit)
<1> DEFINE run == TriviaRun
           parts == Clipped(run, from, limit)
           kept == Kept(run, from, limit)
<1>1. /\ run \in Seq(TriviaPieces) /\ Fills(run, 1, Len(run), Gap(next), TriviaEnd)
      /\ Gap(next) \in Nat /\ TriviaEnd \in Nat
  BY RunFills
<1>2. TriviaUpto(limit) = IF kept = {} THEN <<>> ELSE SubSeq(parts, Min(kept), Max(kept))
  BY DEF TriviaUpto, Clipped, Kept
<1>3. /\ Len(parts) = Len(run) /\ Len(run) \in Nat /\ from \in Nat /\ limit \in Nat
      /\ \A k \in 1..Len(run) : parts[k] = [kind |-> run[k].kind, from |-> Max2(from, run[k].from), to |-> Min2(limit, run[k].to)]
  BY <1>1 DEF Clipped
<1>4. \A k \in 1..Len(run) : run[k].kind \in TriviaKinds /\ run[k].from \in Nat /\ run[k].to \in Nat
  <2>1. \A k \in 1..Len(run) : run[k] \in TriviaPieces
    BY <1>1
  <2> QED
    BY <2>1 DEF TriviaPieces
<1>5. parts \in Seq(TriviaPieces)
  <2>1. ASSUME NEW k \in 1..Len(run)
        PROVE  parts[k] \in TriviaPieces
    <3>1. run[k].kind \in TriviaKinds /\ Max2(from, run[k].from) \in Nat /\ Min2(limit, run[k].to) \in Nat
      BY <1>3, <1>4 DEF Max2, Min2
    <3>2. parts[k] = [kind |-> run[k].kind, from |-> Max2(from, run[k].from), to |-> Min2(limit, run[k].to)]
      BY <1>3
    <3> QED
      BY <3>1, <3>2 DEF TriviaPieces
  <2>2. DOMAIN parts = 1..Len(run)
    BY DEF Clipped
  <2> QED
    BY <1>3, <2>1, <2>2 DEF Clipped
<1>6. CASE from < limit
  <2>1. PICK lo, hi \in 1..Len(run) : lo <= hi /\ kept = lo..hi /\ Fills(parts, lo, hi, from, limit)
    BY <1>1, <1>6, ClippedFills
  <2> HIDE DEF kept, parts, run
  <2>2. Min(kept) = lo /\ Max(kept) = hi /\ kept # {}
    <3>1. lo \in Nat /\ hi \in Nat /\ lo <= hi
      BY <2>1
    <3>2. Min(lo..hi) = lo /\ Max(lo..hi) = hi /\ lo..hi # {}
      BY <3>1, IntervalEnds
    <3> QED
      BY <2>1, <3>2
  <2>3. hi \in lo..Len(parts) /\ lo \in 1..Len(parts)
    BY <1>3, <2>1
  <2> QED
    BY <1>2, <1>5, <2>1, <2>2, <2>3, FillsAlone
<1>7. CASE ~(from < limit)
  <2>1. from = limit
    BY <1>1, <1>3, <1>7
  <2>2. ASSUME NEW k \in 1..Len(run)
        PROVE  ~(parts[k].from < parts[k].to)
    <3>0. run[k].from \in Nat /\ run[k].to \in Nat /\ from \in Nat
      BY <1>3, <1>4
    <3> HIDE DEF run
    <3>1. ~(Max2(from, run[k].from) < Min2(limit, run[k].to))
      BY <3>0, <2>1 DEF Max2, Min2
    <3>2. parts[k].from = Max2(from, run[k].from) /\ parts[k].to = Min2(limit, run[k].to)
      BY DEF Clipped
    <3> QED
      BY <3>1, <3>2
  <2>3. TriviaUpto(limit) = <<>>
    BY <1>2, <2>2 DEF Kept
  <2> QED
    BY <2>1, <2>3 DEF Fills
<1> QED
  BY <1>6, <1>7

\* The limits of the trivia policy lie between what is emitted and the token.
LEMMA LimitsLie ==
  ASSUME NEW u \in Nat, u = Unemitted, TriviaEnd \in Nat, u <= TriviaEnd
  PROVE  TrailingLimit \in u..TriviaEnd /\ DetachedLimit \in u..TriviaEnd
<1> DEFINE feeds == LineFeeds(Unemitted, TriviaEnd)
<1>1. feeds \in SUBSET (u..(TriviaEnd - 1)) /\ feeds \in SUBSET Nat /\ feeds \in SUBSET (0..TriviaEnd)
  BY DEF LineFeeds
<1>2. TrailingLimit = IF feeds = {} THEN TriviaEnd ELSE 1 + CHOOSE i \in feeds : \A j \in feeds : i <= j
  BY DEF TrailingLimit
<1>3. TrailingLimit \in u..TriviaEnd
  <2>1. CASE feeds = {}
    BY <1>2, <2>1
  <2>2. CASE feeds # {}
    <3> HIDE DEF feeds
    <3>1. PICK x \in feeds : \A j \in feeds : x <= j
      BY <1>1, <2>2, NatLeast
    <3>2. TrailingLimit = 1 + CHOOSE i \in feeds : \A j \in feeds : i <= j
      BY <1>2, <2>2
    <3>3. PICK m : m = CHOOSE i \in feeds : \A j \in feeds : i <= j
      OBVIOUS
    <3>4. m \in feeds
      BY <3>1, <3>3
    <3>5. m \in u..(TriviaEnd - 1)
      BY <1>1, <3>4
    <3> QED
      BY <3>2, <3>3, <3>5
  <2> QED
    BY <2>1, <2>2
<1> DEFINE blank(i) == \A k \in Unemitted..(i - 1) : LineFeeds(k, i) = {} => source[k] \in {" ", "cr"}
           ends == {i \in feeds : blank(i)}
<1>4. DetachedLimit = IF ends = {} THEN Unemitted ELSE 1 + CHOOSE i \in ends : \A j \in ends : j <= i
  BY DEF DetachedLimit
<1>5. ends \in SUBSET feeds
  OBVIOUS
<1> HIDE DEF ends, feeds
<1>6. DetachedLimit \in u..TriviaEnd
  <2>1. CASE ends = {}
    BY <1>4, <2>1
  <2>2. CASE ends # {}
    <3>0. ends \in SUBSET (0..TriviaEnd)
      BY <1>1, <1>5
    <3>1. PICK x \in ends : \A j \in ends : j <= x
      BY <2>2, <3>0, NatGreatest
    <3>2. DetachedLimit = 1 + CHOOSE i \in ends : \A j \in ends : j <= i
      BY <1>4, <2>2
    <3>3. PICK m : m = CHOOSE i \in ends : \A j \in ends : j <= i
      OBVIOUS
    <3>4. m \in ends
      BY <3>1, <3>3
    <3>5. m \in u..(TriviaEnd - 1)
      BY <1>1, <1>5, <3>4
    <3> QED
      BY <3>2, <3>3, <3>5
  <2> QED
    BY <2>1, <2>2
<1> QED
  BY <1>3, <1>6

-----------------------------------------------------------------------------
(* The leaves *)

Leaves == [kind : TokenKinds \cup TriviaKinds, from : Nat, to : Nat]
TokensIn(ls, i) == Cardinality({j \in 1..i : ~IsTrivia(ls[j])})
LeafOf(i) == [kind |-> tokens[i].kind, from |-> tokens[i].from, to |-> tokens[i].to]

\* The leaves tile the file up to a byte, and the tokens among them are those
\* before the n-th.
Covers(ls, n, end) ==
  /\ ls \in Seq(Leaves)
  /\ \A i \in 1..Len(ls) : ls[i].from = IF i = 1 THEN 1 ELSE ls[i - 1].to
  /\ end = IF Len(ls) = 0 THEN 1 ELSE ls[Len(ls)].to
  /\ TokensIn(ls, Len(ls)) = n - 1
  /\ \A i \in 1..Len(ls) : ~IsTrivia(ls[i]) => ls[i] = LeafOf(TokensIn(ls, i))

LEMMA CoversTrivia ==
  ASSUME NEW ls, NEW n \in Nat, NEW middle \in Nat, NEW end \in Nat, Covers(ls, n, middle),
         NEW run \in Seq(TriviaPieces), Fills(run, 1, Len(run), middle, end)
  PROVE  Covers(ls \o run, n, end) /\ Len(ls) <= Len(ls \o run)
<1> DEFINE more == ls \o run
           m == Len(ls)
<1>0. ls \in Seq(Leaves)
  BY DEF Covers
<1>1. \A k \in 1..Len(run) : run[k] \in TriviaPieces /\ IsTrivia(run[k]) /\ run[k] \in Leaves
  <2>1. \A k \in 1..Len(run) : run[k] \in TriviaPieces
    OBVIOUS
  <2> QED
    BY <2>1 DEF TriviaPieces, Leaves, IsTrivia, TriviaKinds
<1>2. run \in Seq(Leaves)
  BY <1>1
<1>3. /\ more \in Seq(Leaves) /\ Len(more) = m + Len(run) /\ m \in Nat /\ Len(run) \in Nat
      /\ \A k \in 1..m : more[k] = ls[k]
      /\ \A k \in 1..Len(run) : more[m + k] = run[k]
  BY <1>0, <1>2
<1>4. \A k \in (m + 1)..Len(more) : k - m \in 1..Len(run) /\ more[k] = run[k - m]
  <2> TAKE k \in (m + 1)..Len(more)
  <2>1. k - m \in 1..Len(run) /\ m + (k - m) = k
    BY <1>3
  <2> QED
    BY <1>3, <2>1
<1>5. /\ \A k \in 1..m : ls[k].from = IF k = 1 THEN 1 ELSE ls[k - 1].to
      /\ middle = IF m = 0 THEN 1 ELSE ls[m].to
      /\ TokensIn(ls, m) = n - 1
      /\ \A k \in 1..m : ~IsTrivia(ls[k]) => ls[k] = LeafOf(TokensIn(ls, k))
  BY DEF Covers
<1> HIDE DEF more, m
<1>6. \A k \in 1..m : TokensIn(more, k) = TokensIn(ls, k)
  <2> TAKE k \in 1..m
  <2>1. {j \in 1..k : ~IsTrivia(more[j])} = {j \in 1..k : ~IsTrivia(ls[j])}
    BY <1>3
  <2> QED
    BY <2>1 DEF TokensIn
<1>7. TokensIn(more, Len(more)) = n - 1
  <2>1. \A k \in 1..Len(more) : k \in 1..m \/ (k \in (m + 1)..Len(more) /\ IsTrivia(more[k]))
    BY <1>1, <1>3, <1>4
  <2>2. \A k \in 1..m : k \in 1..Len(more)
    BY <1>3
  <2>3. {j \in 1..Len(more) : ~IsTrivia(more[j])} = {j \in 1..m : ~IsTrivia(ls[j])}
    BY <1>3, <2>1, <2>2
  <2> QED
    BY <1>5, <2>3 DEF TokensIn
<1>8. ASSUME NEW k \in 1..Len(more), ~IsTrivia(more[k])
      PROVE  more[k] = LeafOf(TokensIn(more, k))
  <2>1. k \in 1..m
    BY <1>1, <1>3, <1>4, <1>8
  <2> QED
    BY <1>3, <1>5, <1>6, <1>8, <2>1
<1>9. CASE Len(run) = 0
  <2>1. middle = end
    BY <1>9 DEF Fills
  <2>2. /\ Len(more) = m
        /\ \A k \in 1..m : k # 1 => k - 1 \in 1..m
        /\ m # 0 => m \in 1..m
    BY <1>3, <1>9
  <2>3. \A k \in 1..Len(more) : more[k].from = IF k = 1 THEN 1 ELSE more[k - 1].to
    BY <1>3, <1>5, <2>2
  <2>4. end = IF Len(more) = 0 THEN 1 ELSE more[Len(more)].to
    BY <1>3, <1>5, <2>1, <2>2
  <2> QED
    BY <1>3, <1>7, <1>8, <2>2, <2>3, <2>4 DEF Covers, more, m
<1>10. CASE Len(run) # 0
  <2>1. ~(Len(run) < 1)
    BY <1>3, <1>10
  <2>2. /\ run[1].from = middle /\ run[Len(run)].to = end
        /\ \A k \in 2..Len(run) : run[k].from = run[k - 1].to
    <3>1. 1 + 1 = 2
      OBVIOUS
    <3> QED
      BY <2>1, <3>1 DEF Fills
  <2>3. ASSUME NEW k \in 1..Len(more)
        PROVE  more[k].from = IF k = 1 THEN 1 ELSE more[k - 1].to
    <3>1. CASE k \in 1..m
      <4>1. k # 1 => k - 1 \in 1..m
        BY <1>3, <3>1
      <4> QED
        BY <1>3, <1>5, <3>1, <4>1
    <3>2. CASE k = m + 1
      <4>1. more[k] = run[1]
        BY <1>3, <2>1, <3>2
      <4>2. k # 1 => k - 1 = m /\ m \in 1..m
        BY <1>3, <3>2
      <4>3. k = 1 <=> m = 0
        BY <1>3, <3>2
      <4> QED
        BY <1>3, <1>5, <2>2, <4>1, <4>2, <4>3
    <3>3. CASE k \notin 1..m /\ k # m + 1
      <4>1. /\ k \in (m + 1)..Len(more) /\ k - 1 \in (m + 1)..Len(more) /\ k # 1
            /\ k - m \in 2..Len(run) /\ (k - m) - 1 = (k - 1) - m
        BY <1>3, <3>3
      <4> QED
        BY <1>4, <2>2, <4>1
    <3> QED
      BY <3>1, <3>2, <3>3
  <2>4. Len(more) # 0 /\ more[Len(more)] = run[Len(run)] /\ m <= Len(more)
    BY <1>3, <2>1
  <2> QED
    BY <1>3, <1>7, <1>8, <2>2, <2>3, <2>4 DEF Covers, more, m
<1> QED
  BY <1>9, <1>10

LEMMA CoversToken ==
  ASSUME NEW ls, NEW n \in Nat, tokens[n] \in Tokens, Covers(ls, n, tokens[n].from)
  PROVE  /\ Covers(Append(ls, LeafOf(n)), n + 1, tokens[n].to)
         /\ Len(Append(ls, LeafOf(n))) = Len(ls) + 1
<1> DEFINE x == LeafOf(n)
           more == Append(ls, x)
           m == Len(ls)
<1>0. ls \in Seq(Leaves)
  BY DEF Covers
<1>1. x \in Leaves /\ ~IsTrivia(x) /\ x.from = tokens[n].from /\ x.to = tokens[n].to
  BY DEF LeafOf, Leaves, Tokens, IsTrivia, TokenKinds
<1> HIDE DEF x
<1>2. /\ more \in Seq(Leaves) /\ Len(more) = m + 1 /\ m \in Nat
      /\ \A k \in 1..m : more[k] = ls[k]
      /\ more[m + 1] = x
  BY <1>0, <1>1
<1>3. /\ \A k \in 1..m : ls[k].from = IF k = 1 THEN 1 ELSE ls[k - 1].to
      /\ tokens[n].from = IF m = 0 THEN 1 ELSE ls[m].to
      /\ TokensIn(ls, m) = n - 1
      /\ \A k \in 1..m : ~IsTrivia(ls[k]) => ls[k] = LeafOf(TokensIn(ls, k))
  BY DEF Covers
<1> HIDE DEF more, m
<1>4. \A k \in 1..m : TokensIn(more, k) = TokensIn(ls, k)
  <2> TAKE k \in 1..m
  <2>1. {j \in 1..k : ~IsTrivia(more[j])} = {j \in 1..k : ~IsTrivia(ls[j])}
    BY <1>2
  <2> QED
    BY <2>1 DEF TokensIn
<1>5. TokensIn(more, m + 1) = n
  <2> DEFINE before == {j \in 1..m : ~IsTrivia(ls[j])}
  <2>1. {j \in 1..(m + 1) : ~IsTrivia(more[j])} = before \cup {m + 1}
    <3>1. \A j : j \in 1..(m + 1) <=> (j \in 1..m \/ j = m + 1)
      BY <1>2
    <3> QED
      BY <1>1, <1>2, <3>1
  <2>2. IsFiniteSet(before)
    <3>1. IsFiniteSet(1..m)
      BY <1>2, FS_Interval
    <3> QED
      BY <3>1, FS_Subset
  <2>3. m + 1 \notin before
    BY <1>2
  <2>4. Cardinality(before) = n - 1
    BY <1>3 DEF TokensIn
  <2> HIDE DEF before
  <2>5. Cardinality(before \cup {m + 1}) = Cardinality(before) + 1
    BY <2>2, <2>3, FS_AddElement
  <2>6. TokensIn(more, m + 1) = Cardinality(before \cup {m + 1})
    BY <2>1, Zenon DEF TokensIn
  <2> QED
    BY <2>4, <2>5, <2>6
<1>6. ASSUME NEW k \in 1..(m + 1)
      PROVE  /\ more[k].from = IF k = 1 THEN 1 ELSE more[k - 1].to
             /\ ~IsTrivia(more[k]) => more[k] = LeafOf(TokensIn(more, k))
  <2>1. CASE k \in 1..m
    <3>1. k # 1 => k - 1 \in 1..m
      BY <1>2, <2>1
    <3> QED
      BY <1>2, <1>3, <1>4, <2>1, <3>1
  <2>2. CASE k = m + 1
    <3>1. (k = 1 <=> m = 0) /\ (k # 1 => k - 1 = m /\ m \in 1..m)
      BY <1>2, <2>2
    <3>2. more[k] = x
      BY <1>2, <2>2
    <3>3. more[k].from = IF k = 1 THEN 1 ELSE more[k - 1].to
      BY <1>1, <1>2, <1>3, <3>1, <3>2
    <3> QED
      BY <1>5, <2>2, <3>2, <3>3 DEF x
  <2> QED
    BY <1>2, <2>1, <2>2
<1>7. more[m + 1].to = tokens[n].to /\ m + 1 # 0 /\ (n + 1) - 1 = n
  BY <1>1, <1>2
<1> QED
  BY <1>2, <1>5, <1>6, <1>7 DEF Covers, more, m, x

\* How far the leaves reach.
Here == IF cursor = 0 THEN Gap(next) ELSE cursor
LeavesReach ==
  /\ cursor \in Nat
  /\ Here \in Gap(next)..TriviaEnd
  /\ Covers(leaves, next, Here)

LEMMA CoversPrimed ==
  ASSUME tokens' = tokens
  PROVE  Covers(leaves, next, Here)' <=> Covers(leaves', next', Here')
BY DEF Covers, LeafOf, TokensIn, IsTrivia

LEMMA ReadingToken == Reading => Tok(0) = tokens[next]
BY AtToken

LEMMA ReadingOn ==
  ASSUME Reading, UNCHANGED lexing, next' \in 1..Len(tokens)
  PROVE  Reading' /\ TriviaEnd' = tokens[next'].from /\ Gap(next)' = Gap(next')
<1>1. /\ source' = source /\ pos' = pos /\ trivia' = trivia /\ tokens' = tokens
      /\ consumed' = consumed /\ reports' = reports
  BY DEF lexing
<1>2. LexerInvariant'
  BY InvariantStep DEF Reading
<1>3. Lexed'
  BY <1>1 DEF Reading, Lexed
<1>4. Reading' /\ Gap(next)' = Gap(next')
  BY <1>1, <1>2, <1>3 DEF Reading, Gap
<1>6. (Reading => Tok(0) = tokens[next])'
  BY ReadingToken, PTL
<1> QED
  BY <1>1, <1>4, <1>6 DEF TriviaEnd

LEMMA UnemittedIsHere ==
  ASSUME Reading, LeavesReach
  PROVE  /\ Here = (IF cursor = 0 THEN TriviaStart ELSE cursor) /\ Unemitted = Here
         /\ Here \in Nat /\ TriviaEnd \in Nat /\ Here <= TriviaEnd /\ Gap(next) \in Nat /\ Gap(next) <= Here
BY RunFills DEF Unemitted, Max2, Here, LeavesReach

\* A limit of the trivia is where it then has been emitted to.
LEMMA EmitsTrivia ==
  ASSUME Reading, LeavesReach, NEW limit \in Here..TriviaEnd, leaves' = leaves \o TriviaUpto(limit),
         cursor' = Max2(Unemitted, limit), next' = next, UNCHANGED lexing
  PROVE  LeavesReach' /\ Here' = limit /\ Len(leaves) <= Len(leaves')
<1>1. /\ Here = (IF cursor = 0 THEN TriviaStart ELSE cursor) /\ Unemitted = Here
      /\ Here \in Nat /\ TriviaEnd \in Nat /\ Here <= TriviaEnd /\ Gap(next) \in Nat /\ Gap(next) <= Here
  BY UnemittedIsHere
<1>2. /\ TriviaUpto(limit) \in Seq(TriviaPieces)
      /\ Fills(TriviaUpto(limit), 1, Len(TriviaUpto(limit)), Here, limit)
  <2>1. Here \in Gap(next)..TriviaEnd
    BY DEF LeavesReach
  <2> QED
    BY <1>1, <2>1, UptoFills
<1>3. cursor' = limit /\ limit \in Nat
  BY <1>1 DEF Max2
<1>4. next \in Nat /\ tokens' = tokens /\ next' \in 1..Len(tokens)
  BY AtToken DEF Reading, lexing
<1>5. Covers(leaves', next, limit) /\ Len(leaves) <= Len(leaves')
  BY <1>1, <1>2, <1>3, <1>4, CoversTrivia DEF LeavesReach
<1>6. Gap(next)' = Gap(next) /\ TriviaEnd' = TriviaEnd
  BY <1>4, ReadingOn, RunFills
<1>7. Here' = limit
  BY <1>1, <1>3, <1>6 DEF Here
<1>8. Here' \in (Gap(next)')..(TriviaEnd')
  BY <1>1, <1>3, <1>6, <1>7
<1> QED
  BY <1>3, <1>4, <1>5, <1>7, <1>8, CoversPrimed DEF LeavesReach

LEMMA EmitsToken ==
  ASSUME Reading, LeavesReach, next < Len(tokens), EmitToken, UNCHANGED lexing
  PROVE  LeavesReach' /\ Reading' /\ Len(leaves) < Len(leaves')
<1>1. /\ Here = (IF cursor = 0 THEN TriviaStart ELSE cursor)
      /\ Here \in Nat /\ TriviaEnd \in Nat /\ Here <= TriviaEnd
  BY UnemittedIsHere
<1>2. /\ Here \in Gap(next)..TriviaEnd /\ TriviaEnd \in Here..TriviaEnd
      /\ Covers(leaves, next, Here) /\ TriviaEnd = tokens[next].from
  BY <1>1, RunFills DEF LeavesReach
<1> DEFINE run == TriviaUpto(TriviaEnd)
<1>3. run \in Seq(TriviaPieces) /\ Fills(run, 1, Len(run), Here, TriviaEnd)
  BY <1>1, <1>2, UptoFills
<1>4. next \in Nat /\ next \in 1..Len(tokens) /\ Len(tokens) \in Nat /\ Tok(0) = tokens[next] /\ tokens' = tokens
  BY AtToken DEF Reading, lexing
<1>5. Covers(leaves \o run, next, tokens[next].from) /\ Len(leaves) <= Len(leaves \o run)
  BY <1>1, <1>2, <1>3, <1>4, CoversTrivia
<1>6. leaves' = Append(leaves \o run, LeafOf(next)) /\ next' = next + 1 /\ cursor' = 0
  BY <1>4 DEF EmitToken, LeafOf, Kind
<1> HIDE DEF run
<1>7. tokens[next] \in Tokens /\ tokens[next].to \in Nat /\ Gap(next + 1) = tokens[next].to
  BY <1>4, Read
<1>8. Covers(leaves', next + 1, tokens[next].to) /\ Len(leaves') = Len(leaves \o run) + 1
  BY <1>4, <1>5, <1>6, <1>7, CoversToken
<1>9. Len(leaves) \in Nat /\ Len(leaves \o run) \in Nat
  BY <1>2, <1>5 DEF Covers
<1>10. next' \in 1..Len(tokens) /\ next + 1 \in 1..Len(tokens)
  BY <1>4, <1>6
<1>11. Reading' /\ TriviaEnd' = tokens[next + 1].from /\ Gap(next)' = tokens[next].to
  BY <1>6, <1>7, <1>10, ReadingOn
<1>12. tokens[next + 1].from \in Nat /\ tokens[next].to <= tokens[next + 1].from
  BY <1>7, <1>10, Read
<1>13. Here' = tokens[next].to
  BY <1>6, <1>11 DEF Here
<1>14. Here' \in (Gap(next)')..(TriviaEnd') /\ cursor' \in Nat
  BY <1>6, <1>7, <1>11, <1>12, <1>13
<1>15. LeavesReach'
  BY <1>4, <1>6, <1>8, <1>13, <1>14, CoversPrimed DEF LeavesReach
<1> QED
  BY <1>5, <1>8, <1>9, <1>11, <1>15

-----------------------------------------------------------------------------
(* The nodes *)

NodeKinds == {"File", "Statement", "Key", "Value", "Annotation", "Block", "Scalar", "TypeExpr", "Call", "Error"}
Opened == [kind : NodeKinds, first : Nat]

\* The open nodes start one after the other, and each finished one lies before an
\* open one or inside it.
Nested ==
  /\ open \in Seq(Opened)
  /\ \A k \in 1..Len(open) : open[k].first \in 1..(Len(leaves) + 1)
  /\ \A j, k \in 1..Len(open) : j < k => open[j].first <= open[k].first
  /\ \A n \in nodes : n.first \in Nat /\ n.last \in Nat /\ n.last <= Len(leaves)
  /\ \A n \in nodes, k \in 1..Len(open) : n.last < open[k].first \/ open[k].first <= n.first
  /\ \A m, n \in nodes :
       m.last < n.first \/ n.last < m.first \/ (m.first <= n.first /\ n.last <= m.last)
                        \/ (n.first <= m.first /\ m.last <= n.last)

\* No node has ended since the last leaf, and none has started.
Fresh ==
  /\ Len(leaves) # 0
  /\ \A n \in nodes : n.last < Len(leaves)
  /\ \A k \in 1..Len(open) : open[k].first <= Len(leaves)

LEMMA NestedGrows ==
  ASSUME Nested, Len(leaves) \in Nat, Len(leaves') \in Nat, Len(leaves) <= Len(leaves'),
         open' = open, nodes' = nodes
  PROVE  Nested' /\ (Len(leaves) < Len(leaves') => Fresh')
<1>1. /\ open \in Seq(Opened)
      /\ \A k \in 1..Len(open) : open[k].first \in 1..(Len(leaves) + 1)
      /\ \A n \in nodes : n.first \in Nat /\ n.last \in Nat /\ n.last <= Len(leaves)
  BY DEF Nested
<1>2. /\ \A k \in 1..Len(open) : open[k].first \in 1..(Len(leaves') + 1)
      /\ \A n \in nodes : n.last <= Len(leaves')
  BY <1>1
<1>3. Nested'
  BY <1>1, <1>2 DEF Nested
<1>4. Len(leaves) < Len(leaves') => Fresh'
  BY <1>1 DEF Fresh
<1> QED
  BY <1>3, <1>4

\* A node is opened here, or around the leaf just emitted.
LEMMA NestedOpens ==
  ASSUME Nested, Len(leaves) \in Nat, NEW kind \in NodeKinds, NEW first \in Nat,
         first = Len(leaves) + 1 \/ (first = Len(leaves) /\ first # 0 /\ Fresh),
         open' = Append(open, [kind |-> kind, first |-> first]), nodes' = nodes, leaves' = leaves
  PROVE  Nested' /\ Len(open') = Len(open) + 1
<1> DEFINE x == [kind |-> kind, first |-> first]
<1>1. /\ open \in Seq(Opened) /\ Len(open) \in Nat
      /\ \A k \in 1..Len(open) : open[k].first \in 1..(Len(leaves) + 1)
      /\ \A j, k \in 1..Len(open) : j < k => open[j].first <= open[k].first
      /\ \A n \in nodes : n.first \in Nat /\ n.last \in Nat /\ n.last <= Len(leaves)
      /\ \A n \in nodes, k \in 1..Len(open) : n.last < open[k].first \/ open[k].first <= n.first
  BY DEF Nested
<1>2. x \in Opened /\ x.first = first
  BY DEF Opened
<1> HIDE DEF x
<1>3. /\ open' \in Seq(Opened) /\ Len(open') = Len(open) + 1 /\ open'[Len(open) + 1] = x
      /\ \A k \in 1..Len(open) : open'[k] = open[k]
  BY <1>1, <1>2 DEF x
<1>4. \A k \in 1..(Len(open) + 1) : k \in 1..Len(open) \/ k = Len(open) + 1
  BY <1>1
<1>5. /\ \A k \in 1..Len(open) : open[k].first <= first
      /\ \A n \in nodes : n.last < first
      /\ first \in 1..(Len(leaves) + 1)
  BY <1>1 DEF Fresh
<1>6. \A k \in 1..Len(open') : open'[k].first \in 1..(Len(leaves) + 1)
  BY <1>1, <1>2, <1>3, <1>4, <1>5
<1>7. ASSUME NEW j \in 1..Len(open'), NEW k \in 1..Len(open'), j < k
      PROVE  open'[j].first <= open'[k].first
  <2>1. j \in 1..Len(open)
    BY <1>1, <1>3, <1>7
  <2>2. CASE k \in 1..Len(open)
    BY <1>1, <1>3, <1>7, <2>1, <2>2
  <2>3. CASE k = Len(open) + 1
    BY <1>2, <1>3, <1>5, <2>1, <2>3
  <2> QED
    BY <1>3, <1>4, <2>2, <2>3
<1>8. \A n \in nodes, k \in 1..Len(open') : n.last < open'[k].first \/ open'[k].first <= n.first
  BY <1>1, <1>2, <1>3, <1>4, <1>5
<1> QED
  BY <1>1, <1>3, <1>6, <1>7, <1>8 DEF Nested

LEMMA NestedCloses ==
  ASSUME Nested, Len(leaves) \in Nat, open # <<>>, leaves' = leaves, open' = Front(open),
         NEW kind, nodes' = nodes \cup {[kind |-> kind, first |-> open[Len(open)].first, last |-> Len(leaves)]}
  PROVE  Nested' /\ Len(open') = Len(open) - 1
<1> DEFINE top == Len(open)
           x == [kind |-> kind, first |-> open[top].first, last |-> Len(leaves)]
<1>1. /\ open \in Seq(Opened)
      /\ \A k \in 1..Len(open) : open[k].first \in 1..(Len(leaves) + 1)
      /\ \A j, k \in 1..Len(open) : j < k => open[j].first <= open[k].first
      /\ \A n \in nodes : n.first \in Nat /\ n.last \in Nat /\ n.last <= Len(leaves)
      /\ \A n \in nodes, k \in 1..Len(open) : n.last < open[k].first \/ open[k].first <= n.first
      /\ \A m, n \in nodes :
           m.last < n.first \/ n.last < m.first \/ (m.first <= n.first /\ n.last <= m.last)
                            \/ (n.first <= m.first /\ m.last <= n.last)
  BY DEF Nested
<1>2. top \in 1..Len(open) /\ top \in Nat /\ top >= 1
  BY <1>1, EmptySeq
<1>3. /\ open' \in Seq(Opened) /\ Len(open') = top - 1
      /\ \A k \in 1..(top - 1) : open'[k] = open[k] /\ k \in 1..Len(open) /\ k < top
  <2>1. open' = SubSeq(open, 1, top - 1)
    BY DEF Front
  <2>2. 1 \in 1..(Len(open) + 1) /\ top - 1 \in 0..Len(open) /\ top - 1 >= 1 - 1
    BY <1>2
  <2> HIDE DEF top, x
  <2>3. /\ open' \in Seq(Opened) /\ Len(open') = (top - 1) - 1 + 1
        /\ \A k \in 1..((top - 1) - 1 + 1) : open'[k] = open[1 + k - 1]
    BY <1>1, <1>2, <2>1, <2>2, SubSeqProperties
  <2>4. \A k \in 1..(top - 1) : k \in 1..((top - 1) - 1 + 1) /\ 1 + k - 1 = k /\ k < top /\ k \in 1..Len(open)
    BY <1>2
  <2>5. (top - 1) - 1 + 1 = top - 1
    BY <1>2
  <2> QED
    BY <2>3, <2>4, <2>5
<1>4. x.first = open[top].first /\ x.last = Len(leaves) /\ open[top].first \in Nat
  BY <1>1, <1>2
<1> HIDE DEF x, top
<1>5. \A k \in 1..Len(open') : open'[k] = open[k] /\ k \in 1..Len(open) /\ k < top
  BY <1>3
<1>6. \A k \in 1..Len(open') : open'[k].first \in 1..(Len(leaves) + 1) /\ open'[k].first <= x.first
  BY <1>1, <1>2, <1>4, <1>5
<1>7. \A j, k \in 1..Len(open') : j < k => open'[j].first <= open'[k].first
  BY <1>1, <1>5
<1>8. nodes' = nodes \cup {x}
  BY DEF x, top
<1>9. \A n \in nodes' : n.first \in Nat /\ n.last \in Nat /\ n.last <= Len(leaves)
  BY <1>1, <1>4, <1>8
<1>10. \A n \in nodes', k \in 1..Len(open') : n.last < open'[k].first \/ open'[k].first <= n.first
  BY <1>1, <1>5, <1>6, <1>8
<1>11. \A n \in nodes : n.last < x.first \/ (x.first <= n.first /\ n.last <= x.last)
  BY <1>1, <1>2, <1>4
<1>12. x.first <= x.first /\ x.last <= x.last
  BY <1>4
<1>13. \A m, n \in nodes' :
         m.last < n.first \/ n.last < m.first \/ (m.first <= n.first /\ n.last <= m.last)
                          \/ (n.first <= m.first /\ m.last <= n.last)
  BY <1>1, <1>8, <1>11, <1>12
<1> QED
  BY <1>3, <1>6, <1>7, <1>9, <1>10, <1>13 DEF Nested, top

-----------------------------------------------------------------------------
(* Scripts *)

\* The calls that look at the next token, and those of them made right after a
\* name has been emitted.
NamedDecisions == {<<"named value">>, <<"named type">>, <<"named argument">>}
Decisions == {<<"value">>, <<"annotated">>, <<"annotation">>, <<"annotation argument">>, <<"scalar">>, <<"strings">>,
            <<"type argument">>, <<"after type">>, <<"call argument">>, <<"after argument">>} \cup NamedDecisions
\* The others, but for parse_scalar, which is called where a scalar starts.
PlainDecisions == Decisions \ (NamedDecisions \cup {<<"scalar">>})
Shapes == SUBSET {"statement", "scalar"}
Entries == {Flush, Detach, Trail, Token, Finish} \cup Decisions
           \cup {Start(kind) : kind \in NodeKinds} \cup {Wrap(kind) : kind \in NodeKinds}
           \cup {Items(opened, shape) : opened \in Nat, shape \in Shapes}

\* What is known before a call: how many nodes are open, how many tokens will be
\* taken before the next one is looked at, whether a token has just been (1), and
\* whether the items of the file are done (1).
Places == [depth : Nat, tokens : Nat, fresh : 0..1, last : 0..1]
Place(depth, taken, fresh, last) == [depth |-> depth, tokens |-> taken, fresh |-> fresh, last |-> last]

\* What a call does to it.
Step(call, p, q) ==
  /\ p.last = 0
  /\ \/ /\ call \in {Flush, Detach, Trail}
        /\ q = Place(p.depth, p.tokens, 0, 0)
     \/ /\ call = Token
        /\ p.tokens = q.tokens + 1 /\ q.depth = p.depth /\ q.last = 0
     \/ /\ \E kind \in NodeKinds : call = Start(kind) \/ (call = Wrap(kind) /\ p.fresh = 1)
        /\ q = Place(p.depth + 1, p.tokens, 0, 0)
     \/ /\ call = Finish
        /\ p.depth = q.depth + 1 /\ q = Place(q.depth, p.tokens, 0, 0)
     \/ /\ call \in Decisions /\ (call \in NamedDecisions => p.fresh = 1)
        /\ call = <<"scalar">> => p.tokens # 0
        /\ q = Place(p.depth, 0, 0, 0)
     \/ \E opened \in Nat, shape \in Shapes :
          /\ call = Items(opened, shape)
          /\ p.depth = q.depth + 1 /\ q = Place(q.depth, 0, 0, IF opened = 0 THEN 1 ELSE 0)

\* The calls lead from one place to another.
Leads(calls, p, q) ==
  /\ calls \in Seq(Entries)
  /\ \E at \in Seq(Places) :
       /\ Len(at) = Len(calls) + 1 /\ at[1] = p /\ at[Len(at)] = q
       /\ \A k \in 1..Len(calls) : Step(calls[k], at[k], at[k + 1])

LEMMA StepIsEntry ==
  ASSUME NEW call, NEW p, NEW q, Step(call, p, q)
  PROVE  call \in Entries
<1>1. \/ call \in {Flush, Detach, Trail, Token, Finish} \cup Decisions
      \/ \E kind \in NodeKinds : call = Start(kind) \/ call = Wrap(kind)
      \/ \E opened \in Nat, shape \in Shapes : call = Items(opened, shape)
  BY Zenon DEF Step
<1>2. ASSUME NEW opened \in Nat, NEW shape \in Shapes
      PROVE  Items(opened, shape) \in {Items(o, s) : o \in Nat, s \in Shapes}
  OBVIOUS
<1>3. ASSUME NEW kind \in NodeKinds
      PROVE  Start(kind) \in {Start(k) : k \in NodeKinds} /\ Wrap(kind) \in {Wrap(k) : k \in NodeKinds}
  OBVIOUS
<1>4. \A opened \in Nat, shape \in Shapes : Items(opened, shape) \in Entries
  BY <1>2 DEF Entries
<1>5. \A kind \in NodeKinds : Start(kind) \in Entries /\ Wrap(kind) \in Entries
  BY <1>3 DEF Entries
<1>6. \A e \in {Flush, Detach, Trail, Token, Finish} \cup Decisions : e \in Entries
  BY DEF Entries
<1> QED
  BY <1>1, <1>4, <1>5, <1>6

LEMMA PlaceIsPlace ==
  ASSUME NEW d \in Nat, NEW n \in Nat, NEW f \in 0..1, NEW l \in 0..1
  PROVE  /\ Place(d, n, f, l) \in Places
         /\ Place(d, n, f, l).depth = d /\ Place(d, n, f, l).tokens = n
         /\ Place(d, n, f, l).fresh = f /\ Place(d, n, f, l).last = l
BY DEF Place, Places

LEMMA LeadsNowhere ==
  ASSUME NEW p \in Places
  PROVE  Leads(<<>>, p, p)
<1>1. <<p>> \in Seq(Places) /\ Len(<<p>>) = 1 /\ <<p>>[1] = p
  OBVIOUS
<1>2. <<>> \in Seq(Entries) /\ Len(<<>>) = 0 /\ 1..0 = {}
  OBVIOUS
<1>3. PICK at \in Seq(Places) : Len(at) = 1 /\ at[1] = p
  BY <1>1
<1> QED
  BY <1>2, <1>3 DEF Leads

Moves(call, p, q) == p \in Places /\ q \in Places /\ Step(call, p, q)

LEMMA LeadsOnce ==
  ASSUME NEW a, NEW p0, NEW p1,
         Moves(a, p0, p1)
  PROVE  Leads(<<a>>, p0, p1)
<1>1. a \in Entries
  BY StepIsEntry DEF Moves
<1>2. p0 \in Places /\ p1 \in Places
  BY DEF Moves
<1>3. PICK at \in Seq(Places) : /\ at = <<p0, p1>> /\ Len(at) = 2
                                  /\ at[1] = p0 /\ at[2] = p1
  <2>1. <<p0, p1>> \in Seq(Places)
    BY <1>2
  <2> QED
    BY <2>1
<1>4. PICK calls \in Seq(Entries) : /\ calls = <<a>> /\ Len(calls) = 1
                                      /\ calls[1] = a
  <2>1. <<a>> \in Seq(Entries)
    BY <1>1
  <2> QED
    BY <2>1
<1>5. \A k \in 1..1 : Step(calls[k], at[k], at[k + 1])
  <2>1. \A k \in 1..1 : (k = 1 /\ k + 1 = 2)
    OBVIOUS
  <2>2. Step(a, p0, p1)
    BY DEF Moves
  <2> QED
    BY <1>3, <1>4, <2>1, <2>2
<1>6. Len(calls) = 1 /\ Len(at) = Len(calls) + 1 /\ at[1] = p0 /\ at[Len(at)] = p1
  BY <1>3, <1>4
<1>7. Leads(calls, p0, p1)
  BY <1>5, <1>6 DEF Leads
<1> QED
  BY <1>4, <1>7

LEMMA LeadsTwo ==
  ASSUME NEW a, NEW b, NEW p0, NEW p1, NEW p2,
         Moves(a, p0, p1), Moves(b, p1, p2)
  PROVE  Leads(<<a, b>>, p0, p2)
<1>1. a \in Entries /\ b \in Entries
  BY StepIsEntry DEF Moves
<1>2. p0 \in Places /\ p1 \in Places /\ p2 \in Places
  BY DEF Moves
<1>3. PICK at \in Seq(Places) : /\ at = <<p0, p1, p2>> /\ Len(at) = 3
                                  /\ at[1] = p0 /\ at[2] = p1 /\ at[3] = p2
  <2>1. <<p0, p1, p2>> \in Seq(Places)
    BY <1>2
  <2> QED
    BY <2>1
<1>4. PICK calls \in Seq(Entries) : /\ calls = <<a, b>> /\ Len(calls) = 2
                                      /\ calls[1] = a /\ calls[2] = b
  <2>1. <<a, b>> \in Seq(Entries)
    BY <1>1
  <2> QED
    BY <2>1
<1>5. \A k \in 1..2 : Step(calls[k], at[k], at[k + 1])
  <2>1. \A k \in 1..2 : (k = 1 /\ k + 1 = 2) \/ (k = 2 /\ k + 1 = 3)
    OBVIOUS
  <2>2. Step(a, p0, p1) /\ Step(b, p1, p2)
    BY DEF Moves
  <2> QED
    BY <1>3, <1>4, <2>1, <2>2
<1>6. Len(calls) = 2 /\ Len(at) = Len(calls) + 1 /\ at[1] = p0 /\ at[Len(at)] = p2
  BY <1>3, <1>4
<1>7. Leads(calls, p0, p2)
  BY <1>5, <1>6 DEF Leads
<1> QED
  BY <1>4, <1>7

LEMMA LeadsThree ==
  ASSUME NEW a, NEW b, NEW c, NEW p0, NEW p1, NEW p2, NEW p3,
         Moves(a, p0, p1), Moves(b, p1, p2), Moves(c, p2, p3)
  PROVE  Leads(<<a, b, c>>, p0, p3)
<1>1. a \in Entries /\ b \in Entries /\ c \in Entries
  BY StepIsEntry DEF Moves
<1>2. p0 \in Places /\ p1 \in Places /\ p2 \in Places /\ p3 \in Places
  BY DEF Moves
<1>3. PICK at \in Seq(Places) : /\ at = <<p0, p1, p2, p3>> /\ Len(at) = 4
                                  /\ at[1] = p0 /\ at[2] = p1 /\ at[3] = p2 /\ at[4] = p3
  <2>1. <<p0, p1, p2, p3>> \in Seq(Places)
    BY <1>2
  <2> QED
    BY <2>1
<1>4. PICK calls \in Seq(Entries) : /\ calls = <<a, b, c>> /\ Len(calls) = 3
                                      /\ calls[1] = a /\ calls[2] = b /\ calls[3] = c
  <2>1. <<a, b, c>> \in Seq(Entries)
    BY <1>1
  <2> QED
    BY <2>1
<1>5. \A k \in 1..3 : Step(calls[k], at[k], at[k + 1])
  <2>1. \A k \in 1..3 : (k = 1 /\ k + 1 = 2) \/ (k = 2 /\ k + 1 = 3) \/ (k = 3 /\ k + 1 = 4)
    OBVIOUS
  <2>2. Step(a, p0, p1) /\ Step(b, p1, p2) /\ Step(c, p2, p3)
    BY DEF Moves
  <2> QED
    BY <1>3, <1>4, <2>1, <2>2
<1>6. Len(calls) = 3 /\ Len(at) = Len(calls) + 1 /\ at[1] = p0 /\ at[Len(at)] = p3
  BY <1>3, <1>4
<1>7. Leads(calls, p0, p3)
  BY <1>5, <1>6 DEF Leads
<1> QED
  BY <1>4, <1>7

LEMMA LeadsFour ==
  ASSUME NEW a, NEW b, NEW c, NEW d, NEW p0, NEW p1, NEW p2, NEW p3, NEW p4,
         Moves(a, p0, p1), Moves(b, p1, p2), Moves(c, p2, p3), Moves(d, p3, p4)
  PROVE  Leads(<<a, b, c, d>>, p0, p4)
<1>1. a \in Entries /\ b \in Entries /\ c \in Entries /\ d \in Entries
  BY StepIsEntry DEF Moves
<1>2. p0 \in Places /\ p1 \in Places /\ p2 \in Places /\ p3 \in Places /\ p4 \in Places
  BY DEF Moves
<1>3. PICK at \in Seq(Places) : /\ at = <<p0, p1, p2, p3, p4>> /\ Len(at) = 5
                                  /\ at[1] = p0 /\ at[2] = p1 /\ at[3] = p2 /\ at[4] = p3 /\ at[5] = p4
  <2>1. <<p0, p1, p2, p3, p4>> \in Seq(Places)
    BY <1>2
  <2> QED
    BY <2>1
<1>4. PICK calls \in Seq(Entries) : /\ calls = <<a, b, c, d>> /\ Len(calls) = 4
                                      /\ calls[1] = a /\ calls[2] = b /\ calls[3] = c /\ calls[4] = d
  <2>1. <<a, b, c, d>> \in Seq(Entries)
    BY <1>1
  <2> QED
    BY <2>1
<1>5. \A k \in 1..4 : Step(calls[k], at[k], at[k + 1])
  <2>1. \A k \in 1..4 : (k = 1 /\ k + 1 = 2) \/ (k = 2 /\ k + 1 = 3) \/ (k = 3 /\ k + 1 = 4) \/ (k = 4 /\ k + 1 = 5)
    OBVIOUS
  <2>2. Step(a, p0, p1) /\ Step(b, p1, p2) /\ Step(c, p2, p3) /\ Step(d, p3, p4)
    BY DEF Moves
  <2> QED
    BY <1>3, <1>4, <2>1, <2>2
<1>6. Len(calls) = 4 /\ Len(at) = Len(calls) + 1 /\ at[1] = p0 /\ at[Len(at)] = p4
  BY <1>3, <1>4
<1>7. Leads(calls, p0, p4)
  BY <1>5, <1>6 DEF Leads
<1> QED
  BY <1>4, <1>7

LEMMA LeadsSix ==
  ASSUME NEW a, NEW b, NEW c, NEW d, NEW e, NEW f, NEW p0, NEW p1, NEW p2, NEW p3, NEW p4, NEW p5,
         NEW p6,
         Moves(a, p0, p1), Moves(b, p1, p2), Moves(c, p2, p3), Moves(d, p3, p4), Moves(e, p4, p5),
         Moves(f, p5, p6)
  PROVE  Leads(<<a, b, c, d, e, f>>, p0, p6)
<1>1. a \in Entries /\ b \in Entries /\ c \in Entries /\ d \in Entries /\ e \in Entries /\
      f \in Entries
  BY StepIsEntry DEF Moves
<1>2. p0 \in Places /\ p1 \in Places /\ p2 \in Places /\ p3 \in Places /\ p4 \in Places /\
      p5 \in Places /\ p6 \in Places
  BY DEF Moves
<1>3. PICK at \in Seq(Places) : /\ at = <<p0, p1, p2, p3, p4, p5, p6>> /\ Len(at) = 7
                                  /\ at[1] = p0 /\ at[2] = p1 /\ at[3] = p2 /\ at[4] = p3 /\ at[5] = p4 /\ at[6] = p5 /\ at[7] = p6
  <2>1. <<p0, p1, p2, p3, p4, p5, p6>> \in Seq(Places)
    BY <1>2
  <2> QED
    BY <2>1
<1>4. PICK calls \in Seq(Entries) : /\ calls = <<a, b, c, d, e, f>> /\ Len(calls) = 6
                                      /\ calls[1] = a /\ calls[2] = b /\ calls[3] = c /\ calls[4] = d /\ calls[5] = e /\ calls[6] = f
  <2>1. <<a, b, c, d, e, f>> \in Seq(Entries)
    BY <1>1
  <2> QED
    BY <2>1
<1>5. \A k \in 1..6 : Step(calls[k], at[k], at[k + 1])
  <2>1. \A k \in 1..6 : (k = 1 /\ k + 1 = 2) \/ (k = 2 /\ k + 1 = 3) \/ (k = 3 /\ k + 1 = 4) \/ (k = 4 /\ k + 1 = 5) \/
          (k = 5 /\ k + 1 = 6) \/ (k = 6 /\ k + 1 = 7)
    OBVIOUS
  <2>2. Step(a, p0, p1) /\ Step(b, p1, p2) /\ Step(c, p2, p3) /\ Step(d, p3, p4) /\ Step(e, p4, p5) /\
        Step(f, p5, p6)
    BY DEF Moves
  <2> QED
    BY <1>3, <1>4, <2>1, <2>2
<1>6. Len(calls) = 6 /\ Len(at) = Len(calls) + 1 /\ at[1] = p0 /\ at[Len(at)] = p6
  BY <1>3, <1>4
<1>7. Leads(calls, p0, p6)
  BY <1>5, <1>6 DEF Leads
<1> QED
  BY <1>4, <1>7

LEMMA LeadsEleven ==
  ASSUME NEW a, NEW b, NEW c, NEW d, NEW e, NEW f, NEW g, NEW h, NEW i, NEW j, NEW k, NEW p0, NEW p1,
         NEW p2, NEW p3, NEW p4, NEW p5, NEW p6, NEW p7, NEW p8, NEW p9, NEW p10, NEW p11,
         Moves(a, p0, p1), Moves(b, p1, p2), Moves(c, p2, p3), Moves(d, p3, p4), Moves(e, p4, p5),
         Moves(f, p5, p6), Moves(g, p6, p7), Moves(h, p7, p8), Moves(i, p8, p9), Moves(j, p9, p10),
         Moves(k, p10, p11)
  PROVE  Leads(<<a, b, c, d, e, f, g, h, i, j, k>>, p0, p11)
<1>1. a \in Entries /\ b \in Entries /\ c \in Entries /\ d \in Entries /\ e \in Entries /\
      f \in Entries /\ g \in Entries /\ h \in Entries /\ i \in Entries /\ j \in Entries /\
      k \in Entries
  BY StepIsEntry DEF Moves
<1>2. p0 \in Places /\ p1 \in Places /\ p2 \in Places /\ p3 \in Places /\ p4 \in Places /\
      p5 \in Places /\ p6 \in Places /\ p7 \in Places /\ p8 \in Places /\ p9 \in Places /\
      p10 \in Places /\ p11 \in Places
  BY DEF Moves
<1>3. PICK at \in Seq(Places) : /\ at = <<p0, p1, p2, p3, p4, p5, p6, p7, p8, p9, p10, p11>> /\ Len(at) = 12
                                  /\ at[1] = p0 /\ at[2] = p1 /\ at[3] = p2 /\ at[4] = p3 /\ at[5] = p4 /\ at[6] = p5 /\ at[7] = p6 /\
                                     at[8] = p7 /\ at[9] = p8 /\ at[10] = p9 /\ at[11] = p10 /\ at[12] = p11
  <2>1. <<p0, p1, p2, p3, p4, p5, p6, p7, p8, p9, p10, p11>> \in Seq(Places)
    BY <1>2
  <2> QED
    BY <2>1
<1>4. PICK calls \in Seq(Entries) : /\ calls = <<a, b, c, d, e, f, g, h, i, j, k>> /\ Len(calls) = 11
                                      /\ calls[1] = a /\ calls[2] = b /\ calls[3] = c /\ calls[4] = d /\ calls[5] = e /\ calls[6] = f /\
                                         calls[7] = g /\ calls[8] = h /\ calls[9] = i /\ calls[10] = j /\ calls[11] = k
  <2>1. <<a, b, c, d, e, f, g, h, i, j, k>> \in Seq(Entries)
    BY <1>1
  <2> QED
    BY <2>1
<1>5. \A n \in 1..11 : Step(calls[n], at[n], at[n + 1])
  <2>1. \A n \in 1..11 : (n = 1 /\ n + 1 = 2) \/ (n = 2 /\ n + 1 = 3) \/ (n = 3 /\ n + 1 = 4) \/ (n = 4 /\ n + 1 = 5) \/
          (n = 5 /\ n + 1 = 6) \/ (n = 6 /\ n + 1 = 7) \/ (n = 7 /\ n + 1 = 8) \/ (n = 8 /\ n + 1 = 9) \/
          (n = 9 /\ n + 1 = 10) \/ (n = 10 /\ n + 1 = 11) \/ (n = 11 /\ n + 1 = 12)
    OBVIOUS
  <2>2. Step(a, p0, p1) /\ Step(b, p1, p2) /\ Step(c, p2, p3) /\ Step(d, p3, p4) /\ Step(e, p4, p5) /\
        Step(f, p5, p6) /\ Step(g, p6, p7) /\ Step(h, p7, p8) /\ Step(i, p8, p9) /\ Step(j, p9, p10) /\
        Step(k, p10, p11)
    BY DEF Moves
  <2> QED
    BY <1>3, <1>4, <2>1, <2>2
<1>6. Len(calls) = 11 /\ Len(at) = Len(calls) + 1 /\ at[1] = p0 /\ at[Len(at)] = p11
  BY <1>3, <1>4
<1>7. Leads(calls, p0, p11)
  BY <1>5, <1>6 DEF Leads
<1> QED
  BY <1>4, <1>7

LEMMA LeadsOn ==
  ASSUME NEW a, NEW b, NEW p, NEW q, NEW r, Leads(a, p, q), Leads(b, q, r)
  PROVE  Leads(a \o b, p, r)
<1>1. PICK u \in Seq(Places) : /\ Len(u) = Len(a) + 1 /\ u[1] = p /\ u[Len(u)] = q
                               /\ \A k \in 1..Len(a) : Step(a[k], u[k], u[k + 1])
  BY DEF Leads
<1>2. PICK v \in Seq(Places) : /\ Len(v) = Len(b) + 1 /\ v[1] = q /\ v[Len(v)] = r
                               /\ \A k \in 1..Len(b) : Step(b[k], v[k], v[k + 1])
  BY DEF Leads
<1>3. a \in Seq(Entries) /\ b \in Seq(Entries) /\ Len(a) \in Nat /\ Len(b) \in Nat
  BY DEF Leads
<1> DEFINE c == a \o b
           w == [k \in 1..(Len(a) + Len(b) + 1) |-> IF k <= Len(a) THEN u[k] ELSE v[k - Len(a)]]
<1>4. /\ c \in Seq(Entries) /\ Len(c) = Len(a) + Len(b)
      /\ \A k \in 1..Len(a) : c[k] = a[k]
      /\ \A k \in (Len(a) + 1)..(Len(a) + Len(b)) : c[k] = b[k - Len(a)]
  BY <1>3
<1>5. /\ \A k \in 1..(Len(a) + Len(b) + 1) : w[k] = IF k <= Len(a) THEN u[k] ELSE v[k - Len(a)]
      /\ DOMAIN w = 1..(Len(a) + Len(b) + 1)
  OBVIOUS
<1> HIDE DEF c, w
<1>6. w \in Seq(Places) /\ Len(w) = Len(a) + Len(b) + 1
  <2>1. \A k \in 1..(Len(a) + Len(b) + 1) : w[k] \in Places
    <3> TAKE k \in 1..(Len(a) + Len(b) + 1)
    <3>1. CASE k <= Len(a)
      <4>1. k \in 1..Len(u)
        BY <1>1, <1>3, <3>1
      <4> QED
        BY <1>5, <3>1, <4>1
    <3>2. CASE ~(k <= Len(a))
      <4>1. k - Len(a) \in 1..Len(v)
        BY <1>2, <1>3, <3>2
      <4> QED
        BY <1>5, <3>2, <4>1
    <3> QED
      BY <3>1, <3>2
  <2>2. w = [k \in 1..(Len(a) + Len(b) + 1) |-> w[k]]
    BY <1>5 DEF w
  <2> QED
    BY <1>3, <2>1, <2>2
<1>7. w[1] = p
  <2>1. CASE Len(a) = 0
    BY <1>1, <1>2, <1>3, <1>5, <2>1
  <2>2. CASE Len(a) # 0
    BY <1>1, <1>3, <1>5, <2>2
  <2> QED
    BY <2>1, <2>2
<1>8. w[Len(w)] = r
  <2>1. Len(w) \in 1..(Len(a) + Len(b) + 1) /\ Len(w) = Len(a) + Len(b) + 1
    BY <1>3, <1>6
  <2>2. ~(Len(w) <= Len(a)) /\ Len(w) - Len(a) = Len(v)
    BY <1>2, <1>3, <2>1
  <2>3. w[Len(w)] = v[Len(w) - Len(a)]
    BY <1>5, <2>1, <2>2
  <2> QED
    BY <1>2, <2>2, <2>3
<1>9. ASSUME NEW k \in 1..Len(c)
      PROVE  Step(c[k], w[k], w[k + 1])
  <2>1. CASE k < Len(a)
    <3>1. k \in 1..Len(a) /\ k + 1 <= Len(a) /\ k <= Len(a)
          /\ k \in 1..(Len(a) + Len(b) + 1) /\ k + 1 \in 1..(Len(a) + Len(b) + 1)
      BY <1>3, <1>4, <2>1
    <3> QED
      BY <1>1, <1>4, <1>5, <3>1
  <2>2. CASE k = Len(a)
    <3>1. k \in 1..Len(a) /\ ~(k + 1 <= Len(a)) /\ k <= Len(a) /\ (k + 1) - Len(a) = 1 /\ k + 1 = Len(u)
          /\ k \in 1..(Len(a) + Len(b) + 1) /\ k + 1 \in 1..(Len(a) + Len(b) + 1)
      BY <1>1, <1>3, <1>4, <2>2
    <3>2. w[k] = u[k] /\ w[k + 1] = v[1]
      BY <1>5, <3>1
    <3> QED
      BY <1>1, <1>2, <1>4, <3>1, <3>2
  <2>3. CASE k > Len(a)
    <3>1. /\ k - Len(a) \in 1..Len(b) /\ ~(k <= Len(a)) /\ ~(k + 1 <= Len(a))
          /\ (k + 1) - Len(a) = (k - Len(a)) + 1 /\ k \in (Len(a) + 1)..(Len(a) + Len(b))
          /\ k \in 1..(Len(a) + Len(b) + 1) /\ k + 1 \in 1..(Len(a) + Len(b) + 1)
      BY <1>3, <1>4, <2>3
    <3>2. w[k] = v[k - Len(a)] /\ w[k + 1] = v[(k - Len(a)) + 1]
      BY <1>5, <3>1
    <3> QED
      BY <1>2, <1>4, <3>1, <3>2
  <2> QED
    BY <1>3, <1>4, <2>1, <2>2, <2>3
<1>10. Len(w) = Len(c) + 1
  BY <1>4, <1>6
<1>11. Leads(c, p, r)
  BY <1>4, <1>6, <1>7, <1>8, <1>9, <1>10 DEF Leads
<1> QED
  BY <1>11 DEF c

LEMMA LeadsFirst ==
  ASSUME NEW calls, NEW p, NEW q, Leads(calls, p, q), calls # <<>>
  PROVE  \E r \in Places : p \in Places /\ Step(Head(calls), p, r) /\ Leads(Tail(calls), r, q)
<1>1. PICK at \in Seq(Places) : /\ Len(at) = Len(calls) + 1 /\ at[1] = p /\ at[Len(at)] = q
                                /\ \A k \in 1..Len(calls) : Step(calls[k], at[k], at[k + 1])
  BY DEF Leads
<1>2. calls \in Seq(Entries) /\ Len(calls) \in Nat /\ Len(calls) # 0
  BY EmptySeq DEF Leads
<1> DEFINE rest == Tail(calls)
           then == Tail(at)
<1>3. /\ rest \in Seq(Entries) /\ Len(rest) = Len(calls) - 1
      /\ \A k \in 1..Len(rest) : rest[k] = calls[k + 1] /\ k + 1 \in 1..Len(calls)
  BY <1>2
<1>4. /\ at # <<>> /\ then \in Seq(Places) /\ Len(then) = Len(at) - 1
      /\ \A k \in 1..Len(then) : then[k] = at[k + 1] /\ k + 1 \in 1..Len(at)
  BY <1>1, <1>2
<1> HIDE DEF rest, then
<1>5. Step(Head(calls), p, at[2]) /\ at[2] \in Places /\ p \in Places
  <2>1. 1 \in 1..Len(calls) /\ 1 + 1 = 2 /\ 2 \in 1..Len(at) /\ 1 \in 1..Len(at) /\ Head(calls) = calls[1]
    BY <1>1, <1>2
  <2> QED
    BY <1>1, <2>1
<1>6. then[1] = at[2] /\ then[Len(then)] = q /\ Len(then) = Len(rest) + 1
  <2>1. 1 \in 1..Len(then) /\ Len(then) \in 1..Len(then) /\ 1 + 1 = 2 /\ Len(then) + 1 = Len(at)
    BY <1>1, <1>2, <1>4
  <2> QED
    BY <1>1, <1>3, <1>4, <2>1
<1>7. ASSUME NEW k \in 1..Len(rest)
      PROVE  Step(rest[k], then[k], then[k + 1])
  <2>1. k \in 1..Len(then) /\ k + 1 \in 1..Len(then)
    BY <1>2, <1>3, <1>6
  <2>2. rest[k] = calls[k + 1] /\ then[k] = at[k + 1] /\ then[k + 1] = at[(k + 1) + 1] /\ k + 1 \in 1..Len(calls)
    BY <1>3, <1>4, <2>1
  <2> QED
    BY <1>1, <2>2
<1>8. Leads(rest, at[2], q)
  BY <1>3, <1>4, <1>6, <1>7 DEF Leads
<1> QED
  BY <1>5, <1>8 DEF rest

LEMMA LeadsNoFurther ==
  ASSUME NEW calls, NEW p, NEW q, Leads(calls, p, q), p.last = 1 \/ calls = <<>>
  PROVE  calls = <<>> /\ p = q
<1>1. calls = <<>>
  <2> SUFFICES ASSUME calls # <<>>  PROVE FALSE
    OBVIOUS
  <2>1. PICK r \in Places : Step(Head(calls), p, r)
    BY LeadsFirst
  <2> QED
    BY <2>1 DEF Step
<1>2. Len(calls) = 0
  BY <1>1
<1> QED
  BY <1>1, <1>2 DEF Leads

-----------------------------------------------------------------------------
(* What the calls of the parse functions lead to *)

LEMMA Passes ==
  ASSUME NEW d \in Nat, NEW n \in Nat, NEW f \in 0..1, NEW call \in {Flush, Detach, Trail}
  PROVE  Moves(call, Place(d, n, f, 0), Place(d, n, 0, 0))
<1> DEFINE p == Place(d, n, f, 0)
           q == Place(d, n, 0, 0)
<1>1. 0 \in 0..1
  OBVIOUS
<1>2. p \in Places /\ p.depth = d /\ p.tokens = n /\ p.fresh = f /\ p.last = 0
  BY <1>1, PlaceIsPlace
<1>3. q \in Places /\ q.depth = d /\ q.tokens = n /\ q.fresh = 0 /\ q.last = 0
  BY <1>1, PlaceIsPlace
<1>4. q = Place(d, n, 0, 0)
  OBVIOUS
<1> HIDE DEF p, q
<1>5. Step(call, p, q)
  BY <1>2, <1>3, <1>4, Zenon DEF Step
<1>6. Moves(call, p, q)
  BY <1>2, <1>3, <1>5 DEF Moves
<1> QED
  BY <1>6 DEF p, q

LEMMA Takes ==
  ASSUME NEW d \in Nat, NEW n \in Nat, NEW f \in 0..1, NEW g \in 0..1
  PROVE  Moves(Token, Place(d, n + 1, f, 0), Place(d, n, g, 0))
<1> DEFINE p == Place(d, n + 1, f, 0)
           q == Place(d, n, g, 0)
<1>1. 0 \in 0..1 /\ n + 1 \in Nat
  OBVIOUS
<1>2. p \in Places /\ p.depth = d /\ p.tokens = n + 1 /\ p.fresh = f /\ p.last = 0
  BY <1>1, PlaceIsPlace
<1>3. q \in Places /\ q.depth = d /\ q.tokens = n /\ q.fresh = g /\ q.last = 0
  BY <1>1, PlaceIsPlace
<1>4. q = Place(d, n, g, 0)
  OBVIOUS
<1> HIDE DEF p, q
<1>5. Step(Token, p, q)
  BY <1>2, <1>3, <1>4, Zenon DEF Step
<1>6. Moves(Token, p, q)
  BY <1>2, <1>3, <1>5 DEF Moves
<1> QED
  BY <1>6 DEF p, q

LEMMA Opens ==
  ASSUME NEW d \in Nat, NEW n \in Nat, NEW f \in 0..1, NEW kind \in NodeKinds
  PROVE  Moves(Start(kind), Place(d, n, f, 0), Place(d + 1, n, 0, 0))
<1> DEFINE p == Place(d, n, f, 0)
           q == Place(d + 1, n, 0, 0)
<1>1. 0 \in 0..1 /\ d + 1 \in Nat
  OBVIOUS
<1>2. p \in Places /\ p.depth = d /\ p.tokens = n /\ p.fresh = f /\ p.last = 0
  BY <1>1, PlaceIsPlace
<1>3. q \in Places /\ q.depth = d + 1 /\ q.tokens = n /\ q.fresh = 0 /\ q.last = 0
  BY <1>1, PlaceIsPlace
<1>4. q = Place(d + 1, n, 0, 0)
  OBVIOUS
<1> HIDE DEF p, q
<1>5. Step(Start(kind), p, q)
  BY <1>2, <1>3, <1>4, Zenon DEF Step
<1>6. Moves(Start(kind), p, q)
  BY <1>2, <1>3, <1>5 DEF Moves
<1> QED
  BY <1>6 DEF p, q

LEMMA Wraps ==
  ASSUME NEW d \in Nat, NEW n \in Nat, NEW kind \in NodeKinds
  PROVE  Moves(Wrap(kind), Place(d, n, 1, 0), Place(d + 1, n, 0, 0))
<1> DEFINE p == Place(d, n, 1, 0)
           q == Place(d + 1, n, 0, 0)
<1>1. 0 \in 0..1 /\ 1 \in 0..1 /\ d + 1 \in Nat
  OBVIOUS
<1>2. p \in Places /\ p.depth = d /\ p.tokens = n /\ p.fresh = 1 /\ p.last = 0
  BY <1>1, PlaceIsPlace
<1>3. q \in Places /\ q.depth = d + 1 /\ q.tokens = n /\ q.fresh = 0 /\ q.last = 0
  BY <1>1, PlaceIsPlace
<1>4. q = Place(d + 1, n, 0, 0)
  OBVIOUS
<1> HIDE DEF p, q
<1>5. Step(Wrap(kind), p, q)
  BY <1>2, <1>3, <1>4, Zenon DEF Step
<1>6. Moves(Wrap(kind), p, q)
  BY <1>2, <1>3, <1>5 DEF Moves
<1> QED
  BY <1>6 DEF p, q

LEMMA Closes ==
  ASSUME NEW d \in Nat, NEW n \in Nat, NEW f \in 0..1
  PROVE  Moves(Finish, Place(d + 1, n, f, 0), Place(d, n, 0, 0))
<1> DEFINE p == Place(d + 1, n, f, 0)
           q == Place(d, n, 0, 0)
<1>1. 0 \in 0..1 /\ d + 1 \in Nat
  OBVIOUS
<1>2. p \in Places /\ p.depth = d + 1 /\ p.tokens = n /\ p.fresh = f /\ p.last = 0
  BY <1>1, PlaceIsPlace
<1>3. q \in Places /\ q.depth = d /\ q.tokens = n /\ q.fresh = 0 /\ q.last = 0
  BY <1>1, PlaceIsPlace
<1>4. q = Place(d, n, 0, 0)
  OBVIOUS
<1> HIDE DEF p, q
<1>5. Step(Finish, p, q)
  BY <1>2, <1>3, <1>4, Zenon DEF Step
<1>6. Moves(Finish, p, q)
  BY <1>2, <1>3, <1>5 DEF Moves
<1> QED
  BY <1>6 DEF p, q

LEMMA Decides ==
  ASSUME NEW d \in Nat, NEW n \in Nat, NEW f \in 0..1, NEW call \in Decisions,
         call \in NamedDecisions => f = 1, call = <<"scalar">> => n # 0
  PROVE  Moves(call, Place(d, n, f, 0), Place(d, 0, 0, 0))
<1> DEFINE p == Place(d, n, f, 0)
           q == Place(d, 0, 0, 0)
<1>1. 0 \in 0..1 /\ 0 \in Nat
  OBVIOUS
<1>2. p \in Places /\ p.depth = d /\ p.tokens = n /\ p.fresh = f /\ p.last = 0
  BY <1>1, PlaceIsPlace
<1>3. q \in Places /\ q.depth = d /\ q.tokens = 0 /\ q.fresh = 0 /\ q.last = 0
  BY <1>1, PlaceIsPlace
<1>4. q = Place(d, 0, 0, 0)
  OBVIOUS
<1> HIDE DEF p, q
<1>5. Step(call, p, q)
  BY <1>2, <1>3, <1>4, Zenon DEF Step
<1>6. Moves(call, p, q)
  BY <1>2, <1>3, <1>5 DEF Moves
<1> QED
  BY <1>6 DEF p, q

LEMMA HoldsItems ==
  ASSUME NEW d \in Nat, NEW n \in Nat, NEW f \in 0..1,
         NEW opened \in Nat, NEW shape \in Shapes, NEW l, l = IF opened = 0 THEN 1 ELSE 0
  PROVE  Moves(Items(opened, shape), Place(d + 1, n, f, 0), Place(d, 0, 0, l))
<1> DEFINE p == Place(d + 1, n, f, 0)
           q == Place(d, 0, 0, l)
<1>1. 0 \in 0..1 /\ l \in 0..1 /\ 0 \in Nat /\ d + 1 \in Nat
  OBVIOUS
<1>2. p \in Places /\ p.depth = d + 1 /\ p.tokens = n /\ p.fresh = f /\ p.last = 0
  BY <1>1, PlaceIsPlace
<1>3. q \in Places /\ q.depth = d /\ q.tokens = 0 /\ q.fresh = 0 /\ q.last = l
  BY <1>1, PlaceIsPlace
<1>4. q = Place(d, 0, 0, l)
  OBVIOUS
<1> HIDE DEF p, q
<1>5. Step(Items(opened, shape), p, q)
  BY <1>2, <1>3, <1>4, Zenon DEF Step
<1>6. Moves(Items(opened, shape), p, q)
  BY <1>2, <1>3, <1>5 DEF Moves
<1> QED
  BY <1>6 DEF p, q

LEMMA Names ==
  /\ {"File", "Statement", "Key", "Value", "Annotation", "Block", "Scalar", "TypeExpr", "Call", "Error"} = NodeKinds
  /\ {<<"value">>, <<"annotated">>, <<"annotation">>, <<"annotation argument">>, <<"scalar">>, <<"strings">>,
      <<"type argument">>, <<"after type">>, <<"call argument">>, <<"after argument">>} \cup NamedDecisions = Decisions
  /\ \A call \in {<<"value">>, <<"annotated">>, <<"annotation">>, <<"annotation argument">>, <<"strings">>,
                  <<"type argument">>, <<"after type">>, <<"call argument">>, <<"after argument">>} :
       call \in PlainDecisions
  /\ \A call \in PlainDecisions : call \in Decisions /\ call \notin NamedDecisions /\ call # <<"scalar">>
  /\ \A call \in NamedDecisions : call \in Decisions /\ call # <<"scalar">>
  /\ <<"scalar">> \in Decisions /\ <<"scalar">> \notin NamedDecisions
<1> DEFINE rest == {<<"value">>, <<"annotated">>, <<"annotation">>, <<"annotation argument">>, <<"strings">>,
                    <<"type argument">>, <<"after type">>, <<"call argument">>, <<"after argument">>}
           names == {"value", "annotated", "annotation", "annotation argument", "strings", "type argument",
                     "after type", "call argument", "after argument"}
           named == {"named value", "named type", "named argument"}
<1>a. ASSUME NEW m, NEW n, <<m>> = <<n>>  PROVE m = n
  <2>1. <<m>>[1] = m /\ <<n>>[1] = n
    OBVIOUS
  <2> QED
    BY <1>a, <2>1
<1>b. \A call \in rest : (\E n \in names : call = <<n>>) /\ call \in Decisions
  BY Zenon DEF Decisions
<1>c. \A call \in NamedDecisions : (\E n \in named : call = <<n>>) /\ call \in Decisions
  BY Zenon DEF NamedDecisions, Decisions
<1>d. (\A m \in names : m # "scalar" /\ m \notin named) /\ "scalar" \notin named
  OBVIOUS
<1> HIDE DEF rest, names, named
<1>1. \A call \in rest : call \in Decisions /\ call \notin NamedDecisions
  BY <1>a, <1>b, <1>c, <1>d
<1>2. \A call \in rest \cup NamedDecisions : call # <<"scalar">>
  BY <1>a, <1>b, <1>c, <1>d
<1>3. \A call \in rest : call \in PlainDecisions
  BY <1>1, <1>2 DEF PlainDecisions
<1>4. \A call \in PlainDecisions : call \in Decisions /\ call \notin NamedDecisions /\ call # <<"scalar">>
  BY DEF PlainDecisions
<1>5. \A call \in NamedDecisions : call \in Decisions /\ call # <<"scalar">>
  BY <1>2, <1>c
<1>6. <<"scalar">> \in Decisions /\ <<"scalar">> \notin NamedDecisions
  BY <1>2, Zenon DEF Decisions
<1> QED
  BY <1>3, <1>4, <1>5, <1>6, Zenon DEF NodeKinds, Decisions, rest

\* What a decision may be replaced by: calls that leave the nodes open that were
\* open and no token to take.
Decided(calls, taken, fresh) ==
  \A d \in Nat : Leads(calls, Place(d, taken, fresh, 0), Place(d, 0, 0, 0))

\* And the items of a block or of the file: calls that end its node.
Held(calls, taken, opened) ==
  \A d \in Nat : Leads(calls, Place(d + 1, taken, 0, 0), Place(d, 0, 0, IF opened = 0 THEN 1 ELSE 0))

LEMMA Counting ==
  /\ 0 \in 0..1 /\ 1 \in 0..1 /\ 0 \in Nat /\ 1 \in Nat /\ 1 # 0 /\ 0 + 1 = 1 /\ 1 + 1 = 2
  /\ \A d \in Nat : /\ d + 1 \in Nat /\ d + 2 \in Nat /\ d + 3 \in Nat
                    /\ (d + 1) + 1 = d + 2 /\ (d + 2) + 1 = d + 3
OBVIOUS

\* The calls of parse_items and parse_block.
LEMMA HeldStatement ==
  ASSUME NEW opened \in Nat, NEW shape \in Shapes
  PROVE  Held(<<Detach, Start("Statement"), Flush, Start("Key"), Token, Finish, Token, <<"value">>, Trail, Finish, Items(opened, shape)>>, 2, opened)
<1> DEFINE last == IF opened = 0 THEN 1 ELSE 0
<1> SUFFICES ASSUME NEW d \in Nat  PROVE Leads(<<Detach, Start("Statement"), Flush, Start("Key"), Token, Finish, Token, <<"value">>, Trail, Finish, Items(opened, shape)>>, Place(d + 1, 2, 0, 0), Place(d, 0, 0, last))
  BY DEF Held
<1>1. Moves(Detach, Place(d + 1, 2, 0, 0), Place(d + 1, 2, 0, 0))
  BY Counting, Passes
<1>2. Moves(Start("Statement"), Place(d + 1, 2, 0, 0), Place(d + 2, 2, 0, 0))
  BY Counting, Opens, Names
<1>3. Moves(Flush, Place(d + 2, 2, 0, 0), Place(d + 2, 2, 0, 0))
  BY Counting, Passes
<1>4. Moves(Start("Key"), Place(d + 2, 2, 0, 0), Place(d + 3, 2, 0, 0))
  BY Counting, Opens, Names
<1>5. Moves(Token, Place(d + 3, 2, 0, 0), Place(d + 3, 1, 0, 0))
  BY Counting, Takes
<1>6. Moves(Finish, Place(d + 3, 1, 0, 0), Place(d + 2, 1, 0, 0))
  BY Counting, Closes
<1>7. Moves(Token, Place(d + 2, 1, 0, 0), Place(d + 2, 0, 0, 0))
  BY Counting, Takes
<1>8. Moves(<<"value">>, Place(d + 2, 0, 0, 0), Place(d + 2, 0, 0, 0))
  BY Counting, Decides, Names
<1>9. Moves(Trail, Place(d + 2, 0, 0, 0), Place(d + 2, 0, 0, 0))
  BY Counting, Passes
<1>10. Moves(Finish, Place(d + 2, 0, 0, 0), Place(d + 1, 0, 0, 0))
  BY Counting, Closes
<1>11. Moves(Items(opened, shape), Place(d + 1, 0, 0, 0), Place(d, 0, 0, last))
  BY Counting, HoldsItems
<1> QED
  BY <1>1, <1>2, <1>3, <1>4, <1>5, <1>6, <1>7, <1>8, <1>9, <1>10, <1>11, LeadsEleven

LEMMA HeldScalar ==
  ASSUME NEW opened \in Nat, NEW shape \in Shapes
  PROVE  Held(<<Detach, <<"scalar">>, Items(opened, shape)>>, 1, opened)
<1> DEFINE last == IF opened = 0 THEN 1 ELSE 0
<1> SUFFICES ASSUME NEW d \in Nat  PROVE Leads(<<Detach, <<"scalar">>, Items(opened, shape)>>, Place(d + 1, 1, 0, 0), Place(d, 0, 0, last))
  BY DEF Held
<1>1. Moves(Detach, Place(d + 1, 1, 0, 0), Place(d + 1, 1, 0, 0))
  BY Counting, Passes
<1>2. Moves(<<"scalar">>, Place(d + 1, 1, 0, 0), Place(d + 1, 0, 0, 0))
  BY Counting, Decides, Names
<1>3. Moves(Items(opened, shape), Place(d + 1, 0, 0, 0), Place(d, 0, 0, last))
  BY Counting, HoldsItems
<1> QED
  BY <1>1, <1>2, <1>3, LeadsThree

LEMMA HeldClosed ==
  ASSUME NEW opened \in Nat \ {0}
  PROVE  Held(<<Flush, Token, Finish>>, 1, opened)
<1> SUFFICES ASSUME NEW d \in Nat  PROVE Leads(<<Flush, Token, Finish>>, Place(d + 1, 1, 0, 0), Place(d, 0, 0, 0))
  BY DEF Held
<1>1. Moves(Flush, Place(d + 1, 1, 0, 0), Place(d + 1, 1, 0, 0))
  BY Counting, Passes
<1>2. Moves(Token, Place(d + 1, 1, 0, 0), Place(d + 1, 0, 0, 0))
  BY Counting, Takes
<1>3. Moves(Finish, Place(d + 1, 0, 0, 0), Place(d, 0, 0, 0))
  BY Counting, Closes
<1> QED
  BY <1>1, <1>2, <1>3, LeadsThree

LEMMA HeldUnclosed ==
  ASSUME NEW opened \in Nat \ {0}
  PROVE  Held(<<Flush, Finish>>, 0, opened)
<1> SUFFICES ASSUME NEW d \in Nat  PROVE Leads(<<Flush, Finish>>, Place(d + 1, 0, 0, 0), Place(d, 0, 0, 0))
  BY DEF Held
<1>1. Moves(Flush, Place(d + 1, 0, 0, 0), Place(d + 1, 0, 0, 0))
  BY Counting, Passes
<1>2. Moves(Finish, Place(d + 1, 0, 0, 0), Place(d, 0, 0, 0))
  BY Counting, Closes
<1> QED
  BY <1>1, <1>2, LeadsTwo

\* The calls of parse_value and the functions it calls.
LEMMA DecidedValue ==
  Decided(<<Flush, Start("Value"), <<"annotated">>, Finish>>, 0, 0)
<1> SUFFICES ASSUME NEW d \in Nat  PROVE Leads(<<Flush, Start("Value"), <<"annotated">>, Finish>>, Place(d, 0, 0, 0), Place(d, 0, 0, 0))
  BY DEF Decided
<1>1. Moves(Flush, Place(d, 0, 0, 0), Place(d, 0, 0, 0))
  BY Counting, Passes
<1>2. Moves(Start("Value"), Place(d, 0, 0, 0), Place(d + 1, 0, 0, 0))
  BY Counting, Opens, Names
<1>3. Moves(<<"annotated">>, Place(d + 1, 0, 0, 0), Place(d + 1, 0, 0, 0))
  BY Counting, Decides, Names
<1>4. Moves(Finish, Place(d + 1, 0, 0, 0), Place(d, 0, 0, 0))
  BY Counting, Closes
<1> QED
  BY <1>1, <1>2, <1>3, <1>4, LeadsFour

LEMMA DecidedAnnotation ==
  Decided(<<Flush, Start("Annotation"), Token, <<"annotation">>, Finish, <<"annotated">>>>, 1, 0)
<1> SUFFICES ASSUME NEW d \in Nat  PROVE Leads(<<Flush, Start("Annotation"), Token, <<"annotation">>, Finish, <<"annotated">>>>, Place(d, 1, 0, 0), Place(d, 0, 0, 0))
  BY DEF Decided
<1>1. Moves(Flush, Place(d, 1, 0, 0), Place(d, 1, 0, 0))
  BY Counting, Passes
<1>2. Moves(Start("Annotation"), Place(d, 1, 0, 0), Place(d + 1, 1, 0, 0))
  BY Counting, Opens, Names
<1>3. Moves(Token, Place(d + 1, 1, 0, 0), Place(d + 1, 0, 0, 0))
  BY Counting, Takes
<1>4. Moves(<<"annotation">>, Place(d + 1, 0, 0, 0), Place(d + 1, 0, 0, 0))
  BY Counting, Decides, Names
<1>5. Moves(Finish, Place(d + 1, 0, 0, 0), Place(d, 0, 0, 0))
  BY Counting, Closes
<1>6. Moves(<<"annotated">>, Place(d, 0, 0, 0), Place(d, 0, 0, 0))
  BY Counting, Decides, Names
<1> QED
  BY <1>1, <1>2, <1>3, <1>4, <1>5, <1>6, LeadsSix

LEMMA DecidedBlock ==
  ASSUME NEW opened \in Nat \ {0}, NEW shape \in Shapes
  PROVE  Decided(<<Flush, Start("Block"), Token, Items(opened, shape)>>, 1, 0)
<1> SUFFICES ASSUME NEW d \in Nat  PROVE Leads(<<Flush, Start("Block"), Token, Items(opened, shape)>>, Place(d, 1, 0, 0), Place(d, 0, 0, 0))
  BY DEF Decided
<1>1. Moves(Flush, Place(d, 1, 0, 0), Place(d, 1, 0, 0))
  BY Counting, Passes
<1>2. Moves(Start("Block"), Place(d, 1, 0, 0), Place(d + 1, 1, 0, 0))
  BY Counting, Opens, Names
<1>3. Moves(Token, Place(d + 1, 1, 0, 0), Place(d + 1, 0, 0, 0))
  BY Counting, Takes
<1>4. Moves(Items(opened, shape), Place(d + 1, 0, 0, 0), Place(d, 0, 0, 0))
  BY Counting, HoldsItems
<1> QED
  BY <1>1, <1>2, <1>3, <1>4, LeadsFour

LEMMA DecidedToken ==
  Decided(<<Token>>, 1, 0)
<1> SUFFICES ASSUME NEW d \in Nat  PROVE Leads(<<Token>>, Place(d, 1, 0, 0), Place(d, 0, 0, 0))
  BY DEF Decided
<1>1. Moves(Token, Place(d, 1, 0, 0), Place(d, 0, 0, 0))
  BY Counting, Takes
<1> QED
  BY <1>1, LeadsOnce

LEMMA DecidedMore ==
  ASSUME NEW call \in PlainDecisions
  PROVE  Decided(<<Token, call>>, 1, 0)
<1> SUFFICES ASSUME NEW d \in Nat  PROVE Leads(<<Token, call>>, Place(d, 1, 0, 0), Place(d, 0, 0, 0))
  BY DEF Decided
<1>1. Moves(Token, Place(d, 1, 0, 0), Place(d, 0, 0, 0))
  BY Counting, Takes
<1>2. Moves(call, Place(d, 0, 0, 0), Place(d, 0, 0, 0))
  BY Counting, Decides, Names
<1> QED
  BY <1>1, <1>2, LeadsTwo

LEMMA DecidedOnce ==
  Decided(<<<<"scalar">>>>, 1, 0)
<1> SUFFICES ASSUME NEW d \in Nat  PROVE Leads(<<<<"scalar">>>>, Place(d, 1, 0, 0), Place(d, 0, 0, 0))
  BY DEF Decided
<1>1. Moves(<<"scalar">>, Place(d, 1, 0, 0), Place(d, 0, 0, 0))
  BY Counting, Decides, Names
<1> QED
  BY <1>1, LeadsOnce

LEMMA DecidedTwice ==
  ASSUME NEW after \in PlainDecisions
  PROVE  Decided(<<<<"scalar">>, after>>, 1, 0)
<1> SUFFICES ASSUME NEW d \in Nat  PROVE Leads(<<<<"scalar">>, after>>, Place(d, 1, 0, 0), Place(d, 0, 0, 0))
  BY DEF Decided
<1>1. Moves(<<"scalar">>, Place(d, 1, 0, 0), Place(d, 0, 0, 0))
  BY Counting, Decides, Names
<1>2. Moves(after, Place(d, 0, 0, 0), Place(d, 0, 0, 0))
  BY Counting, Decides, Names
<1> QED
  BY <1>1, <1>2, LeadsTwo

LEMMA DecidedName ==
  ASSUME NEW call \in NamedDecisions
  PROVE  Decided(<<Flush, Token, call>>, 1, 0)
<1> SUFFICES ASSUME NEW d \in Nat  PROVE Leads(<<Flush, Token, call>>, Place(d, 1, 0, 0), Place(d, 0, 0, 0))
  BY DEF Decided
<1>1. Moves(Flush, Place(d, 1, 0, 0), Place(d, 1, 0, 0))
  BY Counting, Passes
<1>2. Moves(Token, Place(d, 1, 0, 0), Place(d, 0, 1, 0))
  BY Counting, Takes
<1>3. Moves(call, Place(d, 0, 1, 0), Place(d, 0, 0, 0))
  BY Counting, Decides, Names
<1> QED
  BY <1>1, <1>2, <1>3, LeadsThree

LEMMA DecidedNameThen ==
  ASSUME NEW call \in NamedDecisions, NEW after \in PlainDecisions
  PROVE  Decided(<<Flush, Token, call, after>>, 1, 0)
<1> SUFFICES ASSUME NEW d \in Nat  PROVE Leads(<<Flush, Token, call, after>>, Place(d, 1, 0, 0), Place(d, 0, 0, 0))
  BY DEF Decided
<1>1. Moves(Flush, Place(d, 1, 0, 0), Place(d, 1, 0, 0))
  BY Counting, Passes
<1>2. Moves(Token, Place(d, 1, 0, 0), Place(d, 0, 1, 0))
  BY Counting, Takes
<1>3. Moves(call, Place(d, 0, 1, 0), Place(d, 0, 0, 0))
  BY Counting, Decides, Names
<1>4. Moves(after, Place(d, 0, 0, 0), Place(d, 0, 0, 0))
  BY Counting, Decides, Names
<1> QED
  BY <1>1, <1>2, <1>3, <1>4, LeadsFour

LEMMA DecidedBrackets ==
  ASSUME NEW kind \in NodeKinds, NEW call \in PlainDecisions
  PROVE  Decided(<<Wrap(kind), Token, call, Finish>>, 1, 1)
<1> SUFFICES ASSUME NEW d \in Nat  PROVE Leads(<<Wrap(kind), Token, call, Finish>>, Place(d, 1, 1, 0), Place(d, 0, 0, 0))
  BY DEF Decided
<1>1. Moves(Wrap(kind), Place(d, 1, 1, 0), Place(d + 1, 1, 0, 0))
  BY Counting, Wraps, Names
<1>2. Moves(Token, Place(d + 1, 1, 0, 0), Place(d + 1, 0, 0, 0))
  BY Counting, Takes
<1>3. Moves(call, Place(d + 1, 0, 0, 0), Place(d + 1, 0, 0, 0))
  BY Counting, Decides, Names
<1>4. Moves(Finish, Place(d + 1, 0, 0, 0), Place(d, 0, 0, 0))
  BY Counting, Closes
<1> QED
  BY <1>1, <1>2, <1>3, <1>4, LeadsFour

LEMMA DecidedScalar ==
  Decided(<<Wrap("Scalar"), Finish>>, 0, 1)
<1> SUFFICES ASSUME NEW d \in Nat  PROVE Leads(<<Wrap("Scalar"), Finish>>, Place(d, 0, 1, 0), Place(d, 0, 0, 0))
  BY DEF Decided
<1>1. Moves(Wrap("Scalar"), Place(d, 0, 1, 0), Place(d + 1, 0, 0, 0))
  BY Counting, Wraps, Names
<1>2. Moves(Finish, Place(d + 1, 0, 0, 0), Place(d, 0, 0, 0))
  BY Counting, Closes
<1> QED
  BY <1>1, <1>2, LeadsTwo

LEMMA DecidedNothing == Decided(<<>>, 0, 0)
<1> SUFFICES ASSUME NEW d \in Nat  PROVE Leads(<<>>, Place(d, 0, 0, 0), Place(d, 0, 0, 0))
  BY DEF Decided
<1> QED
  BY Counting, PlaceIsPlace, LeadsNowhere

\* An error token, which is taken whatever it is.
LEMMA ErrorTaken ==
  ASSUME NEW d \in Nat
  PROVE  Leads(ErrorToken, Place(d, 1, 0, 0), Place(d, 0, 0, 0))
<1>1. Moves(Start("Error"), Place(d, 1, 0, 0), Place(d + 1, 1, 0, 0))
  BY Counting, Opens, Names
<1>2. Moves(Token, Place(d + 1, 1, 0, 0), Place(d + 1, 0, 0, 0))
  BY Counting, Takes
<1>3. Moves(Finish, Place(d + 1, 0, 0, 0), Place(d, 0, 0, 0))
  BY Counting, Closes
<1> QED
  BY <1>1, <1>2, <1>3, LeadsThree DEF ErrorToken

LEMMA HeldStray ==
  ASSUME NEW opened \in Nat, NEW shape \in Shapes
  PROVE  Held(<<Detach>> \o ErrorToken \o <<Items(opened, shape)>>, 1, opened)
<1> DEFINE last == IF opened = 0 THEN 1 ELSE 0
<1> SUFFICES ASSUME NEW d \in Nat
             PROVE  Leads(<<Detach>> \o ErrorToken \o <<Items(opened, shape)>>, Place(d + 1, 1, 0, 0), Place(d, 0, 0, last))
  BY DEF Held
<1>1. Leads(<<Detach>>, Place(d + 1, 1, 0, 0), Place(d + 1, 1, 0, 0))
  BY Counting, Passes, LeadsOnce
<1>2. Leads(ErrorToken, Place(d + 1, 1, 0, 0), Place(d + 1, 0, 0, 0))
  BY Counting, ErrorTaken
<1>3. Leads(<<Items(opened, shape)>>, Place(d + 1, 0, 0, 0), Place(d, 0, 0, last))
  BY Counting, HoldsItems, LeadsOnce
<1>4. Leads(<<Detach>> \o ErrorToken, Place(d + 1, 1, 0, 0), Place(d + 1, 0, 0, 0))
  BY <1>1, <1>2, LeadsOn
<1> QED
  BY <1>3, <1>4, LeadsOn

LEMMA DecidedStray ==
  ASSUME NEW call \in PlainDecisions
  PROVE  Decided(ErrorToken \o <<call>>, 1, 0)
<1> SUFFICES ASSUME NEW d \in Nat  PROVE Leads(ErrorToken \o <<call>>, Place(d, 1, 0, 0), Place(d, 0, 0, 0))
  BY DEF Decided
<1>1. Leads(ErrorToken, Place(d, 1, 0, 0), Place(d, 0, 0, 0))
  BY ErrorTaken
<1>2. Leads(<<call>>, Place(d, 0, 0, 0), Place(d, 0, 0, 0))
  BY Counting, Decides, Names, LeadsOnce
<1> QED
  BY <1>1, <1>2, LeadsOn

LEMMA DecidedLiteral ==
  ASSUME NEW more, more \in {<<>>, << <<"strings">> >>}
  PROVE  Decided(<<Flush, Start("Scalar"), Token>> \o more \o <<Finish>>, 1, 0)
<1> SUFFICES ASSUME NEW d \in Nat
             PROVE  Leads(<<Flush, Start("Scalar"), Token>> \o more \o <<Finish>>, Place(d, 1, 0, 0), Place(d, 0, 0, 0))
  BY DEF Decided
<1>1. Moves(Flush, Place(d, 1, 0, 0), Place(d, 1, 0, 0))
  BY Counting, Passes
<1>2. Moves(Start("Scalar"), Place(d, 1, 0, 0), Place(d + 1, 1, 0, 0))
  BY Counting, Opens, Names
<1>3. Moves(Token, Place(d + 1, 1, 0, 0), Place(d + 1, 0, 0, 0))
  BY Counting, Takes
<1>4. Leads(<<Flush, Start("Scalar"), Token>>, Place(d, 1, 0, 0), Place(d + 1, 0, 0, 0))
  BY <1>1, <1>2, <1>3, LeadsThree
<1>5. Leads(more, Place(d + 1, 0, 0, 0), Place(d + 1, 0, 0, 0))
  <2>1. Leads(<<>>, Place(d + 1, 0, 0, 0), Place(d + 1, 0, 0, 0))
    BY Counting, PlaceIsPlace, LeadsNowhere
  <2>2. Leads(<< <<"strings">> >>, Place(d + 1, 0, 0, 0), Place(d + 1, 0, 0, 0))
    BY Counting, Names, Decides, LeadsOnce
  <2> QED
    BY <2>1, <2>2
<1>6. Leads(<<Finish>>, Place(d + 1, 0, 0, 0), Place(d, 0, 0, 0))
  BY Counting, Closes, LeadsOnce
<1>7. Leads(<<Flush, Start("Scalar"), Token>> \o more, Place(d, 1, 0, 0), Place(d + 1, 0, 0, 0))
  BY <1>4, <1>5, LeadsOn
<1> QED
  BY <1>6, <1>7, LeadsOn

-----------------------------------------------------------------------------
(* What the parser has left to do *)

Finished == Place(0, 0, 0, 1)

\* From the nodes that are open, and with the tokens that are left, the script
\* leads to the end of the file's items.
Running ==
  \E p \in Places :
    /\ Leads(script, p, Finished)
    /\ p.last = 0 /\ p.depth = Len(open)
    /\ next + p.tokens <= Len(tokens)
    /\ p.fresh = 1 => Fresh

\* Or the items are done, and what is left is the trivia at the end of the file.
Ending ==
  /\ next = Len(tokens)
  /\ \/ script = <<Flush, Finish>> /\ Len(open) = 1
     \/ script = <<Finish>> /\ Len(open) = 1 /\ Here = End
     \/ script = <<>> /\ Len(open) = 0 /\ Here = End

DecisionNames == {"value", "annotated", "annotation", "annotation argument", "scalar", "strings", "type argument",
                  "after type", "call argument", "after argument", "named value", "named type", "named argument"}

LEMMA DecisionIs ==
  ASSUME NEW call \in Decisions
  PROVE  \E name \in DecisionNames : call = <<name>>
BY Zenon DEF Decisions, NamedDecisions, DecisionNames

LEMMA Tags ==
  /\ Flush[1] = "flush" /\ Detach[1] = "detach" /\ Trail[1] = "trail" /\ Token[1] = "token" /\ Finish[1] = "finish"
  /\ \A kind \in NodeKinds : Start(kind)[1] = "start" /\ Wrap(kind)[1] = "wrap"
  /\ \A opened \in Nat, shape \in Shapes : Items(opened, shape)[1] = "items"
  /\ \A call \in Decisions : call[1] \in DecisionNames /\ call = <<call[1]>>
  /\ \A name \in DecisionNames :
       name \notin {"flush", "detach", "trail", "token", "finish", "start", "wrap", "items"}
<1>1. Flush[1] = "flush" /\ Detach[1] = "detach" /\ Trail[1] = "trail" /\ Token[1] = "token" /\ Finish[1] = "finish"
  BY DEF Flush, Detach, Trail, Token, Finish
<1>2. \A kind \in NodeKinds : Start(kind)[1] = "start" /\ Wrap(kind)[1] = "wrap"
  BY DEF Start, Wrap
<1>3. \A opened \in Nat, shape \in Shapes : Items(opened, shape)[1] = "items"
  BY DEF Items
<1>4. ASSUME NEW call \in Decisions
      PROVE  call[1] \in DecisionNames /\ call = <<call[1]>>
  <2>1. PICK name \in DecisionNames : call = <<name>>
    BY DecisionIs
  <2>2. call[1] = name
    BY <2>1
  <2> QED
    BY <2>1, <2>2
<1>5. \A name \in DecisionNames :
        name \notin {"flush", "detach", "trail", "token", "finish", "start", "wrap", "items"}
  BY DEF DecisionNames
<1> QED
  BY <1>1, <1>2, <1>3, <1>4, <1>5

\* What a call does, by its name.
LEMMA StepIs ==
  ASSUME NEW call, NEW p, NEW q, Step(call, p, q)
  PROVE  /\ call[1] \in {"flush", "detach", "trail"} =>
              call \in {Flush, Detach, Trail} /\ q = Place(p.depth, p.tokens, 0, 0)
         /\ call[1] = "token" => p.tokens = q.tokens + 1 /\ q.depth = p.depth /\ q.last = 0
         /\ call[1] \in {"start", "wrap"} => q = Place(p.depth + 1, p.tokens, 0, 0)
         /\ call[1] = "start" => \E kind \in NodeKinds : call = Start(kind)
         /\ call[1] = "wrap" => p.fresh = 1 /\ \E kind \in NodeKinds : call = Wrap(kind)
         /\ call[1] = "finish" => p.depth = q.depth + 1 /\ q = Place(q.depth, p.tokens, 0, 0)
         /\ call[1] = "items" =>
              \E opened \in Nat, shape \in Shapes :
                /\ call = Items(opened, shape)
                /\ p.depth = q.depth + 1 /\ q = Place(q.depth, 0, 0, IF opened = 0 THEN 1 ELSE 0)
         /\ call[1] \in DecisionNames =>
              /\ call \in Decisions /\ (call \in NamedDecisions => p.fresh = 1)
              /\ call = <<"scalar">> => p.tokens # 0
              /\ q = Place(p.depth, 0, 0, 0)
<1>0. "flush" \notin DecisionNames /\ "detach" \notin DecisionNames /\ "trail" \notin DecisionNames
      /\ "token" \notin DecisionNames /\ "finish" \notin DecisionNames /\ "start" \notin DecisionNames
      /\ "wrap" \notin DecisionNames /\ "items" \notin DecisionNames
  BY Tags
<1>1. CASE call \in {Flush, Detach, Trail} /\ q = Place(p.depth, p.tokens, 0, 0)
  <2>1. call[1] \in {"flush", "detach", "trail"}
    BY <1>1, Tags
  <2> QED
    BY <1>0, <1>1, <2>1
<1>2. CASE call = Token /\ p.tokens = q.tokens + 1 /\ q.depth = p.depth /\ q.last = 0
  <2>1. call[1] = "token"
    BY <1>2, Tags
  <2> QED
    BY <1>0, <1>2, <2>1
<1>3. CASE (\E kind \in NodeKinds : call = Start(kind)) /\ q = Place(p.depth + 1, p.tokens, 0, 0)
  <2>1. call[1] = "start"
    BY <1>3, Tags
  <2> QED
    BY <1>0, <1>3, <2>1
<1>4. CASE (\E kind \in NodeKinds : call = Wrap(kind)) /\ p.fresh = 1 /\ q = Place(p.depth + 1, p.tokens, 0, 0)
  <2>1. call[1] = "wrap"
    BY <1>4, Tags
  <2> QED
    BY <1>0, <1>4, <2>1
<1>5. CASE call = Finish /\ p.depth = q.depth + 1 /\ q = Place(q.depth, p.tokens, 0, 0)
  <2>1. call[1] = "finish"
    BY <1>5, Tags
  <2> QED
    BY <1>0, <1>5, <2>1
<1>6. CASE /\ call \in Decisions /\ (call \in NamedDecisions => p.fresh = 1)
           /\ call = <<"scalar">> => p.tokens # 0
           /\ q = Place(p.depth, 0, 0, 0)
  <2>1. call[1] \in DecisionNames
    BY <1>6, Tags
  <2> QED
    BY <1>0, <1>6, <2>1
<1>7. CASE \E opened \in Nat, shape \in Shapes :
             /\ call = Items(opened, shape)
             /\ p.depth = q.depth + 1 /\ q = Place(q.depth, 0, 0, IF opened = 0 THEN 1 ELSE 0)
  <2>1. call[1] = "items"
    BY <1>7, Tags
  <2> QED
    BY <1>0, <1>7, <2>1
<1> QED
  BY <1>1, <1>2, <1>3, <1>4, <1>5, <1>6, <1>7, Zenon DEF Step

\* The next call, and where it leads.
LEMMA NextCall ==
  ASSUME Running
  PROVE  \E p, r \in Places :
           /\ script \in Seq(Entries) /\ script # <<>> /\ Head(script) \in Entries
           /\ Step(Head(script), p, r) /\ Leads(Tail(script), r, Finished)
           /\ p.last = 0 /\ p.depth = Len(open)
           /\ next + p.tokens <= Len(tokens)
           /\ p.fresh = 1 => Fresh
<1>1. PICK p \in Places : /\ Leads(script, p, Finished)
                          /\ p.last = 0 /\ p.depth = Len(open)
                          /\ next + p.tokens <= Len(tokens)
                          /\ p.fresh = 1 => Fresh
  BY DEF Running
<1>2. script # <<>>
  <2>1. Finished.last = 1
    BY Counting, PlaceIsPlace DEF Finished
  <2>2. p # Finished
    BY <1>1, <2>1
  <2> QED
    BY <1>1, <2>2, LeadsNoFurther
<1>3. PICK r \in Places : Step(Head(script), p, r) /\ Leads(Tail(script), r, Finished)
  BY <1>1, <1>2, LeadsFirst
<1>4. Head(script) \in Entries
  BY <1>3, StepIsEntry
<1>5. script \in Seq(Entries)
  BY <1>1 DEF Leads
<1> QED
  BY <1>1, <1>2, <1>3, <1>4, <1>5

Unmoved == /\ next' = next /\ cursor' = cursor /\ leaves' = leaves
           /\ open' = open /\ nodes' = nodes /\ tokens' = tokens

\* A decision replaced by its calls.
LEMMA DecisionStep ==
  ASSUME Reading, Running, Nested, Head(script) \in Decisions, NEW calls, NEW n \in Nat, NEW f \in 0..1,
         Decided(calls, n, f), next + n <= Len(tokens), f = 1 => Head(script) \in NamedDecisions,
         script' = calls \o Tail(script), Unmoved
  PROVE  Running'
<1>1. PICK p, r \in Places :
        /\ Head(script) \in Entries
        /\ Step(Head(script), p, r) /\ Leads(Tail(script), r, Finished)
        /\ p.last = 0 /\ p.depth = Len(open)
        /\ p.fresh = 1 => Fresh
  BY NextCall
<1>2. /\ r = Place(p.depth, 0, 0, 0)
      /\ Head(script) \in NamedDecisions => p.fresh = 1
  BY <1>1, Tags, StepIs
<1>3. p.depth \in Nat
  BY DEF Places
<1> DEFINE q == Place(p.depth, n, f, 0)
<1>4. Leads(calls, q, r)
  BY <1>2, <1>3 DEF Decided
<1>5. Leads(calls \o Tail(script), q, Finished)
  BY <1>1, <1>4, LeadsOn
<1>6. q \in Places /\ q.depth = p.depth /\ q.tokens = n /\ q.fresh = f /\ q.last = 0
  BY <1>3, Counting, PlaceIsPlace
<1> HIDE DEF q
<1>7. f = 1 => Fresh
  BY <1>1, <1>2
<1>8. Fresh => Fresh'
  BY DEF Fresh, Unmoved
<1>9. Finished' = Finished
  BY DEF Finished, Place
<1> QED
  BY <1>1, <1>5, <1>6, <1>7, <1>8 DEF Running, Unmoved

\* At items: the node they are in is the innermost open one, and what follows
\* goes on without it.
LEMMA ItemsAt ==
  ASSUME Running, Head(script)[1] = "items"
  PROVE  \E opened \in Nat, shape \in Shapes, d \in Nat :
           /\ Head(script) = Items(opened, shape)
           /\ Argument.opened = opened /\ Argument.shape = shape
           /\ Len(open) = d + 1
           /\ Leads(Tail(script), Place(d, 0, 0, IF opened = 0 THEN 1 ELSE 0), Finished)
<1>1. PICK p, r \in Places :
        /\ Step(Head(script), p, r) /\ Leads(Tail(script), r, Finished)
        /\ p.last = 0 /\ p.depth = Len(open)
  BY NextCall
<1>2. PICK opened \in Nat, shape \in Shapes :
        /\ Head(script) = Items(opened, shape)
        /\ p.depth = r.depth + 1 /\ r = Place(r.depth, 0, 0, IF opened = 0 THEN 1 ELSE 0)
  BY <1>1, StepIs
<1>3. Argument = [opened |-> opened, shape |-> shape]
  BY <1>2 DEF Argument, Items
<1>4. r.depth \in Nat /\ Len(open) = r.depth + 1
  BY <1>1, <1>2 DEF Places
<1>5. Argument.opened = opened /\ Argument.shape = shape
  BY <1>3
<1>6. Leads(Tail(script), Place(r.depth, 0, 0, IF opened = 0 THEN 1 ELSE 0), Finished)
  BY <1>1, <1>2
<1> QED
  BY <1>2, <1>4, <1>5, <1>6

LEMMA FinishedPrimed == Finished' = Finished
BY DEF Finished, Place

\* Items replaced by their calls.
LEMMA HeldStep ==
  ASSUME NEW opened \in Nat, NEW d \in Nat, NEW calls, NEW n \in Nat,
         Len(open) = d + 1, Leads(Tail(script), Place(d, 0, 0, IF opened = 0 THEN 1 ELSE 0), Finished),
         Held(calls, n, opened), next + n <= Len(tokens),
         script' = calls \o Tail(script), Unmoved
  PROVE  Running'
<1> DEFINE q == Place(d + 1, n, 0, 0)
<1>1. Leads(calls, q, Place(d, 0, 0, IF opened = 0 THEN 1 ELSE 0))
  BY DEF Held
<1>2. Leads(calls \o Tail(script), q, Finished)
  BY <1>1, LeadsOn
<1>3. q \in Places /\ q.depth = d + 1 /\ q.tokens = n /\ q.fresh = 0 /\ q.last = 0
  BY Counting, PlaceIsPlace
<1> HIDE DEF q
<1>4. Leads(script', q, Finished')
  BY <1>2, FinishedPrimed
<1> QED
  BY <1>3, <1>4 DEF Running, Unmoved

\* A call made: the script goes on after it.
LEMMA CallMade ==
  ASSUME NEW r \in Places, Running, Leads(Tail(script), r, Finished), Calls(<<>>)
  PROVE  script' = Tail(script) /\ Leads(script', r, Finished')
<1>1. Tail(script) \in Seq(Entries)
  BY DEF Leads
<1>2. <<>> \o Tail(script) = Tail(script)
  BY <1>1, ConcatEmptySeq
<1>3. script' = Tail(script)
  BY <1>2 DEF Calls
<1> QED
  BY <1>3, FinishedPrimed

\* What it takes to be before a call at a place.
LEMMA RunningAt ==
  ASSUME NEW r \in Places, Leads(script', r, Finished'), r.last = 0, r.depth = Len(open'),
         next' + r.tokens <= Len(tokens'), r.fresh = 1 => Fresh'
  PROVE  Running'
BY DEF Running

-----------------------------------------------------------------------------
(* Each step of the parser *)

\* What holds whatever is left to do.
Whole == Reading /\ LeavesReach /\ Nested

LEMMA WholeIs ==
  ASSUME Whole
  PROVE  /\ Reading /\ LeavesReach /\ Nested
         /\ leaves \in Seq(Leaves) /\ Len(leaves) \in Nat /\ Len(leaves) + 1 \in Nat
         /\ open \in Seq(Opened) /\ Len(open) \in Nat
         /\ next \in 1..Len(tokens) /\ next \in Nat /\ Len(tokens) \in Nat
BY AtToken DEF Whole, LeavesReach, Covers, Nested, Reading

\* What does not touch the leaves.
LEMMA WholeKept ==
  ASSUME Whole, UNCHANGED lexing, next' = next, cursor' = cursor, leaves' = leaves
  PROVE  Reading' /\ LeavesReach' /\ Here' = Here /\ End' = End
<1>1. Reading' /\ TriviaEnd' = tokens[next].from /\ Gap(next)' = Gap(next)
  <2>1. next' \in 1..Len(tokens)
    BY WholeIs
  <2>2. tokens' = tokens
    BY DEF lexing
  <2>3. Reading' /\ TriviaEnd' = tokens[next'].from /\ Gap(next)' = Gap(next')
    BY <2>1, WholeIs, ReadingOn
  <2> QED
    BY <2>2, <2>3 DEF Gap
<1>2. TriviaEnd' = TriviaEnd
  BY <1>1, WholeIs, RunFills
<1>3. Here' = Here
  BY <1>1 DEF Here
<1>4. tokens' = tokens /\ source' = source
  BY DEF lexing
<1>5. Covers(leaves, next, Here)'
  <2>1. Covers(leaves, next, Here)
    BY WholeIs DEF LeavesReach
  <2> QED
    BY <1>3, <1>4, <2>1, CoversPrimed
<1>6. LeavesReach'
  BY <1>1, <1>2, <1>3, <1>5, WholeIs DEF LeavesReach
<1> QED
  BY <1>1, <1>3, <1>4, <1>6 DEF End

LEMMA NestedKept ==
  ASSUME Whole, leaves' = leaves, open' = open, nodes' = nodes
  PROVE  Nested'
<1>1. Nested /\ Len(leaves) \in Nat /\ Len(leaves') \in Nat /\ Len(leaves) <= Len(leaves')
  BY WholeIs
<1> QED
  BY <1>1, NestedGrows

\* flush, detach, trail
LEMMA EmitTriviaStep ==
  ASSUME Whole, Running \/ Ending, EmitTrivia, UNCHANGED lexing
  PROVE  Whole' /\ (Running' \/ Ending')
<1>0. script # <<>> /\ Head(script)[1] \in {"flush", "detach", "trail"}
  BY DEF EmitTrivia, Reached, Parsed
<1>1. /\ Head(script) \in {Flush, Detach, Trail}
      /\ Running \/ (script = <<Flush, Finish>> /\ Head(script) = Flush /\ next = Len(tokens) /\ Len(open) = 1)
  <2>1. CASE Running
    BY <1>0, <2>1, NextCall, StepIs
  <2>2. CASE Ending
    <3>1. Head(<<Flush, Finish>>) = Flush /\ Head(<<Finish>>) = Finish
      OBVIOUS
    <3>2. Finish[1] = "finish"
      BY Tags
    <3> QED
      BY <1>0, <2>2, <3>1, <3>2 DEF Ending
  <2> QED
    BY <2>1, <2>2
<1> DEFINE limit == CASE Head(script) = Flush -> TriviaEnd
                      [] Head(script) = Detach -> DetachedLimit
                      [] Head(script) = Trail -> TrailingLimit
<1>2. Flush # Detach /\ Flush # Trail /\ Detach # Trail
  <2>1. Flush[1] = "flush" /\ Detach[1] = "detach" /\ Trail[1] = "trail"
    BY Tags
  <2> QED
    BY <2>1
<1>3. /\ limit \in Here..TriviaEnd
      /\ Head(script) = Flush => limit = TriviaEnd
  <2>1. Unemitted = Here /\ Here \in Nat /\ TriviaEnd \in Nat /\ Here <= TriviaEnd
    BY WholeIs, UnemittedIsHere
  <2>2. TrailingLimit \in Here..TriviaEnd /\ DetachedLimit \in Here..TriviaEnd /\ TriviaEnd \in Here..TriviaEnd
    BY <2>1, LimitsLie
  <2> QED
    BY <1>1, <1>2, <2>2
<1>4. leaves' = leaves \o TriviaUpto(limit) /\ cursor' = Max2(Unemitted, limit)
  BY DEF EmitTrivia
<1> HIDE DEF limit
<1>5. Calls(<<>>) /\ next' = next /\ open' = open /\ nodes' = nodes
  BY DEF EmitTrivia
<1>6. LeavesReach' /\ Here' = limit /\ Len(leaves) <= Len(leaves')
  BY <1>3, <1>4, <1>5, WholeIs, EmitsTrivia
<1>7. Reading' /\ tokens' = tokens /\ End' = End
  <2>1. next' \in 1..Len(tokens)
    BY <1>5, WholeIs
  <2> QED
    BY <2>1, WholeIs, ReadingOn DEF lexing, End
<1>8. Nested'
  <2>1. Len(leaves') \in Nat
    BY <1>6 DEF LeavesReach, Covers
  <2> QED
    BY <1>5, <1>6, <2>1, WholeIs, NestedGrows
<1>9. CASE Running
  <2>1. PICK p, r \in Places :
          /\ Step(Head(script), p, r) /\ Leads(Tail(script), r, Finished)
          /\ p.last = 0 /\ p.depth = Len(open)
          /\ next + p.tokens <= Len(tokens)
    BY <1>9, NextCall
  <2>2. r = Place(p.depth, p.tokens, 0, 0) /\ p.depth \in Nat /\ p.tokens \in Nat
    BY <1>0, <2>1, StepIs DEF Places
  <2>3. r.depth = p.depth /\ r.tokens = p.tokens /\ r.fresh = 0 /\ r.last = 0
    BY <2>2, Counting, PlaceIsPlace
  <2>4. Leads(script', r, Finished')
    BY <1>5, <1>9, <2>1, CallMade
  <2> QED
    BY <1>5, <1>6, <1>7, <1>8, <2>1, <2>3, <2>4, RunningAt DEF Whole
<1>10. CASE ~Running
  <2>1. script = <<Flush, Finish>> /\ Head(script) = Flush /\ next = Len(tokens) /\ Len(open) = 1
    BY <1>1, <1>10
  <2>2. script' = <<Finish>>
    <3>1. script' = <<>> \o Tail(<<Flush, Finish>>)
      BY <1>5, <2>1 DEF Calls
    <3>2. Tail(<<Flush, Finish>>) = <<Finish>> /\ <<Finish>> \in Seq({Finish})
      OBVIOUS
    <3> QED
      BY <3>1, <3>2, ConcatEmptySeq
  <2>3. Here' = End'
    <3>1. limit = tokens[next].from
      BY <1>3, <2>1, WholeIs, RunFills
    <3>2. tokens[next].from = End
      BY <2>1, WholeIs, Read
    <3> QED
      BY <1>6, <1>7, <3>1, <3>2
  <2> QED
    BY <1>5, <1>6, <1>7, <1>8, <2>1, <2>2, <2>3 DEF Whole, Ending
<1> QED
  BY <1>9, <1>10

\* Only what runs takes tokens and opens nodes.
LEMMA EndingIs ==
  ASSUME Ending, script # <<>>
  PROVE  Head(script)[1] \in {"flush", "finish"}
<1>1. Head(<<Flush, Finish>>) = Flush /\ Head(<<Finish>>) = Finish
  OBVIOUS
<1>2. Finish[1] = "finish" /\ Flush[1] = "flush"
  BY Tags
<1> QED
  BY <1>1, <1>2 DEF Ending

LEMMA EmitTokenStep ==
  ASSUME Whole, Running \/ Ending, EmitToken, UNCHANGED lexing
  PROVE  Whole' /\ Running'
<1>1. script # <<>> /\ Head(script)[1] = "token"
  BY DEF EmitToken, Reached, Parsed
<1>2. Running
  BY <1>1, EndingIs
<1>3. PICK p, r \in Places :
        /\ Step(Head(script), p, r) /\ Leads(Tail(script), r, Finished)
        /\ p.last = 0 /\ p.depth = Len(open)
        /\ next + p.tokens <= Len(tokens)
  BY <1>2, NextCall
<1>4. /\ p.tokens = r.tokens + 1 /\ r.depth = p.depth /\ r.last = 0
      /\ r.tokens \in Nat
  BY <1>1, <1>3, StepIs DEF Places
<1>5. next < Len(tokens) /\ (next + 1) + r.tokens <= Len(tokens)
  BY <1>3, <1>4, WholeIs
<1>6. LeavesReach' /\ Reading' /\ Len(leaves) < Len(leaves')
  BY <1>5, WholeIs, EmitsToken
<1>7. next' = next + 1 /\ open' = open /\ nodes' = nodes /\ Calls(<<>>) /\ tokens' = tokens
  BY DEF EmitToken, lexing
<1>8. Nested' /\ Fresh'
  <2>1. Len(leaves') \in Nat
    BY <1>6 DEF LeavesReach, Covers
  <2> QED
    BY <1>6, <1>7, <2>1, WholeIs, NestedGrows
<1>9. Leads(script', r, Finished')
  BY <1>2, <1>3, <1>7, CallMade
<1>10. r.depth = Len(open') /\ next' + r.tokens <= Len(tokens')
  BY <1>3, <1>4, <1>5, <1>7
<1>11. Running'
  BY <1>4, <1>8, <1>9, <1>10, RunningAt
<1> QED
  BY <1>6, <1>8, <1>11 DEF Whole

\* start_node, start_node_at
LEMMA StartNodeStep ==
  ASSUME Whole, Running \/ Ending, StartNode, UNCHANGED lexing
  PROVE  Whole' /\ Running'
<1>1. script # <<>> /\ Head(script)[1] \in {"start", "wrap"}
  BY DEF StartNode, Reached, Parsed
<1>2. Running
  BY <1>1, EndingIs
<1>3. PICK p, r \in Places :
        /\ Step(Head(script), p, r) /\ Leads(Tail(script), r, Finished)
        /\ p.last = 0 /\ p.depth = Len(open)
        /\ next + p.tokens <= Len(tokens)
        /\ p.fresh = 1 => Fresh
  BY <1>2, NextCall
<1>4. r = Place(p.depth + 1, p.tokens, 0, 0) /\ p.depth \in Nat /\ p.tokens \in Nat /\ p.depth + 1 \in Nat
  BY <1>1, <1>3, StepIs DEF Places
<1>5. r.depth = p.depth + 1 /\ r.tokens = p.tokens /\ r.fresh = 0 /\ r.last = 0
  BY <1>4, Counting, PlaceIsPlace
<1>6. Argument \in NodeKinds
  <2>1. PICK kind \in NodeKinds : Head(script) = Start(kind) \/ Head(script) = Wrap(kind)
    BY <1>1, <1>3, StepIs
  <2>2. Start(kind)[2] = kind /\ Wrap(kind)[2] = kind
    BY DEF Start, Wrap
  <2> QED
    BY <2>1, <2>2 DEF Argument
<1> DEFINE first == IF Reached("wrap") THEN Len(leaves) ELSE Len(leaves) + 1
<1>7. first \in Nat /\ (first = Len(leaves) + 1 \/ (first = Len(leaves) /\ first # 0 /\ Fresh))
  <2>1. Reached("wrap") => Fresh
    BY <1>3, StepIs DEF Reached
  <2>2. Fresh => Len(leaves) # 0
    BY DEF Fresh
  <2> QED
    BY <2>1, <2>2, WholeIs
<1>8. open' = Append(open, [kind |-> Argument, first |-> first])
  BY DEF StartNode
<1> HIDE DEF first
<1>9. nodes' = nodes /\ next' = next /\ cursor' = cursor /\ leaves' = leaves /\ Calls(<<>>) /\ tokens' = tokens
  BY DEF StartNode, lexing
<1>10. Nested' /\ Len(open') = Len(open) + 1
  BY <1>6, <1>7, <1>8, <1>9, WholeIs, NestedOpens
<1>11. Reading' /\ LeavesReach'
  BY <1>9, WholeKept
<1>12. Leads(script', r, Finished')
  BY <1>2, <1>3, <1>9, CallMade
<1>13. Running'
  BY <1>3, <1>5, <1>9, <1>10, <1>12, RunningAt
<1> QED
  BY <1>10, <1>11, <1>13 DEF Whole

\* finish_node
LEMMA FinishNodeStep ==
  ASSUME Whole, Running \/ Ending, FinishNode, UNCHANGED lexing
  PROVE  Whole' /\ (Running' \/ Ending')
<1>1. script # <<>> /\ Head(script)[1] = "finish"
  BY DEF FinishNode, Reached, Parsed
<1>2. /\ next' = next /\ cursor' = cursor /\ leaves' = leaves /\ Calls(<<>>) /\ tokens' = tokens
      /\ open' = Front(open)
      /\ nodes' = nodes \cup {[kind |-> open[Len(open)].kind, first |-> open[Len(open)].first, last |-> Len(leaves)]}
  BY DEF FinishNode, lexing
<1>3. Reading' /\ LeavesReach' /\ Here' = Here /\ End' = End
  BY <1>2, WholeKept
<1>4. ASSUME open # <<>>  PROVE Nested' /\ Len(open') = Len(open) - 1
  BY <1>2, <1>4, WholeIs, NestedCloses
<1>5. CASE Running
  <2>1. PICK p, r \in Places :
          /\ Step(Head(script), p, r) /\ Leads(Tail(script), r, Finished)
          /\ p.last = 0 /\ p.depth = Len(open)
          /\ next + p.tokens <= Len(tokens)
    BY <1>5, NextCall
  <2>2. p.depth = r.depth + 1 /\ r = Place(r.depth, p.tokens, 0, 0) /\ r.depth \in Nat /\ p.tokens \in Nat
    BY <1>1, <2>1, StepIs DEF Places
  <2>3. r.tokens = p.tokens /\ r.fresh = 0 /\ r.last = 0
    BY <2>2, Counting, PlaceIsPlace
  <2>4. open # <<>>
    <3>1. Len(open) # 0
      BY <2>1, <2>2, WholeIs
    <3> QED
      BY <3>1
  <2>5. r.depth = Len(open')
    BY <1>4, <2>1, <2>2, <2>4, WholeIs
  <2>6. Leads(script', r, Finished')
    BY <1>2, <1>5, <2>1, CallMade
  <2>7. Running'
    BY <1>2, <2>1, <2>3, <2>5, <2>6, RunningAt
  <2> QED
    BY <1>3, <1>4, <2>4, <2>7 DEF Whole
<1>6. CASE Ending
  <2>1. script = <<Finish>> /\ Len(open) = 1 /\ Here = End /\ next = Len(tokens)
    <3>1. Head(<<Flush, Finish>>) = Flush /\ Flush[1] = "flush"
      BY Tags
    <3> QED
      BY <1>1, <1>6, <3>1 DEF Ending
  <2>2. script' = <<>>
    <3>1. script' = <<>> \o Tail(<<Finish>>)
      BY <1>2, <2>1 DEF Calls
    <3>2. Tail(<<Finish>>) = <<>>
      OBVIOUS
    <3> QED
      BY <3>1, <3>2
  <2>3. open # <<>>
    BY <2>1
  <2>4. Nested' /\ Len(open') = 0
    BY <1>4, <2>1, <2>3
  <2> QED
    BY <1>2, <1>3, <2>1, <2>2, <2>4 DEF Whole, Ending
<1> QED
  BY <1>5, <1>6

\* Only what runs parses.
LEMMA ParsesRunning ==
  ASSUME Running \/ Ending, script # <<>>, Head(script)[1] \notin {"flush", "finish"}
  PROVE  Running
BY EndingIs

\* A parse function that replaces its own call by others.
LEMMA GoesOn ==
  ASSUME Whole, UNCHANGED lexing, next' = next, cursor' = cursor, leaves' = leaves, open' = open,
         nodes' = nodes
  PROVE  Whole' /\ Unmoved
<1>1. tokens' = tokens
  BY DEF lexing
<1> QED
  BY <1>1, WholeKept, NestedKept DEF Whole, Unmoved

Replaces(calls) ==
  /\ script' = calls \o Tail(script)
  /\ next' = next /\ cursor' = cursor /\ leaves' = leaves /\ open' = open /\ nodes' = nodes

LEMMA ItReplaces ==
  /\ \A calls : Goes(calls) => Replaces(calls)
  /\ \A calls : Stray(calls) => Replaces(calls)
  /\ \A code, at, calls : Reports(code, at, calls) => Replaces(calls)
BY DEF Goes, Stray, Reports, Calls, tree, Replaces

\* One that looks at the next token.
LEMMA ReachedIs ==
  ASSUME Running \/ Ending, NEW name \in DecisionNames, Reached(name)
  PROVE  /\ Running /\ Head(script) = <<name>> /\ Head(script) \in Decisions
         /\ Whole /\ name = "scalar" => next + 1 <= Len(tokens)
<1>1. script # <<>> /\ Head(script)[1] = name
  BY DEF Reached, Parsed
<1>2. Running
  <2>1. "flush" \notin DecisionNames /\ "finish" \notin DecisionNames
    BY Tags
  <2> QED
    BY <1>1, <2>1, ParsesRunning
<1>3. PICK p, r \in Places : Step(Head(script), p, r) /\ next + p.tokens <= Len(tokens)
  BY <1>2, NextCall
<1>4. Head(script) \in Decisions /\ (Head(script) = <<"scalar">> => p.tokens # 0)
  BY <1>1, <1>3, StepIs
<1>5. Head(script) = <<name>>
  BY <1>1, <1>4, Tags
<1>6. ASSUME name = "scalar", Whole
      PROVE  next + 1 <= Len(tokens)
  <2>1. p.tokens # 0 /\ p.tokens \in Nat
    BY <1>4, <1>5, <1>6 DEF Places
  <2> QED
    BY <1>3, <1>6, <2>1, WholeIs
<1> QED
  BY <1>2, <1>4, <1>5, <1>6

LEMMA DecisionGoes ==
  ASSUME Whole, Running \/ Ending, UNCHANGED lexing, NEW name \in DecisionNames, Reached(name),
         NEW calls, NEW n \in Nat, NEW f \in 0..1, Decided(calls, n, f), next + n <= Len(tokens),
         f = 1 => <<name>> \in NamedDecisions,
         Replaces(calls)
  PROVE  Whole' /\ Running'
<1>1. Running /\ Head(script) = <<name>> /\ Head(script) \in Decisions
  BY ReachedIs
<1>2. /\ script' = calls \o Tail(script)
      /\ next' = next /\ cursor' = cursor /\ leaves' = leaves /\ open' = open /\ nodes' = nodes
  BY DEF Replaces
<1>3. Whole' /\ Unmoved
  BY <1>2, GoesOn
<1>4. Reading /\ Nested
  BY WholeIs
<1>5. f = 1 => Head(script) \in NamedDecisions
  BY <1>1
<1>6. Running'
  BY <1>1, <1>2, <1>3, <1>4, <1>5, DecisionStep
<1> QED
  BY <1>3, <1>6

\* It leaves the next token to others, or it takes it, which is not the end of the
\* file; or it comes after a name.
LEMMA LooksOn ==
  ASSUME Whole, Running \/ Ending, UNCHANGED lexing, NEW name \in DecisionNames, Reached(name),
         NEW calls, Decided(calls, 0, 0), Replaces(calls)
  PROVE  Whole' /\ Running'
<1>1. next + 0 <= Len(tokens)
  BY WholeIs
<1>2. 0 # 1
  OBVIOUS
<1> QED
  BY <1>1, <1>2, Counting, DecisionGoes

LEMMA TakesOne ==
  ASSUME Whole, Running \/ Ending, UNCHANGED lexing, NEW name \in DecisionNames, Reached(name),
         NEW calls, Decided(calls, 1, 0), Kind(0) # "EndOfFile", Replaces(calls)
  PROVE  Whole' /\ Running'
<1>1. next + 1 <= Len(tokens)
  BY WholeIs, AtToken
<1>2. 0 # 1
  OBVIOUS
<1> QED
  BY <1>1, <1>2, Counting, DecisionGoes

LEMMA AfterName ==
  ASSUME Whole, Running \/ Ending, UNCHANGED lexing, NEW name \in DecisionNames, Reached(name),
         <<name>> \in NamedDecisions, NEW calls,
         Decided(calls, 0, 1) \/ (Decided(calls, 1, 1) /\ Kind(0) # "EndOfFile"), Replaces(calls)
  PROVE  Whole' /\ Running'
<1>1. next + 0 <= Len(tokens) /\ (Kind(0) # "EndOfFile" => next + 1 <= Len(tokens))
  BY WholeIs, AtToken
<1> QED
  BY <1>1, Counting, DecisionGoes

LEMMA KindsDiffer ==
  /\ StartsScalar => Kind(0) # "EndOfFile"
  /\ \A byte : At(byte) => Kind(0) # "EndOfFile"
  /\ AtEnd <=> Kind(0) = "EndOfFile"
BY DEF StartsScalar, ScalarKinds, At, AtEnd

LEMMA DecisionNamed ==
  /\ "value" \in DecisionNames /\ "annotated" \in DecisionNames /\ "annotation" \in DecisionNames
  /\ "annotation argument" \in DecisionNames /\ "scalar" \in DecisionNames /\ "strings" \in DecisionNames
  /\ "type argument" \in DecisionNames /\ "after type" \in DecisionNames
  /\ "call argument" \in DecisionNames /\ "after argument" \in DecisionNames
  /\ "named value" \in DecisionNames /\ "named type" \in DecisionNames /\ "named argument" \in DecisionNames
  /\ <<"named value">> \in NamedDecisions /\ <<"named type">> \in NamedDecisions
  /\ <<"named argument">> \in NamedDecisions
BY DEF DecisionNames, NamedDecisions

\* parse_value
LEMMA ParseValueStep ==
  ASSUME Whole, Running \/ Ending, ParseValue, UNCHANGED lexing
  PROVE  Whole' /\ Running'
<1>1. Reached("value") /\ Goes(<<Flush, Start("Value"), <<"annotated">>, Finish>>)
  BY DEF ParseValue
<1> QED
  BY <1>1, DecisionNamed, DecidedValue, ItReplaces, LooksOn

LEMMA ParseAnnotationStep ==
  ASSUME Whole, Running \/ Ending, ParseAnnotation, UNCHANGED lexing
  PROVE  Whole' /\ Running'
<1>1. /\ Reached("annotated") /\ Kind(0) = "Annotation"
      /\ Goes(<<Flush, Start("Annotation"), Token, <<"annotation">>, Finish, Head(script)>>)
  BY DEF ParseAnnotation
<1>2. Head(script) = <<"annotated">>
  BY <1>1, DecisionNamed, ReachedIs
<1>3. Goes(<<Flush, Start("Annotation"), Token, <<"annotation">>, Finish, <<"annotated">>>>)
  BY <1>1, <1>2
<1>4. Kind(0) # "EndOfFile"
  BY <1>1
<1> QED
  BY <1>1, <1>3, <1>4, DecisionNamed, DecidedAnnotation, ItReplaces, TakesOne

LEMMA KindsOf ==
  /\ \A a, b : At(a) /\ At(b) => a = b
  /\ \A byte : At(byte) => ~AtEnd /\ Kind(0) \notin ScalarKinds /\ Kind(0) # "Annotation"
  /\ AtEnd => Kind(0) \notin ScalarKinds
  /\ Kind(0) \in ScalarKinds <=> StartsScalar
  /\ "Identifier" \in ScalarKinds /\ "Integer" \in ScalarKinds /\ "String" \in ScalarKinds
BY DEF At, AtEnd, ScalarKinds, StartsScalar

LEMMA ParseAnnotationArgumentsStep ==
  ASSUME Whole, Running \/ Ending, ParseAnnotationArguments, UNCHANGED lexing
  PROVE  Whole' /\ Running'
<1>1. Reached("annotation") /\ Goes(IF At("(") THEN <<Token, <<"annotation argument">>>> ELSE <<>>)
  BY DEF ParseAnnotationArguments
<1>2. CASE At("(")
  <2>1. Goes(<<Token, <<"annotation argument">>>>)
    BY <1>1, <1>2
  <2>2. Decided(<<Token, <<"annotation argument">>>>, 1, 0)
    BY Names, DecidedMore
  <2>3. Kind(0) # "EndOfFile"
    BY <1>2, KindsDiffer
  <2> QED
    BY <1>1, <2>1, <2>2, <2>3, DecisionNamed, ItReplaces, TakesOne
<1>3. CASE ~At("(")
  <2>1. Goes(<<>>)
    BY <1>1, <1>3
  <2> QED
    BY <1>1, <2>1, DecisionNamed, DecidedNothing, ItReplaces, LooksOn
<1> QED
  BY <1>2, <1>3

LEMMA ParseAnnotationArgumentStep ==
  ASSUME Whole, Running \/ Ending, ParseAnnotationArgument, UNCHANGED lexing
  PROVE  Whole' /\ Running'
<1>1. Reached("annotation argument")
  BY DEF ParseAnnotationArgument
<1>2. \/ At(")") /\ Goes(<<Token>>)
      \/ AtEnd /\ Stray(<<>>)
      \/ (Kind(0) \in {"Identifier", "Integer"} \/ At(",")) /\ Goes(<<Token, Head(script)>>)
      \/ ~AtEnd /\ Stray(ErrorToken \o <<Head(script)>>)
  <2>1. (CASE At(")") -> Goes(<<Token>>)
           [] AtEnd -> Stray(<<>>)
           [] Kind(0) \in {"Identifier", "Integer"} \/ At(",") -> Goes(<<Token, Head(script)>>)
           [] OTHER -> Stray(ErrorToken \o <<Head(script)>>))
    BY DEF ParseAnnotationArgument
  <2>2. /\ ~(At(")") /\ AtEnd) /\ ~(At(")") /\ (Kind(0) \in {"Identifier", "Integer"} \/ At(",")))
        /\ ~(AtEnd /\ (Kind(0) \in {"Identifier", "Integer"} \/ At(",")))
    BY KindsOf
  <2> QED
    BY <2>1, <2>2
<1>3. Head(script) = <<"annotation argument">>
  BY <1>1, DecisionNamed, ReachedIs
<1>4. CASE At(")") /\ Goes(<<Token>>)
  <2>1. Kind(0) # "EndOfFile"
    BY <1>4, KindsDiffer
  <2> QED
    BY <1>1, <1>4, <2>1, DecisionNamed, DecidedToken, ItReplaces, TakesOne
<1>5. CASE AtEnd /\ Stray(<<>>)
  BY <1>1, <1>5, DecisionNamed, DecidedNothing, ItReplaces, LooksOn
<1>6. CASE (Kind(0) \in {"Identifier", "Integer"} \/ At(",")) /\ Goes(<<Token, Head(script)>>)
  <2>1. Kind(0) # "EndOfFile"
    BY <1>6, KindsDiffer
  <2>2. Decided(<<Token, Head(script)>>, 1, 0)
    BY <1>3, Names, DecidedMore
  <2> QED
    BY <1>1, <1>6, <2>1, <2>2, DecisionNamed, ItReplaces, TakesOne
<1>7. CASE ~AtEnd /\ Stray(ErrorToken \o <<Head(script)>>)
  <2>1. Kind(0) # "EndOfFile"
    BY <1>7, KindsDiffer
  <2>2. Decided(ErrorToken \o <<Head(script)>>, 1, 0)
    BY <1>3, Names, DecidedStray
  <2> QED
    BY <1>1, <1>7, <2>1, <2>2, DecisionNamed, ItReplaces, TakesOne
<1> QED
  BY <1>2, <1>4, <1>5, <1>6, <1>7

\* A token starts at a byte of the file, or past its end: never at 0.
LEMMA TokenStarts ==
  ASSUME Whole
  PROVE  Tok(0).from \in Nat \ {0}
<1>1. /\ Tok(0) = tokens[next] /\ next \in 1..Len(tokens) /\ Len(tokens) \in Nat
      /\ Gap(next) \in Nat /\ tokens[next].from \in Nat /\ Gap(next) <= tokens[next].from
  BY WholeIs, AtToken, Read
<1>2. CASE next = 1
  <2>1. Gap(next) = 1
    BY <1>2 DEF Gap
  <2> QED
    BY <1>1, <2>1
<1>3. CASE next # 1
  <2>1. next - 1 \in 1..Len(tokens) /\ next - 1 # Len(tokens) /\ (next - 1) + 1 = next
    BY <1>1, <1>3
  <2>2. /\ tokens[next - 1].from \in Nat /\ tokens[next - 1].from < tokens[next - 1].to
        /\ tokens[next - 1].to \in Nat /\ Gap(next) = tokens[next - 1].to
    BY <2>1, WholeIs, Read
  <2> QED
    BY <1>1, <2>2
<1> QED
  BY <1>2, <1>3

LEMMA ParseBlockStep ==
  ASSUME Whole, Running \/ Ending, ParseBlock, UNCHANGED lexing
  PROVE  Whole' /\ Running'
<1>1. /\ Reached("annotated") /\ At("{")
      /\ Goes(<<Flush, Start("Block"), Token, Items(Tok(0).from, {})>>)
  BY DEF ParseBlock
<1>2. Decided(<<Flush, Start("Block"), Token, Items(Tok(0).from, {})>>, 1, 0)
  <2>1. {} \in Shapes
    BY DEF Shapes
  <2> QED
    BY <2>1, TokenStarts, DecidedBlock
<1>3. Kind(0) # "EndOfFile"
  BY <1>1, KindsDiffer
<1> QED
  BY <1>1, <1>2, <1>3, DecisionNamed, ItReplaces, TakesOne

LEMMA ParseScalarValueStep ==
  ASSUME Whole, Running \/ Ending, ParseScalarValue, UNCHANGED lexing
  PROVE  Whole' /\ Running'
<1>1. /\ Reached("annotated") /\ StartsScalar
      /\ Goes(IF Kind(0) = "Identifier" THEN <<Flush, Token, <<"named value">>>> ELSE <<<<"scalar">>>>)
  BY DEF ParseScalarValue
<1>2. CASE Kind(0) = "Identifier"
  <2>1. Goes(<<Flush, Token, <<"named value">>>>)
    BY <1>1, <1>2
  <2>2. Decided(<<Flush, Token, <<"named value">>>>, 1, 0)
    BY DecisionNamed, DecidedName
  <2>3. Kind(0) # "EndOfFile"
    BY <1>2
  <2> QED
    BY <1>1, <2>1, <2>2, <2>3, DecisionNamed, ItReplaces, TakesOne
<1>3. CASE Kind(0) # "Identifier"
  <2>1. Goes(<<<<"scalar">>>>)
    BY <1>1, <1>3
  <2>2. Kind(0) # "EndOfFile"
    BY <1>1, KindsDiffer
  <2> QED
    BY <1>1, <2>1, <2>2, DecidedOnce, DecisionNamed, ItReplaces, TakesOne
<1> QED
  BY <1>2, <1>3

LEMMA ValueMissingStep ==
  ASSUME Whole, Running \/ Ending, ValueMissing, UNCHANGED lexing
  PROVE  Whole' /\ Running'
<1>1. Reached("annotated") /\ Reports("ValueMissing", TriviaStart, <<>>)
  BY DEF ValueMissing
<1>2. Replaces(<<>>)
  BY <1>1, ItReplaces
<1> QED
  BY <1>1, <1>2, DecisionNamed, DecidedNothing, LooksOn

LEMMA ParseIdentifierValueStep ==
  ASSUME Whole, Running \/ Ending, ParseIdentifierValue, UNCHANGED lexing
  PROVE  Whole' /\ Running'
<1>1. /\ Reached("named value")
      /\ Goes(CASE At("<") -> <<Wrap("TypeExpr"), Token, <<"type argument">>, Finish>>
                [] At("(") -> <<Wrap("Call"), Token, <<"call argument">>, Finish>>
                [] OTHER -> <<Wrap("Scalar"), Finish>>)
  BY DEF ParseIdentifierValue
<1>2. ~(At("<") /\ At("("))
  BY KindsOf
<1>3. CASE At("<")
  <2>1. Goes(<<Wrap("TypeExpr"), Token, <<"type argument">>, Finish>>)
    BY <1>1, <1>2, <1>3
  <2>2. Decided(<<Wrap("TypeExpr"), Token, <<"type argument">>, Finish>>, 1, 1)
    BY Names, DecidedBrackets
  <2>3. Kind(0) # "EndOfFile"
    BY <1>3, KindsDiffer
  <2> QED
    BY <1>1, <2>1, <2>2, <2>3, DecisionNamed, ItReplaces, AfterName
<1>4. CASE At("(")
  <2>1. Goes(<<Wrap("Call"), Token, <<"call argument">>, Finish>>)
    BY <1>1, <1>2, <1>4
  <2>2. Decided(<<Wrap("Call"), Token, <<"call argument">>, Finish>>, 1, 1)
    BY Names, DecidedBrackets
  <2>3. Kind(0) # "EndOfFile"
    BY <1>4, KindsDiffer
  <2> QED
    BY <1>1, <2>1, <2>2, <2>3, DecisionNamed, ItReplaces, AfterName
<1>5. CASE ~At("<") /\ ~At("(")
  <2>1. Goes(<<Wrap("Scalar"), Finish>>)
    BY <1>1, <1>5
  <2> QED
    BY <1>1, <2>1, DecidedScalar, DecisionNamed, ItReplaces, AfterName
<1> QED
  BY <1>3, <1>4, <1>5

\* A closing bracket, or a report that it is missing.
LEMMA CloseStep ==
  ASSUME Whole, Running \/ Ending, UNCHANGED lexing, NEW name \in DecisionNames, Reached(name),
         NEW byte, Close(byte)
  PROVE  Whole' /\ Running'
<1>1. CASE At(byte)
  <2>1. Goes(<<Token>>)
    BY <1>1 DEF Close
  <2>2. Kind(0) # "EndOfFile"
    BY <1>1, KindsDiffer
  <2> QED
    BY <2>1, <2>2, DecidedToken, ItReplaces, TakesOne
<1>2. CASE ~At(byte)
  <2>1. Stray(<<>>)
    BY <1>2 DEF Close
  <2> QED
    BY <2>1, DecidedNothing, ItReplaces, LooksOn
<1> QED
  BY <1>1, <1>2

LEMMA ParseScalarStep ==
  ASSUME Whole, Running \/ Ending, ParseScalar, UNCHANGED lexing
  PROVE  Whole' /\ Running'
<1>1. CASE /\ Reached("scalar")
           /\ Goes(<<Flush, Start("Scalar"), Token>> \o (IF Kind(0) = "String" THEN <<<<"strings">>>> ELSE <<>>) \o <<Finish>>)
  <2> DEFINE more == IF Kind(0) = "String" THEN <<<<"strings">>>> ELSE <<>>
  <2>1. more \in {<<>>, << <<"strings">> >>}
    OBVIOUS
  <2>2. Goes(<<Flush, Start("Scalar"), Token>> \o more \o <<Finish>>)
    BY <1>1
  <2> HIDE DEF more
  <2>3. Decided(<<Flush, Start("Scalar"), Token>> \o more \o <<Finish>>, 1, 0)
    BY <2>1, DecidedLiteral
  <2>4. next + 1 <= Len(tokens)
    BY <1>1, DecisionNamed, ReachedIs
  <2>5. 0 # 1
    OBVIOUS
  <2> QED
    BY <1>1, <2>2, <2>3, <2>4, <2>5, Counting, DecisionNamed, ItReplaces, DecisionGoes
<1>2. CASE /\ Reached("strings")
           /\ Goes(IF Kind(0) = "String" THEN <<Token, Head(script)>> ELSE <<>>)
  <2>1. Head(script) = <<"strings">>
    BY <1>2, DecisionNamed, ReachedIs
  <2>2. CASE Kind(0) = "String"
    <3>1. Goes(<<Token, <<"strings">>>>)
      BY <1>2, <2>1, <2>2
    <3>2. Decided(<<Token, <<"strings">>>>, 1, 0)
      BY Names, DecidedMore
    <3>3. Kind(0) # "EndOfFile"
      BY <2>2
    <3> QED
      BY <1>2, <3>1, <3>2, <3>3, DecisionNamed, ItReplaces, TakesOne
  <2>3. CASE Kind(0) # "String"
    <3>1. Goes(<<>>)
      BY <1>2, <2>3
    <3> QED
      BY <1>2, <3>1, DecidedNothing, DecisionNamed, ItReplaces, LooksOn
  <2> QED
    BY <2>2, <2>3
<1> QED
  BY <1>1, <1>2 DEF ParseScalar

LEMMA ParseTypeArgumentStep ==
  ASSUME Whole, Running \/ Ending, ParseTypeArgument, UNCHANGED lexing
  PROVE  Whole' /\ Running'
<1>1. CASE /\ Reached("type argument")
           /\ IF Kind(0) = "Identifier" THEN Goes(<<Flush, Token, <<"named type">>, <<"after type">>>>) ELSE Close(">")
  <2>1. CASE Kind(0) = "Identifier"
    <3>1. Goes(<<Flush, Token, <<"named type">>, <<"after type">>>>)
      BY <1>1, <2>1
    <3>2. Decided(<<Flush, Token, <<"named type">>, <<"after type">>>>, 1, 0)
      BY Names, DecisionNamed, DecidedNameThen
    <3>3. Kind(0) # "EndOfFile"
      BY <2>1
    <3> QED
      BY <1>1, <3>1, <3>2, <3>3, DecisionNamed, ItReplaces, TakesOne
  <2>2. CASE Kind(0) # "Identifier"
    BY <1>1, <2>2, DecisionNamed, CloseStep
  <2> QED
    BY <2>1, <2>2
<1>2. CASE /\ Reached("named type")
           /\ Goes(IF At("<") THEN <<Wrap("TypeExpr"), Token, <<"type argument">>, Finish>> ELSE <<>>)
  <2>1. CASE At("<")
    <3>1. Goes(<<Wrap("TypeExpr"), Token, <<"type argument">>, Finish>>)
      BY <1>2, <2>1
    <3>2. Decided(<<Wrap("TypeExpr"), Token, <<"type argument">>, Finish>>, 1, 1)
      BY Names, DecidedBrackets
    <3>3. Kind(0) # "EndOfFile"
      BY <2>1, KindsDiffer
    <3> QED
      BY <1>2, <3>1, <3>2, <3>3, DecisionNamed, ItReplaces, AfterName
  <2>2. CASE ~At("<")
    <3>1. Goes(<<>>)
      BY <1>2, <2>2
    <3> QED
      BY <1>2, <3>1, DecidedNothing, DecisionNamed, ItReplaces, LooksOn
  <2> QED
    BY <2>1, <2>2
<1>3. CASE /\ Reached("after type")
           /\ IF At(",") THEN Goes(<<Token, <<"type argument">>>>) ELSE Close(">")
  <2>1. CASE At(",")
    <3>1. Goes(<<Token, <<"type argument">>>>)
      BY <1>3, <2>1
    <3>2. Decided(<<Token, <<"type argument">>>>, 1, 0)
      BY Names, DecidedMore
    <3>3. Kind(0) # "EndOfFile"
      BY <2>1, KindsDiffer
    <3> QED
      BY <1>3, <3>1, <3>2, <3>3, DecisionNamed, ItReplaces, TakesOne
  <2>2. CASE ~At(",")
    BY <1>3, <2>2, DecisionNamed, CloseStep
  <2> QED
    BY <2>1, <2>2
<1> QED
  BY <1>1, <1>2, <1>3 DEF ParseTypeArgument

LEMMA ParseCallArgumentStep ==
  ASSUME Whole, Running \/ Ending, ParseCallArgument, UNCHANGED lexing
  PROVE  Whole' /\ Running'
<1>1. ASSUME /\ Reached("call argument")
             /\ CASE At(")") \/ AtEnd -> Close(")")
                  [] Kind(0) = "Identifier" -> Goes(<<Flush, Token, <<"named argument">>, <<"after argument">>>>)
                  [] StartsScalar /\ Kind(0) # "Identifier" -> Goes(<<<<"scalar">>, <<"after argument">>>>)
                  [] OTHER -> Stray(ErrorToken \o <<Head(script)>>)
      PROVE  Whole' /\ Running'
  <2>1. /\ ~((At(")") \/ AtEnd) /\ Kind(0) = "Identifier") /\ ~((At(")") \/ AtEnd) /\ StartsScalar)
        /\ Kind(0) = "Identifier" => StartsScalar
    BY KindsOf
  <2>2. CASE At(")") \/ AtEnd
    <3>1. Close(")")
      BY <1>1, <2>1, <2>2
    <3> QED
      BY <1>1, <3>1, DecisionNamed, CloseStep
  <2>3. CASE Kind(0) = "Identifier"
    <3>1. Goes(<<Flush, Token, <<"named argument">>, <<"after argument">>>>)
      BY <1>1, <2>1, <2>3
    <3>2. Decided(<<Flush, Token, <<"named argument">>, <<"after argument">>>>, 1, 0)
      BY Names, DecisionNamed, DecidedNameThen
    <3>3. Kind(0) # "EndOfFile"
      BY <2>3
    <3> QED
      BY <1>1, <3>1, <3>2, <3>3, DecisionNamed, ItReplaces, TakesOne
  <2>4. CASE StartsScalar /\ Kind(0) # "Identifier"
    <3>1. Goes(<<<<"scalar">>, <<"after argument">>>>)
      BY <1>1, <2>1, <2>4
    <3>2. Decided(<<<<"scalar">>, <<"after argument">>>>, 1, 0)
      BY Names, DecidedTwice
    <3>3. Kind(0) # "EndOfFile"
      BY <2>4, KindsDiffer
    <3> QED
      BY <1>1, <3>1, <3>2, <3>3, DecisionNamed, ItReplaces, TakesOne
  <2>5. CASE ~(At(")") \/ AtEnd) /\ Kind(0) # "Identifier" /\ ~StartsScalar
    <3>1. Stray(ErrorToken \o <<Head(script)>>)
      BY <1>1, <2>5
    <3>2. Head(script) = <<"call argument">>
      BY <1>1, DecisionNamed, ReachedIs
    <3>3. Decided(ErrorToken \o <<Head(script)>>, 1, 0)
      BY <3>2, Names, DecidedStray
    <3>4. Kind(0) # "EndOfFile"
      BY <2>5, KindsDiffer
    <3> QED
      BY <1>1, <3>1, <3>3, <3>4, DecisionNamed, ItReplaces, TakesOne
  <2> QED
    BY <2>2, <2>3, <2>4, <2>5
<1>2. CASE /\ Reached("named argument")
           /\ Goes(IF At("(") THEN <<Wrap("Call"), Token, <<"call argument">>, Finish>> ELSE <<Wrap("Scalar"), Finish>>)
  <2>1. CASE At("(")
    <3>1. Goes(<<Wrap("Call"), Token, <<"call argument">>, Finish>>)
      BY <1>2, <2>1
    <3>2. Decided(<<Wrap("Call"), Token, <<"call argument">>, Finish>>, 1, 1)
      BY Names, DecidedBrackets
    <3>3. Kind(0) # "EndOfFile"
      BY <2>1, KindsDiffer
    <3> QED
      BY <1>2, <3>1, <3>2, <3>3, DecisionNamed, ItReplaces, AfterName
  <2>2. CASE ~At("(")
    <3>1. Goes(<<Wrap("Scalar"), Finish>>)
      BY <1>2, <2>2
    <3> QED
      BY <1>2, <3>1, DecidedScalar, DecisionNamed, ItReplaces, AfterName
  <2> QED
    BY <2>1, <2>2
<1>3. CASE /\ Reached("after argument")
           /\ IF At(",") THEN Goes(<<Token, <<"call argument">>>>) ELSE Close(")")
  <2>1. CASE At(",")
    <3>1. Goes(<<Token, <<"call argument">>>>)
      BY <1>3, <2>1
    <3>2. Decided(<<Token, <<"call argument">>>>, 1, 0)
      BY Names, DecidedMore
    <3>3. Kind(0) # "EndOfFile"
      BY <2>1, KindsDiffer
    <3> QED
      BY <1>3, <3>1, <3>2, <3>3, DecisionNamed, ItReplaces, TakesOne
  <2>2. CASE ~At(",")
    BY <1>3, <2>2, DecisionNamed, CloseStep
  <2> QED
    BY <2>1, <2>2
<1> QED
  BY <1>1, <1>2, <1>3 DEF ParseCallArgument

LEMMA AtItems ==
  ASSUME Running \/ Ending, Reached("items")
  PROVE  /\ Running
         /\ \E opened \in Nat, shape \in Shapes, d \in Nat :
              /\ Head(script) = Items(opened, shape)
              /\ Argument.opened = opened /\ Argument.shape = shape
              /\ Len(open) = d + 1
              /\ Leads(Tail(script), Place(d, 0, 0, IF opened = 0 THEN 1 ELSE 0), Finished)
<1>1. script # <<>> /\ Head(script)[1] = "items"
  BY DEF Reached, Parsed
<1>2. "items" \notin {"flush", "finish"}
  OBVIOUS
<1>3. Running
  BY <1>1, <1>2, ParsesRunning
<1> QED
  BY <1>1, <1>3, ItemsAt

LEMMA ItemsGo ==
  ASSUME Whole, UNCHANGED lexing, NEW opened \in Nat, NEW d \in Nat, Len(open) = d + 1,
         Leads(Tail(script), Place(d, 0, 0, IF opened = 0 THEN 1 ELSE 0), Finished),
         NEW calls, NEW n \in Nat, Held(calls, n, opened), next + n <= Len(tokens), Replaces(calls)
  PROVE  Whole' /\ Running'
<1>1. /\ script' = calls \o Tail(script)
      /\ next' = next /\ cursor' = cursor /\ leaves' = leaves /\ open' = open /\ nodes' = nodes
  BY DEF Replaces
<1>2. Whole' /\ Unmoved
  BY <1>1, GoesOn
<1> QED
  BY <1>1, <1>2, HeldStep

LEMMA ParseStatementStep ==
  ASSUME Whole, Running \/ Ending, ParseStatement, UNCHANGED lexing
  PROVE  Whole' /\ Running'
<1>1. /\ Reached("items") /\ LooksLikeStatement
      /\ Goes(<<Detach, Start("Statement"), Flush, Start("Key"), Token, Finish, Token, <<"value">>,
                Trail, Finish, More("statement")>>)
  BY DEF ParseStatement
<1>2. PICK opened \in Nat, shape \in Shapes, d \in Nat :
        /\ Head(script) = Items(opened, shape)
        /\ Argument.opened = opened /\ Argument.shape = shape
        /\ Len(open) = d + 1
        /\ Leads(Tail(script), Place(d, 0, 0, IF opened = 0 THEN 1 ELSE 0), Finished)
  BY <1>1, AtItems
<1> DEFINE after == shape \cup {"statement"}
<1>3. More("statement") = Items(opened, after)
  BY <1>2 DEF More
<1>4. after \in Shapes
  BY DEF Shapes
<1> HIDE DEF after
<1>5. Replaces(<<Detach, Start("Statement"), Flush, Start("Key"), Token, Finish, Token, <<"value">>,
                 Trail, Finish, Items(opened, after)>>)
  BY <1>1, <1>3, ItReplaces
<1>6. next + 2 <= Len(tokens)
  <2>1. Kind(1) # "EndOfFile"
    BY <1>1 DEF LooksLikeStatement
  <2> QED
    BY <2>1, WholeIs, AtToken
<1>7. Held(<<Detach, Start("Statement"), Flush, Start("Key"), Token, Finish, Token, <<"value">>,
             Trail, Finish, Items(opened, after)>>, 2, opened)
  BY <1>4, HeldStatement
<1>8. 2 \in Nat
  OBVIOUS
<1> QED
  BY <1>2, <1>5, <1>6, <1>7, <1>8, ItemsGo

LEMMA ParseItemScalarStep ==
  ASSUME Whole, Running \/ Ending, ParseItemScalar, UNCHANGED lexing
  PROVE  Whole' /\ Running'
<1>1. Reached("items") /\ StartsScalar /\ Goes(<<Detach, <<"scalar">>, More("scalar")>>)
  BY DEF ParseItemScalar
<1>2. PICK opened \in Nat, shape \in Shapes, d \in Nat :
        /\ Head(script) = Items(opened, shape)
        /\ Argument.opened = opened /\ Argument.shape = shape
        /\ Len(open) = d + 1
        /\ Leads(Tail(script), Place(d, 0, 0, IF opened = 0 THEN 1 ELSE 0), Finished)
  BY <1>1, AtItems
<1> DEFINE after == shape \cup {"scalar"}
<1>3. More("scalar") = Items(opened, after)
  BY <1>2 DEF More
<1>4. after \in Shapes
  BY DEF Shapes
<1> HIDE DEF after
<1>5. Replaces(<<Detach, <<"scalar">>, Items(opened, after)>>)
  BY <1>1, <1>3, ItReplaces
<1>6. next + 1 <= Len(tokens)
  BY <1>1, KindsDiffer, WholeIs, AtToken
<1>7. Held(<<Detach, <<"scalar">>, Items(opened, after)>>, 1, opened)
  BY <1>4, HeldScalar
<1> QED
  BY <1>2, <1>5, <1>6, <1>7, Counting, ItemsGo

LEMMA StrayItemStep ==
  ASSUME Whole, Running \/ Ending, StrayItem, UNCHANGED lexing
  PROVE  Whole' /\ Running'
<1>1. Reached("items") /\ ~AtEnd /\ Replaces(<<Detach>> \o ErrorToken \o <<Head(script)>>)
  BY ItReplaces DEF StrayItem, EndOfItems
<1>2. PICK opened \in Nat, shape \in Shapes, d \in Nat :
        /\ Head(script) = Items(opened, shape)
        /\ Len(open) = d + 1
        /\ Leads(Tail(script), Place(d, 0, 0, IF opened = 0 THEN 1 ELSE 0), Finished)
  BY <1>1, AtItems
<1>3. next + 1 <= Len(tokens)
  BY <1>1, KindsDiffer, WholeIs, AtToken
<1>4. Held(<<Detach>> \o ErrorToken \o <<Head(script)>>, 1, opened)
  BY <1>2, HeldStray
<1> QED
  BY <1>1, <1>2, <1>3, <1>4, Counting, ItemsGo

LEMMA CloseBlockStep ==
  ASSUME Whole, Running \/ Ending, CloseBlock, UNCHANGED lexing
  PROVE  Whole' /\ Running'
<1>1. /\ Reached("items") /\ Argument.opened # 0
      /\ Replaces(IF At("}") THEN <<Flush, Token, Finish>> ELSE <<Flush, Finish>>)
  BY DEF CloseBlock, Calls, Replaces, InBlock
<1>2. PICK opened \in Nat, shape \in Shapes, d \in Nat :
        /\ Head(script) = Items(opened, shape)
        /\ Argument.opened = opened
        /\ Len(open) = d + 1
        /\ Leads(Tail(script), Place(d, 0, 0, IF opened = 0 THEN 1 ELSE 0), Finished)
  BY <1>1, AtItems
<1>3. opened \in Nat \ {0}
  BY <1>1, <1>2
<1>4. CASE At("}")
  <2>1. Replaces(<<Flush, Token, Finish>>)
    BY <1>1, <1>4
  <2>2. next + 1 <= Len(tokens)
    <3>1. Kind(0) # "EndOfFile"
      BY <1>4, KindsDiffer
    <3> QED
      BY <3>1, WholeIs, AtToken
  <2>3. Held(<<Flush, Token, Finish>>, 1, opened)
    BY <1>3, HeldClosed
  <2> QED
    BY <1>2, <2>1, <2>2, <2>3, Counting, ItemsGo
<1>5. CASE ~At("}")
  <2>1. Replaces(<<Flush, Finish>>)
    BY <1>1, <1>5
  <2>2. next + 0 <= Len(tokens)
    BY WholeIs
  <2>3. Held(<<Flush, Finish>>, 0, opened)
    BY <1>3, HeldUnclosed
  <2> QED
    BY <1>2, <2>1, <2>2, <2>3, Counting, ItemsGo
<1> QED
  BY <1>4, <1>5

\* The end of the file's items: the trivia is left, and the file's own node.
LEMMA EndFileStep ==
  ASSUME Whole, Running \/ Ending, EndFile, UNCHANGED lexing
  PROVE  Whole' /\ Ending'
<1>1. Reached("items") /\ Argument.opened = 0 /\ AtEnd /\ Replaces(<<Flush, Finish>>)
  BY ItReplaces DEF EndFile, InBlock
<1>2. PICK opened \in Nat, d \in Nat :
        /\ Argument.opened = opened
        /\ Len(open) = d + 1
        /\ Leads(Tail(script), Place(d, 0, 0, IF opened = 0 THEN 1 ELSE 0), Finished)
  BY <1>1, AtItems
<1>3. Leads(Tail(script), Place(d, 0, 0, 1), Finished)
  BY <1>1, <1>2
<1>4. Place(d, 0, 0, 1).last = 1 /\ Place(d, 0, 0, 1).depth = d /\ Finished.depth = 0
  BY Counting, PlaceIsPlace DEF Finished
<1>5. Tail(script) = <<>> /\ Place(d, 0, 0, 1) = Finished
  BY <1>3, <1>4, LeadsNoFurther
<1>6. Len(open) = 1
  BY <1>2, <1>4, <1>5
<1>7. /\ script' = <<Flush, Finish>> \o Tail(script)
      /\ next' = next /\ cursor' = cursor /\ leaves' = leaves /\ open' = open /\ nodes' = nodes
  BY <1>1 DEF Replaces
<1>8. script' = <<Flush, Finish>>
  <2>1. <<Flush, Finish>> \in Seq({Flush, Finish})
    OBVIOUS
  <2> QED
    BY <1>5, <1>7, <2>1, ConcatEmptySeq
<1>9. Whole' /\ tokens' = tokens
  BY <1>7, GoesOn DEF lexing
<1>10. next = Len(tokens)
  BY <1>1, KindsDiffer, WholeIs, AtToken
<1> QED
  BY <1>6, <1>7, <1>8, <1>9, <1>10 DEF Ending

LEMMA ParserStep ==
  ASSUME Whole, Running \/ Ending, ParserNext, UNCHANGED lexing
  PROVE  Whole' /\ (Running' \/ Ending')
BY EmitTriviaStep, EmitTokenStep, StartNodeStep, FinishNodeStep, ParseStatementStep, ParseItemScalarStep,
   StrayItemStep, CloseBlockStep, EndFileStep, ParseValueStep, ParseAnnotationStep,
   ParseAnnotationArgumentsStep, ParseAnnotationArgumentStep, ParseBlockStep, ParseScalarValueStep,
   ValueMissingStep, ParseIdentifierValueStep, ParseScalarStep, ParseTypeArgumentStep,
   ParseCallArgumentStep, Zenon DEF ParserNext

-----------------------------------------------------------------------------
(* The tree is total *)

\* While the lexer runs the parser has not started.
ParserInvariant ==
  /\ LexerInvariant
  /\ Lexed => Whole /\ (Running \/ Ending)
  /\ ~Lexed => ParserInit

\* And it starts with the file's node to open, and the file's items to hold.
LEMMA Starts == LexerInvariant /\ Lexed /\ ParserInit => Whole /\ (Running \/ Ending)
<1> SUFFICES ASSUME LexerInvariant, Lexed, ParserInit  PROVE Whole /\ Running
  OBVIOUS
<1>1. next = 1 /\ cursor = 0 /\ leaves = <<>> /\ open = <<>> /\ nodes = {}
      /\ script = <<Start("File"), Items(0, {})>>
  BY DEF ParserInit
<1>2. tokens \in Seq(Tokens) /\ Len(tokens) \in Nat \ {0}
  BY EmptySeq DEF LexerInvariant, LexerTypes, Lexed
<1>3. Reading
  BY <1>1, <1>2 DEF Reading
<1>4. Here = 1 /\ Gap(next) = 1
  BY <1>1 DEF Here, Gap
<1>5. LeavesReach
  <2>1. TriviaEnd \in Nat /\ Gap(next) <= TriviaEnd
    BY <1>3, RunFills
  <2>2. Covers(<<>>, 1, 1)
    <3>1. {j \in 1..0 : ~IsTrivia(leaves[j])} = {}
      OBVIOUS
    <3>2. TokensIn(<<>>, 0) = 0
      BY FS_EmptySet DEF TokensIn
    <3>3. <<>> \in Seq(Leaves) /\ Len(<<>>) = 0
      BY EmptySeq
    <3> QED
      BY <3>2, <3>3 DEF Covers
  <2> QED
    BY <1>1, <1>4, <2>1, <2>2 DEF LeavesReach
<1>6. Nested
  <2>1. <<>> \in Seq(Opened) /\ Len(<<>>) = 0
    BY EmptySeq
  <2> QED
    BY <1>1, <2>1 DEF Nested
<1>7. Running
  <2> DEFINE p == Place(0, 0, 0, 0)
             q == Place(1, 0, 0, 0)
  <2>1. Moves(Start("File"), p, q)
    BY Counting, Names, Opens
  <2>2. {} \in Shapes
    BY DEF Shapes
  <2>3. Moves(Items(0, {}), q, Finished)
    BY <2>2, Counting, HoldsItems DEF Finished
  <2>4. p \in Places /\ p.depth = 0 /\ p.tokens = 0 /\ p.fresh = 0 /\ p.last = 0
    BY Counting, PlaceIsPlace
  <2> HIDE DEF p, q
  <2>5. Leads(script, p, Finished)
    BY <1>1, <2>1, <2>3, LeadsTwo
  <2>6. Len(open) = 0 /\ next + 0 <= Len(tokens)
    BY <1>1, <1>2
  <2> QED
    BY <2>4, <2>5, <2>6 DEF Running
<1> QED
  BY <1>3, <1>5, <1>6, <1>7 DEF Whole

LEMMA ParserInvariantInit == ParsingInit => ParserInvariant
<1>1. LexerInit => ~Lexed
  BY DEF LexerInit, Lexed
<1> QED
  BY <1>1, InvariantInit DEF ParsingInit, ParserInvariant

LEMMA ParsesLexed == ParserNext => Lexed
BY DEF ParserNext, Reached, EmitTrivia, EmitToken, StartNode, FinishNode, ParseStatement, ParseItemScalar,
   StrayItem, CloseBlock, EndFile, ParseValue, ParseAnnotation, ParseAnnotationArguments,
   ParseAnnotationArgument, ParseBlock, ParseScalarValue, ValueMissing, ParseIdentifierValue, ParseScalar,
   ParseTypeArgument, ParseCallArgument

LEMMA StutterStep ==
  ASSUME Whole, Running \/ Ending, UNCHANGED parsing
  PROVE  Whole' /\ (Running' \/ Ending')
<1>1. /\ UNCHANGED lexing /\ next' = next /\ cursor' = cursor /\ leaves' = leaves /\ open' = open
      /\ nodes' = nodes /\ script' = script
  BY DEF parsing, tree
<1>2. Whole' /\ Unmoved
  BY <1>1, GoesOn
<1>3. Here' = Here /\ End' = End
  BY <1>1, WholeKept
<1>4. Ending => Ending'
  BY <1>1, <1>2, <1>3 DEF Ending, Unmoved
<1>5. ASSUME Running  PROVE Running'
  <2>1. PICK p \in Places : /\ Leads(script, p, Finished)
                            /\ p.last = 0 /\ p.depth = Len(open)
                            /\ next + p.tokens <= Len(tokens)
                            /\ p.fresh = 1 => Fresh
    BY <1>5 DEF Running
  <2>2. Fresh => Fresh'
    BY <1>2 DEF Fresh, Unmoved
  <2>3. Leads(script', p, Finished')
    BY <1>1, <2>1, FinishedPrimed
  <2> QED
    BY <1>2, <2>1, <2>2, <2>3, RunningAt DEF Unmoved
<1> QED
  BY <1>2, <1>4, <1>5

LEMMA ParserInvariantStep == ParserInvariant /\ [ParsingNext]_parsing => ParserInvariant'
<1>1. ASSUME ParserInvariant, LexerNext, UNCHANGED <<tree, script>>
      PROVE  ParserInvariant'
  <2>1. LexerInvariant'
    BY <1>1, InvariantStep DEF ParserInvariant
  <2>2. ~Lexed
    BY <1>1 DEF LexerNext
  <2>3. ParserInit'
    BY <1>1, <2>2 DEF ParserInvariant, ParserInit, tree
  <2>4. (LexerInvariant /\ Lexed /\ ParserInit => Whole /\ (Running \/ Ending))'
    BY Starts, PTL
  <2> QED
    BY <2>1, <2>3, <2>4 DEF ParserInvariant
<1>2. ASSUME ParserInvariant, ParserNext, UNCHANGED lexing
      PROVE  ParserInvariant'
  <2>1. Lexed /\ Whole /\ (Running \/ Ending)
    BY <1>2, ParsesLexed DEF ParserInvariant
  <2>2. Whole' /\ (Running' \/ Ending')
    BY <1>2, <2>1, ParserStep
  <2> QED
    BY <2>2 DEF ParserInvariant, Whole, Reading
<1>3. ASSUME ParserInvariant, UNCHANGED parsing
      PROVE  ParserInvariant'
  <2>1. UNCHANGED lexing /\ UNCHANGED <<tree, script>>
    BY <1>3 DEF parsing
  <2>2. LexerInvariant'
    BY <1>3, <2>1, InvariantStep DEF ParserInvariant
  <2>3. Lexed' <=> Lexed
    BY <2>1 DEF lexing, Lexed
  <2>4. ParserInit => ParserInit'
    BY <2>1 DEF ParserInit, tree
  <2>5. Lexed => Whole' /\ (Running' \/ Ending')
    BY <1>3, StutterStep DEF ParserInvariant
  <2> QED
    BY <1>3, <2>2, <2>3, <2>4, <2>5 DEF ParserInvariant
<1> QED
  BY <1>1, <1>2, <1>3 DEF ParsingNext

LEMMA InvariantIsTotal == ParserInvariant => TreeTotal
<1> SUFFICES ASSUME ParserInvariant  PROVE LeavesTile
  BY InvariantTiles DEF ParserInvariant, TreeTotal
<1>1. CASE ~Lexed
  <2>1. /\ next = 1 /\ leaves = <<>> /\ nodes = {}
        /\ script = <<Start("File"), Items(0, {})>>
    BY <1>1 DEF ParserInvariant, ParserInit
  <2>2. Len(leaves) = 0 /\ ~Parsed
    BY <2>1 DEF Parsed
  <2>3. TokensAmong(Len(leaves)) = 0
    <3>1. {j \in 1..0 : ~IsTrivia(leaves[j])} = {}
      OBVIOUS
    <3> QED
      BY <2>2, <3>1, FS_EmptySet DEF TokensAmong
  <2> QED
    BY <2>1, <2>2, <2>3 DEF LeavesTile
<1>2. CASE Lexed
  <2>1. Whole /\ (Running \/ Ending)
    BY <1>2 DEF ParserInvariant
  <2>2. /\ leaves \in Seq(Leaves)
        /\ \A i \in 1..Len(leaves) : leaves[i].from = IF i = 1 THEN 1 ELSE leaves[i - 1].to
        /\ Here = IF Len(leaves) = 0 THEN 1 ELSE leaves[Len(leaves)].to
        /\ TokensIn(leaves, Len(leaves)) = next - 1
        /\ \A i \in 1..Len(leaves) : ~IsTrivia(leaves[i]) => leaves[i] = LeafOf(TokensIn(leaves, i))
    BY <2>1 DEF Whole, LeavesReach, Covers
  <2>3. \A i : TokensAmong(i) = TokensIn(leaves, i)
    BY DEF TokensAmong, TokensIn
  <2>4. \A m, n \in nodes :
          m.last < n.first \/ n.last < m.first \/ (m.first <= n.first /\ n.last <= m.last)
                           \/ (n.first <= m.first /\ m.last <= n.last)
    BY <2>1 DEF Whole, Nested
  <2>5. ASSUME Parsed
        PROVE  /\ next = Len(tokens)
               /\ source # <<>> => leaves[Len(leaves)].to = Len(source) + 1
               /\ open = <<>>
    <3>1. script = <<>>
      BY <2>5 DEF Parsed
    <3>2. Ending
      BY <2>1, <3>1, NextCall
    <3>3. next = Len(tokens) /\ Len(open) = 0 /\ Here = End
      BY <3>1, <3>2 DEF Ending
    <3>4. open = <<>>
      BY <2>1, <3>3, WholeIs, EmptySeq
    <3>5. source # <<>> => Len(leaves) # 0
      <4>1. IsFile /\ Len(source) \in Nat
        BY FileShape DEF ParserInvariant, LexerInvariant, LexerTypes
      <4>2. source # <<>> => Len(source) # 0
        BY <4>1, EmptySeq DEF IsFile
      <4> QED
        BY <2>2, <3>3, <4>1, <4>2 DEF End
    <3> QED
      BY <2>2, <3>3, <3>4, <3>5 DEF End
  <2>6. \A i \in 1..Len(leaves) :
          ~IsTrivia(leaves[i]) => LET token == tokens[TokensAmong(i)]
                                  IN leaves[i] = [kind |-> token.kind, from |-> token.from, to |-> token.to]
    BY <2>2, <2>3 DEF LeafOf
  <2> QED
    BY <2>2, <2>3, <2>4, <2>5, <2>6, Zenon DEF LeavesTile
<1> QED
  BY <1>1, <1>2

\* A file of any bytes, whatever the parser has to recover from: at every moment of
\* the parse the leaves given to the builder tile the file from its first byte, the
\* tokens among them are the lexer's in its order and the nodes nest, and the parse
\* ends only with the file's last byte emitted and every node closed.
THEOREM ParserIsTotal == ParsingSpec => []TreeTotal
<1> QED
  BY ParserInvariantInit, ParserInvariantStep, InvariantIsTotal, PTL DEF ParsingSpec

\* What the lexer reads twice it reads alike, whatever is parsed after it.
THEOREM ParsedReadTwiceAlike == ParsingSpec => []ReadTwiceAlike
<1>1. ParserInvariant => ReadTwiceAlike
  BY DEF ParserInvariant, LexerInvariant, ReadTwiceAlike
<1> QED
  BY <1>1, ParserInvariantInit, ParserInvariantStep, PTL DEF ParsingSpec
=============================================================================
