----------------------------- MODULE LexerProofs -----------------------------
(***************************************************************************)
(* Proofs about Lexer.                                                     *)
(***************************************************************************)
EXTENDS Lexer, SequenceTheorems, WellFoundedInduction, TLAPS

-----------------------------------------------------------------------------
(* Natural numbers *)

\* A set of natural numbers that is not empty has a least member, and one that
\* is bounded has a greatest: what stands for induction in this module.
LEMMA NatLeast ==
  ASSUME NEW T \in SUBSET Nat, T # {}
  PROVE  \E m \in T : \A n \in T : m <= n
<1>0. PICK R : R = OpToRel(<, Nat)
  OBVIOUS
<1>1. IsWellFoundedOn(R, Nat)
  BY <1>0, NatLessThanWellFounded, Zenon
<1>2. \A x, y \in Nat : <<x, y>> \in R <=> x < y
  BY <1>0, Zenon DEF OpToRel
<1>3. PICK m \in T : \A n \in T : ~(<<n, m>> \in R)
  BY <1>1, WFMin
<1>4. \A n \in T : m <= n
  <2> TAKE n \in T
  <2>1. ~(n < m)
    BY <1>2, <1>3
  <2> QED
    BY <2>1
<1> QED
  BY <1>4

LEMMA NatGreatest ==
  ASSUME NEW top \in Nat, NEW T \in SUBSET (0..top), T # {}
  PROVE  \E m \in T : \A n \in T : n <= m
<1> DEFINE U == {top - n : n \in T}
<1>0. \A n \in T : n \in Nat /\ top - n \in Nat
  OBVIOUS
<1>1. U \in SUBSET Nat /\ U # {}
  BY <1>0
<1> HIDE DEF U
<1>2. PICK u \in U : \A v \in U : u <= v
  BY <1>1, NatLeast
<1>3. PICK m \in T : u = top - m
  BY DEF U
<1>4. \A n \in T : top - n \in U
  BY DEF U
<1>5. \A n \in T : n <= m
  BY <1>0, <1>2, <1>3, <1>4
<1> QED
  BY <1>5

-----------------------------------------------------------------------------
(* Where lexemes end *)

\* A file is a sequence of bytes.
IsFile == source \in Seq({source[i] : i \in DOMAIN source})
End == Len(source) + 1

LEMMA FileShape ==
  ASSUME IsFile
  PROVE  Len(source) \in Nat /\ DOMAIN source = 1..Len(source) /\ End \in Nat \ {0}
BY DEF IsFile, End

LEMMA PastBounds ==
  ASSUME IsFile, NEW i \in 1..End, NEW Bytes
  PROVE  /\ Past(i, Bytes) \in i..End
         /\ ~Holds(Past(i, Bytes), Bytes)
         /\ \A k \in i..(Past(i, Bytes) - 1) : Holds(k, Bytes)
         /\ Holds(i, Bytes) => i < Past(i, Bytes)
<1> DEFINE T == {j \in i..End : ~Holds(j, Bytes)}
<1>1. End \in T /\ T \in SUBSET Nat
  BY FileShape DEF Holds, End
<1>2. PICK j \in T : \A k \in T : j <= k
  BY <1>1, NatLeast
<1>3. j \in i..(Len(source) + 1) /\ ~Holds(j, Bytes) /\ \A k \in i..(j - 1) : Holds(k, Bytes)
  <2> SUFFICES ASSUME NEW k \in i..(j - 1), ~Holds(k, Bytes)  PROVE FALSE
    BY DEF End
  <2> QED
    BY <1>2, FileShape
<1>4. /\ Past(i, Bytes) \in i..(Len(source) + 1)
      /\ ~Holds(Past(i, Bytes), Bytes)
      /\ \A k \in i..(Past(i, Bytes) - 1) : Holds(k, Bytes)
  BY <1>3, Zenon DEF Past
<1>5. Holds(i, Bytes) => i # Past(i, Bytes)
  BY <1>4, Zenon
<1> QED
  BY <1>4, <1>5, FileShape DEF End

LEMMA PastCommentBounds ==
  ASSUME IsFile, NEW i \in 1..Len(source), source[i] = "#"
  PROVE  /\ PastComment(i) \in (i + 1)..End
         /\ PastComment(i) > Len(source) \/ source[PastComment(i)] \in LineEnds
<1> DEFINE T == {j \in i..End : j > Len(source) \/ source[j] \in LineEnds}
<1>1. End \in T /\ T \in SUBSET Nat
  BY FileShape DEF End
<1>2. PICK j \in T : \A k \in T : j <= k
  BY <1>1, NatLeast
<1>3. /\ j \in i..(Len(source) + 1)
      /\ j > Len(source) \/ source[j] \in LineEnds
      /\ \A k \in i..(j - 1) : source[k] \notin LineEnds
  <2> SUFFICES ASSUME NEW k \in i..(j - 1), source[k] \in LineEnds  PROVE FALSE
    BY DEF End
  <2> QED
    BY <1>2, FileShape
<1>4. /\ PastComment(i) \in i..(Len(source) + 1)
      /\ PastComment(i) > Len(source) \/ source[PastComment(i)] \in LineEnds
  BY <1>3, Zenon DEF PastComment
<1>5. i # PastComment(i)
  BY <1>4, FileShape DEF LineEnds
<1> QED
  BY <1>4, <1>5, FileShape DEF End

LEMMA PastMalformedBounds ==
  ASSUME IsFile, NEW i \in 1..Len(source)
  PROVE  /\ PastMalformed(i) \in (i + 1)..End
         /\ ~Malformed(PastMalformed(i))
         /\ \A k \in (i + 1)..(PastMalformed(i) - 1) : Malformed(k)
<1> DEFINE T == {j \in (i + 1)..End : ~Malformed(j)}
<1>1. End \in T /\ T \in SUBSET Nat
  BY FileShape DEF Malformed, Holds, End
<1>2. PICK j \in T : \A k \in T : j <= k
  BY <1>1, NatLeast
<1>3. j \in (i + 1)..(Len(source) + 1) /\ ~Malformed(j) /\ \A k \in (i + 1)..(j - 1) : Malformed(k)
  <2> SUFFICES ASSUME NEW k \in (i + 1)..(j - 1), ~Malformed(k)  PROVE FALSE
    BY DEF End
  <2> QED
    BY <1>2, FileShape
<1> QED
  BY <1>3, Zenon DEF PastMalformed, End

\* What is decoded at a byte lies inside the file.
LEMMA DecodedBounds ==
  ASSUME IsFile, NEW i \in 1..Len(source)
  PROVE  /\ DecodedLength(i) \in 1..3
         /\ i + DecodedLength(i) \in (i + 1)..End
         /\ \A k \in (i + 1)..(i + DecodedLength(i) - 1) : source[k] = "C"
<1>1. CASE ~Decodes(i)
  BY <1>1, FileShape DEF DecodedLength, End
<1>2. CASE Decodes(i)
  <2>1. Needed(source[i]) \in 1..3
    BY <1>2 DEF Needed, Decodes
  <2>2. \A k \in 1..(Needed(source[i]) - 1) : i + k <= Len(source) /\ source[i + k] = "C"
    BY <1>2 DEF Decodes, Holds
  <2>3. i + (Needed(source[i]) - 1) <= Len(source)
    BY <2>1, <2>2, FileShape
  <2>4. \A k \in (i + 1)..(i + Needed(source[i]) - 1) :
           k - i \in 1..(Needed(source[i]) - 1) /\ i + (k - i) = k
    BY <2>1
  <2>5. \A k \in (i + 1)..(i + Needed(source[i]) - 1) : source[k] = "C"
    <3> TAKE k \in (i + 1)..(i + Needed(source[i]) - 1)
    <3> QED
      BY <2>2, <2>4
  <2> QED
    BY <1>2, <2>1, <2>3, <2>5, FileShape DEF DecodedLength, End
<1> QED
  BY <1>1, <1>2

LEMMA SliceLength ==
  ASSUME IsFile, NEW i \in Nat \ {0}, NEW n \in Nat \ {0}, Len(Slice(i, n)) = n
  PROVE  i + n <= End /\ \A k \in 1..n : Slice(i, n)[k] = source[i + k - 1]
BY FileShape, SubSeqProperties DEF Slice, Min2, End, IsFile

\* An escape lies inside the file, and its report, if it has one, is the escape.
LEMMA EscapeBounds ==
  ASSUME IsFile, NEW i \in 1..Len(source)
  PROVE  /\ EscapeAt(i).length \in Nat \ {0}
         /\ i + EscapeAt(i).length \in (i + 1)..End
         /\ EscapeAt(i).said \subseteq {Said("StringEscape", i, i + EscapeAt(i).length)}
<1>0. QuadLength \in Nat \ {0} /\ Len(source) \in Nat
  BY LexerAssumption, FileShape
<1>1. CASE i = Len(source)
  <2>1. EscapeAt(i) = [length |-> 1, said |-> {Said("StringEscape", i, i + 1)}]
    BY <1>1 DEF EscapeAt, Holds
  <2> QED
    BY <2>1, <1>0 DEF End
<1>2. CASE i # Len(source) /\ Holds(i + 1, LineEnds)
  <2>1. EscapeAt(i) = [length |-> 1, said |-> {Said("StringEscape", i, i + 1)}]
    BY <1>2 DEF EscapeAt, Holds, Escapes, LineEnds
  <2> QED
    BY <2>1, <1>0 DEF End
<1>3. CASE i # Len(source) /\ Holds(i + 1, Escapes)
  <2>1. EscapeAt(i) = [length |-> 2, said |-> {}]
    BY <1>3 DEF EscapeAt, Holds, Escapes, LineEnds
  <2> QED
    BY <2>1, <1>0, <1>3 DEF End, Holds
<1>4. CASE i # Len(source) /\ Holds(i + 1, {"u"})
  <2> DEFINE quad == Slice(i + 2, QuadLength)
  <2>1. EscapeAt(i) = IF ~IsHexQuad(quad)
                      THEN [length |-> 2, said |-> {Said("StringEscape", i, i + 2)}]
                      ELSE IF Surrogate(quad)
                      THEN [length |-> 2 + QuadLength,
                            said |-> {Said("StringEscape", i, i + (2 + QuadLength))}]
                      ELSE [length |-> 2 + QuadLength, said |-> {}]
    BY <1>4 DEF EscapeAt, Holds, Escapes, LineEnds
  <2>2. IsHexQuad(quad) => i + 2 + QuadLength <= End
    BY <1>0, SliceLength DEF IsHexQuad
  <2> QED
    BY <2>1, <2>2, <1>0, <1>4 DEF End, Holds
<1>5. CASE i # Len(source) /\ ~Holds(i + 1, LineEnds) /\ ~Holds(i + 1, Escapes) /\ ~Holds(i + 1, {"u"})
  <2> DEFINE n == 1 + DecodedLength(i + 1)
  <2>1. EscapeAt(i) = [length |-> n, said |-> {Said("StringEscape", i, i + n)}]
    BY <1>5 DEF EscapeAt
  <2>2. n \in Nat \ {0} /\ i + n <= End
    BY <1>0, <1>5, DecodedBounds
  <2> QED
    BY <2>1, <2>2 DEF End
<1> QED
  BY <1>0, <1>1, <1>2, <1>3, <1>4, <1>5

-----------------------------------------------------------------------------
(* Walks: three functions of the lexer walk the file from a byte on, each   *)
(* step determined by the byte they are at, and collect what they find.     *)

\* A walk over lo..hi from `i`: at a byte of `stops` it ends, from another it
\* goes on to a later one.  What it visits is the least set that is closed.
WalkClosed(S, stops, to) == \A k \in S \ stops : to[k] \in S
Visited(lo, hi, stops, to, i) ==
  {j \in lo..hi : \A S \in SUBSET (lo..hi) : i \in S /\ WalkClosed(S, stops, to) => j \in S}

WalkBody(f, lo, hi, stops, to, here) ==
  [i \in lo..hi |-> IF i \in stops THEN here[i] ELSE here[i] \cup f[to[i]]]

IsWalk(lo, hi, stops, to) ==
  /\ lo \in Nat /\ hi \in Nat /\ hi \in stops
  /\ \A i \in (lo..hi) \ stops : to[i] \in (i + 1)..hi

LEMMA WalkRange ==
  ASSUME NEW lo, NEW hi, NEW stops, NEW to, IsWalk(lo, hi, stops, to)
  PROVE  /\ lo \in Nat /\ hi \in Nat /\ hi \in stops
         /\ \A i \in lo..hi : i \notin stops => to[i] \in (i + 1)..hi /\ to[i] \in lo..hi
BY DEF IsWalk

LEMMA VisitedSelf ==
  ASSUME NEW lo, NEW hi, NEW stops, NEW to, NEW i \in lo..hi
  PROVE  i \in Visited(lo, hi, stops, to, i)
BY DEF Visited

LEMMA VisitedNext ==
  ASSUME NEW lo, NEW hi, NEW stops, NEW to, IsWalk(lo, hi, stops, to), NEW i \in lo..hi,
         NEW j \in Visited(lo, hi, stops, to, i), j \notin stops
  PROVE  to[j] \in Visited(lo, hi, stops, to, i)
<1>1. to[j] \in lo..hi
  BY DEF Visited, IsWalk
<1> QED
  BY <1>1 DEF Visited, WalkClosed

LEMMA VisitedLeast ==
  ASSUME NEW lo, NEW hi, NEW stops, NEW to, NEW i \in lo..hi,
         NEW S \in SUBSET (lo..hi), i \in S, WalkClosed(S, stops, to)
  PROVE  Visited(lo, hi, stops, to, i) \subseteq S
BY DEF Visited

\* What a walk visits is where it is and what it visits from its next byte.
LEMMA VisitedStep ==
  ASSUME NEW lo, NEW hi, NEW stops, NEW to, IsWalk(lo, hi, stops, to), NEW i \in lo..hi
  PROVE  Visited(lo, hi, stops, to, i) =
           IF i \in stops THEN {i} ELSE {i} \cup Visited(lo, hi, stops, to, to[i])
<1> DEFINE V(k) == Visited(lo, hi, stops, to, k)
<1>1. CASE i \in stops
  <2>1. {i} \in SUBSET (lo..hi) /\ WalkClosed({i}, stops, to)
    BY <1>1 DEF WalkClosed
  <2>2. V(i) \subseteq {i}
    BY <2>1, VisitedLeast
  <2> QED
    BY <1>1, <2>2, VisitedSelf
<1>2. CASE i \notin stops
  <2>1. to[i] \in lo..hi
    BY <1>2 DEF IsWalk
  <2> DEFINE S == {i} \cup V(to[i])
  <2>2. S \in SUBSET (lo..hi)
    BY DEF Visited
  <2>3. WalkClosed(S, stops, to)
    <3> SUFFICES ASSUME NEW k \in S, k \notin stops  PROVE to[k] \in S
      BY DEF WalkClosed
    <3>1. CASE k = i
      BY <2>1, <3>1, VisitedSelf
    <3>2. CASE k \in V(to[i])
      BY <2>1, <3>2, VisitedNext
    <3> QED
      BY <3>1, <3>2
  <2>4. V(i) \subseteq S
    BY <2>2, <2>3, VisitedLeast
  <2>5. i \in V(i) /\ to[i] \in V(i)
    BY <1>2, VisitedSelf, VisitedNext
  <2>6. WalkClosed(V(i), stops, to) /\ V(i) \in SUBSET (lo..hi)
    BY VisitedNext DEF WalkClosed, Visited
  <2>7. V(to[i]) \subseteq V(i)
    BY <2>1, <2>5, <2>6, VisitedLeast
  <2> QED
    BY <1>2, <2>4, <2>5, <2>7
<1> QED
  BY <1>1, <1>2

\* A walk never goes back.
LEMMA VisitedAfter ==
  ASSUME NEW lo, NEW hi, NEW stops, NEW to, IsWalk(lo, hi, stops, to), NEW i \in lo..hi
  PROVE  Visited(lo, hi, stops, to, i) \subseteq i..hi
<1>1. i..hi \in SUBSET (lo..hi) /\ i \in i..hi
  BY DEF IsWalk
<1>2. WalkClosed(i..hi, stops, to)
  <2> SUFFICES ASSUME NEW k \in i..hi, k \notin stops  PROVE to[k] \in i..hi
    BY DEF WalkClosed
  <2>1. to[k] \in (k + 1)..hi
    BY <1>1 DEF IsWalk
  <2> QED
    BY <2>1 DEF IsWalk
<1> QED
  BY <1>1, <1>2, VisitedLeast

\* Of two bytes a walk visits it visits one from the other.
LEMMA VisitedInOrder ==
  ASSUME NEW lo, NEW hi, NEW stops, NEW to, IsWalk(lo, hi, stops, to), NEW i \in lo..hi,
         NEW j \in Visited(lo, hi, stops, to, i), NEW k \in Visited(lo, hi, stops, to, i)
  PROVE  j \in Visited(lo, hi, stops, to, k) \/ k \in Visited(lo, hi, stops, to, j)
<1> DEFINE V(n) == Visited(lo, hi, stops, to, n)
           S == {n \in V(i) : j \in V(n) \/ n \in V(j)}
<1>1. V(i) \in SUBSET (lo..hi)
  BY DEF Visited
<1>2. S \in SUBSET (lo..hi) /\ i \in S
  BY <1>1, VisitedSelf
<1>3. WalkClosed(S, stops, to)
  <2> SUFFICES ASSUME NEW n \in S, n \notin stops  PROVE to[n] \in S
    BY DEF WalkClosed
  <2>1. to[n] \in V(i)
    BY VisitedNext
  <2>2. CASE n \in V(j)
    <3>1. to[n] \in V(j)
      BY <1>1, <2>2, VisitedNext
    <3> QED
      BY <2>1, <3>1
  <2>3. CASE j \in V(n)
    <3>1. V(n) = {n} \cup V(to[n])
      BY <1>1, VisitedStep
    <3>2. CASE j = n
      <4>1. to[n] \in V(n)
        BY <1>1, VisitedSelf, VisitedNext
      <4> QED
        BY <2>1, <3>2, <4>1
    <3>3. CASE j \in V(to[n])
      BY <2>1, <3>3
    <3> QED
      BY <2>3, <3>1, <3>2, <3>3
  <2> QED
    BY <2>2, <2>3
<1>4. V(i) \subseteq S
  BY <1>2, <1>3, VisitedLeast
<1> QED
  BY <1>4

\* Between a byte and the one it goes on to a walk visits none.
LEMMA VisitedSkips ==
  ASSUME NEW lo, NEW hi, NEW stops, NEW to, IsWalk(lo, hi, stops, to), NEW i \in lo..hi,
         NEW j \in Visited(lo, hi, stops, to, i), j \notin stops,
         NEW k \in Visited(lo, hi, stops, to, i), j < k
  PROVE  k \in Visited(lo, hi, stops, to, to[j]) /\ to[j] <= k
<1>1. j \in lo..hi /\ k \in lo..hi
  BY DEF Visited
<1>2. j \notin Visited(lo, hi, stops, to, k)
  <2>1. k \in Nat /\ j \in Nat
    BY <1>1, WalkRange
  <2>2. Visited(lo, hi, stops, to, k) \subseteq k..hi
    BY <1>1, VisitedAfter
  <2> QED
    BY <2>1, <2>2
<1>3. k \in Visited(lo, hi, stops, to, j)
  BY <1>2, VisitedInOrder
<1>4. k \in Visited(lo, hi, stops, to, to[j]) /\ to[j] \in lo..hi
  <2>1. to[j] \in lo..hi
    BY <1>1, WalkRange
  <2>2. Visited(lo, hi, stops, to, j) = {j} \cup Visited(lo, hi, stops, to, to[j])
    BY <1>1, VisitedStep
  <2>3. k # j
    BY <1>1, WalkRange
  <2> QED
    BY <1>3, <2>1, <2>2, <2>3
<1>5. Visited(lo, hi, stops, to, to[j]) \subseteq to[j]..hi
  BY <1>4, VisitedAfter
<1> QED
  BY <1>4, <1>5, WalkRange

LEMMA VisitedStopsOnce ==
  ASSUME NEW lo, NEW hi, NEW stops, NEW to, IsWalk(lo, hi, stops, to), NEW i \in lo..hi,
         NEW j \in Visited(lo, hi, stops, to, i), j \in stops,
         NEW k \in Visited(lo, hi, stops, to, i)
  PROVE  k <= j /\ (k \in stops => k = j)
<1>1. j \in lo..hi /\ k \in lo..hi /\ lo \in Nat /\ hi \in Nat
  BY DEF Visited, IsWalk
<1>2. Visited(lo, hi, stops, to, j) = {j}
  BY <1>1, VisitedStep
<1>3. k \in stops => Visited(lo, hi, stops, to, k) = {k}
  BY <1>1, VisitedStep
<1>4. j \in Visited(lo, hi, stops, to, k) => k <= j
  BY <1>1, VisitedAfter
<1> QED
  BY <1>1, <1>2, <1>3, <1>4, VisitedInOrder

\* A walk ends.
LEMMA VisitedStops ==
  ASSUME NEW lo, NEW hi, NEW stops, NEW to, IsWalk(lo, hi, stops, to), NEW i \in lo..hi
  PROVE  \E j \in Visited(lo, hi, stops, to, i) : j \in stops
<1> DEFINE V == Visited(lo, hi, stops, to, i)
<1>1. hi \in Nat /\ V \in SUBSET (0..hi) /\ V # {}
  <2>1. lo \in Nat /\ hi \in Nat /\ i \in V
    BY VisitedSelf, WalkRange
  <2>2. V \in SUBSET (lo..hi)
    BY DEF Visited
  <2> HIDE DEF V
  <2> QED
    BY <2>1, <2>2
<1>2. PICK j \in V : \A k \in V : k <= j
  BY <1>1, NatGreatest
<1>3. j \in lo..hi
  BY DEF Visited
<1>4. j \notin stops => to[j] \in V /\ to[j] > j
  <2>1. j \notin stops => to[j] \in V
    BY <1>2, VisitedNext
  <2>2. j \notin stops => to[j] > j
    BY <1>3, WalkRange
  <2> QED
    BY <2>1, <2>2
<1> QED
  BY <1>1, <1>2, <1>4

\* What a walk does not visit it steps over.
LEMMA VisitedOver ==
  ASSUME NEW lo, NEW hi, NEW stops, NEW to, IsWalk(lo, hi, stops, to), NEW i \in lo..hi,
         NEW end \in Visited(lo, hi, stops, to, i), end \in stops,
         NEW k \in i..end
  PROVE  \/ k \in Visited(lo, hi, stops, to, i)
         \/ \E j \in Visited(lo, hi, stops, to, i) : j \notin stops /\ j < k /\ k < to[j]
<1> DEFINE V == Visited(lo, hi, stops, to, i)
           T == {j \in V : j <= k}
<1>1. /\ hi \in Nat /\ i \in Nat /\ end \in Nat /\ k \in Nat /\ i <= k /\ k <= end
      /\ \A n \in V : n \in i..hi
  <2>1. lo \in Nat /\ hi \in Nat /\ \A n \in V : n \in i..hi
    BY VisitedAfter, WalkRange
  <2>2. i \in Nat /\ end \in i..hi
    BY <2>1
  <2> QED
    BY <2>1, <2>2
<1>2. T \in SUBSET (0..hi) /\ i \in T
  <2>1. i \in V
    BY VisitedSelf
  <2>2. \A n \in V : n \in 0..hi
    BY <1>1
  <2> QED
    BY <1>1, <2>1, <2>2
<1>3. PICK j \in T : \A n \in T : n <= j
  BY <1>1, <1>2, NatGreatest
<1>4. j \in V /\ j \in Nat /\ j <= k
  BY <1>1, <1>3
<1>5. CASE j = k
  BY <1>4, <1>5
<1>6. CASE j # k /\ j \in stops
  <2>1. end = j
    BY <1>4, <1>6, VisitedStopsOnce
  <2> QED
    BY <1>1, <1>4, <1>6, <2>1
<1>7. CASE j # k /\ j \notin stops
  <2>1. to[j] \in V
    BY <1>4, <1>7, VisitedNext
  <2>2. to[j] \in (j + 1)..hi
    <3>1. j \in lo..hi
      BY <1>4 DEF Visited
    <3> QED
      BY <1>7, <3>1, WalkRange
  <2>3. k < to[j]
    BY <1>1, <1>3, <1>4, <2>1, <2>2
  <2> QED
    BY <1>1, <1>4, <1>7, <2>3
<1> QED
  BY <1>5, <1>6, <1>7

\* The recursive function that walks exists, and collects what is found where
\* the walk comes by.
LEMMA WalkExists ==
  ASSUME NEW lo, NEW hi, NEW stops, NEW to, NEW here, IsWalk(lo, hi, stops, to)
  PROVE  \E f : f = WalkBody(f, lo, hi, stops, to, here)
<1> DEFINE V(i) == Visited(lo, hi, stops, to, i)
           f == [i \in lo..hi |-> UNION {here[j] : j \in V(i)}]
<1>1. ASSUME NEW i \in lo..hi
      PROVE  f[i] = IF i \in stops THEN here[i] ELSE here[i] \cup f[to[i]]
  <2>1. CASE i \in stops
    <3>1. V(i) = {i}
      BY <2>1, VisitedStep
    <3> QED
      BY <2>1, <3>1
  <2>2. CASE i \notin stops
    <3>1. V(i) = {i} \cup V(to[i]) /\ to[i] \in lo..hi
      BY <2>2, VisitedStep, WalkRange
    <3>2. f[i] = UNION {here[j] : j \in {i} \cup V(to[i])}
      BY <3>1
    <3>3. f[to[i]] = UNION {here[j] : j \in V(to[i])}
      BY <3>1
    <3> HIDE DEF f, V
    <3>4. f[i] = here[i] \cup f[to[i]]
      BY <3>2, <3>3
    <3> QED
      BY <2>2, <3>4
  <2> QED
    BY <2>1, <2>2
<1>2. f = WalkBody(f, lo, hi, stops, to, here)
  BY <1>1 DEF WalkBody
<1> QED
  BY <1>2

LEMMA WalkCollects ==
  ASSUME NEW lo, NEW hi, NEW stops, NEW to, NEW here, IsWalk(lo, hi, stops, to),
         NEW f, f = WalkBody(f, lo, hi, stops, to, here), NEW i \in lo..hi
  PROVE  f[i] = UNION {here[j] : j \in Visited(lo, hi, stops, to, i)}
<1> DEFINE V(k) == Visited(lo, hi, stops, to, k)
           T == {k \in lo..hi : f[k] # UNION {here[j] : j \in V(k)}}
<1> SUFFICES ASSUME T # {}  PROVE FALSE
  OBVIOUS
<1>1. hi \in Nat /\ T \in SUBSET (0..hi)
  BY DEF IsWalk
<1>2. PICK m \in T : \A k \in T : k <= m
  BY <1>1, NatGreatest
<1>3. f[m] = IF m \in stops THEN here[m] ELSE here[m] \cup f[to[m]]
  BY DEF WalkBody
<1>4. CASE m \in stops
  <2>1. V(m) = {m}
    BY <1>4, VisitedStep
  <2> QED
    BY <1>2, <1>3, <1>4, <2>1
<1>5. CASE m \notin stops
  <2>1. V(m) = {m} \cup V(to[m]) /\ to[m] \in (m + 1)..hi /\ to[m] \in lo..hi
    BY <1>5, VisitedStep, WalkRange
  <2>2. to[m] \notin T
    BY <1>1, <1>2, <2>1
  <2>3. f[to[m]] = UNION {here[j] : j \in V(to[m])}
    BY <2>1, <2>2
  <2>4. f[m] = here[m] \cup f[to[m]]
    BY <1>3, <1>5
  <2>5. f[m] # UNION {here[j] : j \in V(m)}
    BY <1>2
  <2> HIDE DEF V
  <2> QED
    BY <2>1, <2>3, <2>4, <2>5
<1> QED
  BY <1>4, <1>5

-----------------------------------------------------------------------------
(* Characters and runs of malformed bytes *)

\* A byte inside a character, and a byte at which a run of malformed bytes
\* starts.
Inside(i) == \E j \in 1..Len(source) : Decodes(j) /\ j < i /\ i < j + Needed(source[j])
StartsRun(i) == /\ Malformed(i) /\ ~Inside(i)
                /\ i = 1 \/ ~Malformed(i - 1) \/ Inside(i - 1)
RunStarts == {i \in 1..Len(source) : StartsRun(i)}

\* A byte at which the pass over the file and the loop that cuts tokens may both
\* stop: not inside a character, and not inside a run.
Boundary(i) == ~Inside(i) /\ (Malformed(i) => StartsRun(i))

Run(i) == Said("Utf8Invalid", i, PastMalformed(i))

LEMMA InsideIsContinuation ==
  ASSUME IsFile, NEW j \in 1..Len(source), Decodes(j), NEW i \in Nat, j < i, i < j + Needed(source[j])
  PROVE  i <= Len(source) /\ source[i] = "C" /\ Malformed(i) /\ ~Decodes(i)
<1>1. Needed(source[j]) \in 1..3
  BY DEF Needed, Decodes
<1>2. i - j \in 1..(Needed(source[j]) - 1) /\ j + (i - j) = i
  BY <1>1, FileShape
<1>3. Holds(j + (i - j), {"C"})
  BY <1>2 DEF Decodes
<1>4. i <= Len(source) /\ source[i] = "C"
  BY <1>2, <1>3 DEF Holds
<1> QED
  BY <1>4 DEF Malformed, Decodes, Holds, HighBytes, Needed

LEMMA WellFormedDecodes ==
  ASSUME IsFile, NEW i \in 1..Len(source), ~Malformed(i)
  PROVE  Decodes(i) /\ DecodedLength(i) = Needed(source[i])
<1>1. CASE source[i] \in HighBytes
  BY <1>1 DEF Malformed, Holds, DecodedLength
<1>2. CASE source[i] \notin HighBytes
  BY <1>2 DEF Decodes, Needed, HighBytes, DecodedLength
<1> QED
  BY <1>1, <1>2

LEMMA AtAscii ==
  ASSUME IsFile, NEW i \in 1..End, i > Len(source) \/ source[i] \notin HighBytes
  PROVE  Boundary(i)
<1>1. ~Malformed(i)
  BY FileShape DEF Malformed, Holds
<1>2. ~Inside(i)
  BY <1>1, InsideIsContinuation, FileShape DEF Inside
<1> QED
  BY <1>1, <1>2 DEF Boundary

LEMMA AfterAscii ==
  ASSUME IsFile, NEW i \in 1..Len(source), source[i] \notin HighBytes
  PROVE  Boundary(i + 1)
<1>0. i + 1 \in Nat /\ (i + 1) - 1 = i /\ i \in Nat
  BY FileShape
<1>1. ~Malformed(i)
  BY DEF Malformed, Holds
<1>2. ~Inside(i + 1)
  <2> SUFFICES ASSUME NEW j \in 1..Len(source), Decodes(j), j < i + 1, i + 1 < j + Needed(source[j])
               PROVE  FALSE
    BY DEF Inside
  <2>1. CASE j = i
    BY <2>1 DEF Needed, HighBytes
  <2>2. CASE j # i
    <3>1. Needed(source[j]) \in 1..3
      BY DEF Needed, Decodes
    <3>2. j < i /\ i < j + Needed(source[j])
      BY <2>2, <3>1, FileShape
    <3> QED
      BY <1>0, <1>1, <3>2, InsideIsContinuation
  <2> QED
    BY <2>1, <2>2
<1> QED
  BY <1>0, <1>1, <1>2 DEF Boundary, StartsRun

\* From a character that decodes the next boundary is its end.
LEMMA AfterCharacter ==
  ASSUME IsFile, NEW i \in 1..Len(source), ~Inside(i), ~Malformed(i)
  PROVE  Boundary(i + DecodedLength(i))
<1>1. Decodes(i) /\ DecodedLength(i) = Needed(source[i])
  BY WellFormedDecodes
<1> DEFINE n == i + DecodedLength(i)
<1>2. n \in (i + 1)..End /\ n \in Nat /\ i \in Nat /\ End \in Nat /\ Len(source) \in Nat
  BY DecodedBounds, FileShape
<1>3. ~Inside(n)
  <2> SUFFICES ASSUME NEW j \in 1..Len(source), Decodes(j), j < n, n < j + Needed(source[j])
               PROVE  FALSE
    BY DEF Inside
  <2>0. Needed(source[j]) \in 1..3
    BY DEF Needed, Decodes
  <2>1. CASE j = i
    BY <1>1, <1>2, <2>1
  <2>2. CASE i < j
    BY <1>1, <1>2, <2>2, InsideIsContinuation
  <2>3. CASE j < i
    <3>1. i < j + Needed(source[j])
      BY <1>2, <2>0, <2>3
    <3> QED
      BY <2>3, <3>1 DEF Inside
  <2> QED
    BY <1>2, <2>1, <2>2, <2>3
<1>4. ~Malformed(n - 1) \/ Inside(n - 1)
  <2>1. CASE n - 1 = i
    BY <2>1
  <2>2. CASE n - 1 # i
    <3>1. i < n - 1 /\ n - 1 < i + Needed(source[i])
      BY <1>1, <1>2, <2>2
    <3> QED
      BY <1>1, <3>1 DEF Inside
  <2> QED
    BY <2>1, <2>2
<1> HIDE DEF n
<1> QED
  BY <1>3, <1>4 DEF Boundary, StartsRun, n

LEMMA AfterRun ==
  ASSUME IsFile, NEW i \in 1..Len(source)
  PROVE  Boundary(PastMalformed(i))
<1>1. PastMalformed(i) \in (i + 1)..End /\ ~Malformed(PastMalformed(i))
  BY PastMalformedBounds
<1>2. PastMalformed(i) \in Nat
  BY <1>1, FileShape
<1>3. ~Inside(PastMalformed(i))
  BY <1>1, <1>2, InsideIsContinuation DEF Inside
<1> QED
  BY <1>1, <1>3 DEF Boundary

\* No run starts inside another, or inside a character.
LEMMA RunHasOneStart ==
  ASSUME IsFile, NEW i \in 1..Len(source), Malformed(i), ~Inside(i),
         NEW k \in 1..Len(source), i < k, k < PastMalformed(i)
  PROVE  ~StartsRun(k)
<1>0. k \in Nat /\ i \in Nat /\ k - 1 \in Nat /\ k # 1 /\ Len(source) \in Nat
  BY FileShape
<1>1. PastMalformed(i) \in (i + 1)..End /\ \A n \in (i + 1)..(PastMalformed(i) - 1) : Malformed(n)
  BY PastMalformedBounds
<1>2. \A n \in i..(PastMalformed(i) - 1) : Malformed(n)
  BY <1>0, <1>1, FileShape
<1>3. Malformed(k - 1)
  BY <1>0, <1>1, <1>2, FileShape
<1>4. ~Inside(k - 1)
  <2> SUFFICES ASSUME NEW j \in 1..Len(source), Decodes(j), j < k - 1, k - 1 < j + Needed(source[j])
               PROVE  FALSE
    BY DEF Inside
  <2>0. Needed(source[j]) \in 1..3
    BY DEF Needed, Decodes
  <2>1. CASE i <= j
    <3>1. Malformed(j)
      BY <1>0, <1>1, <1>2, <2>1, FileShape
    <3> QED
      BY <3>1 DEF Malformed
  <2>2. CASE j < i
    <3>1. i < j + Needed(source[j])
      BY <1>0, <2>0, <2>2
    <3> QED
      BY <2>2, <3>1 DEF Inside
  <2> QED
    BY <1>0, <2>1, <2>2
<1> QED
  BY <1>0, <1>3, <1>4 DEF StartsRun

\* validate_utf8 reports the runs, every one of them and nothing else.
LEMMA InvalidRunsAreRuns ==
  ASSUME IsFile
  PROVE  InvalidRuns = {Run(i) : i \in RunStarts}
<1>0. Len(source) \in Nat /\ End \in Nat \ {0} /\ End = Len(source) + 1
  BY FileShape DEF End
<1> DEFINE to == [i \in 1..End |-> IF Malformed(i) THEN PastMalformed(i) ELSE i + DecodedLength(i)]
           here == [i \in 1..End |-> IF i <= Len(source) /\ Malformed(i) THEN {Run(i)} ELSE {}]
           V == Visited(1, End, {End}, to, 1)
<1>1. \A i \in 1..Len(source) : i \in 1..End /\ to[i] \in (i + 1)..End
  BY <1>0, PastMalformedBounds, DecodedBounds
<1>2. \A i \in 1..End : i # End => i \in 1..Len(source)
  BY <1>0
<1>3. \A i \in 1..Len(source) : to[i] = IF Malformed(i) THEN PastMalformed(i) ELSE i + DecodedLength(i)
  BY <1>0
<1>4. \A i \in 1..End : here[i] = IF i <= Len(source) /\ Malformed(i) THEN {Run(i)} ELSE {}
  OBVIOUS
<1>5. IsWalk(1, End, {End}, to)
  <2> HIDE DEF to
  <2> QED
    BY <1>0, <1>1, <1>2 DEF IsWalk
<1>6. PICK f : f = WalkBody(f, 1, End, {End}, to, here)
  BY <1>5, WalkExists
<1> DEFINE Body(g) == [i \in 1..(Len(source) + 1) |->
                         IF i > Len(source) THEN {}
                         ELSE IF Malformed(i)
                         THEN {Said("Utf8Invalid", i, PastMalformed(i))} \cup g[PastMalformed(i)]
                         ELSE g[i + DecodedLength(i)]]
<1>7. \A g : WalkBody(g, 1, End, {End}, to, here) = Body(g)
  <2> TAKE g
  <2>1. ASSUME NEW i \in 1..End
        PROVE  (IF i \in {End} THEN here[i] ELSE here[i] \cup g[to[i]]) = Body(g)[i]
    <3>1. CASE i = End
      BY <1>0, <3>1
    <3>2. CASE i # End /\ Malformed(i)
      BY <1>0, <3>2 DEF Run
    <3>3. CASE i # End /\ ~Malformed(i)
      <4>1. here[i] = {} /\ to[i] = i + DecodedLength(i)
        BY <3>3
      <4>2. Body(g)[i] = g[i + DecodedLength(i)]
        BY <1>0, <3>3
      <4> HIDE DEF here, to, Body
      <4> QED
        BY <3>3, <4>1, <4>2
    <3> QED
      BY <3>1, <3>2, <3>3
  <2> HIDE DEF here, to
  <2> QED
    BY <1>0, <2>1 DEF WalkBody
<1> DEFINE h == CHOOSE g : g = Body(g)
<1>8. InvalidRuns = h[1]
  BY DEF InvalidRuns
<1>9. h = Body(h)
  <2>1. f = Body(f)
    <3> HIDE DEF Body, to, here
    <3> QED
      BY <1>6, <1>7
  <2> HIDE DEF Body
  <2> QED
    BY <2>1, Zenon
<1> HIDE DEF h, Body
<1>10. h[1] = UNION {here[j] : j \in V}
  <2>1. h = WalkBody(h, 1, End, {End}, to, here)
    BY <1>7, <1>9
  <2> HIDE DEF here, to
  <2> QED
    BY <1>0, <1>5, <2>1, WalkCollects
<1>11. V \subseteq {i \in 1..End : Boundary(i)}
  <2> DEFINE S == {i \in 1..End : Boundary(i)}
  <2>1. 1 \in S
    <3>1. ~Inside(1)
      BY <1>0 DEF Inside
    <3> QED
      BY <1>0, <3>1 DEF Boundary, StartsRun
  <2>2. \A i \in S \ {End} : to[i] \in S
    <3> HIDE DEF to
    <3> SUFFICES ASSUME NEW i \in 1..Len(source), Boundary(i)  PROVE to[i] \in 1..End /\ Boundary(to[i])
      BY <1>2
    <3>0. to[i] \in 1..End
      BY <1>0, <1>1
    <3>1. CASE Malformed(i)
      <4>1. to[i] = PastMalformed(i)
        BY <1>3, <3>1
      <4> QED
        BY <3>0, <4>1, AfterRun
    <3>2. CASE ~Malformed(i)
      <4>1. to[i] = i + DecodedLength(i) /\ ~Inside(i)
        BY <1>3, <3>2 DEF Boundary
      <4>2. Boundary(i + DecodedLength(i))
        BY <3>2, <4>1, AfterCharacter
      <4> QED
        BY <3>0, <4>1, <4>2
    <3> QED
      BY <3>1, <3>2
  <2> HIDE DEF to
  <2>3. WalkClosed(S, {End}, to)
    BY <2>2 DEF WalkClosed
  <2> QED
    BY <1>0, <2>1, <2>3, VisitedLeast
<1>12. RunStarts \subseteq V
  <2> SUFFICES ASSUME NEW k \in 1..Len(source), StartsRun(k), k \notin V  PROVE FALSE
    BY DEF RunStarts
  <2>1. \A j \in V : j \in 1..End
    BY DEF Visited
  <2>2. End \in V
    <3>1. 1 \in 1..End
      BY <1>0
    <3>2. \E j \in V : j \in {End}
      BY <1>5, <3>1, VisitedStops
    <3> QED
      BY <3>2
  <2>3. PICK j \in V : j # End /\ j < k /\ k < to[j]
    <3>1. 1 \in 1..End /\ k \in 1..End
      BY <1>0
    <3> HIDE DEF to
    <3> QED
      BY <1>5, <2>2, <3>1, VisitedOver
  <2> HIDE DEF V, to
  <2>4. j \in 1..Len(source) /\ ~Inside(j) /\ j \in Nat /\ k \in Nat
    <3>1. j \in 1..End /\ Boundary(j)
      BY <1>11, <2>3
    <3>2. j \in 1..Len(source)
      BY <1>2, <2>3, <3>1
    <3> QED
      BY <1>0, <3>1, <3>2 DEF Boundary
  <2>5. CASE Malformed(j)
    <3>1. to[j] = PastMalformed(j)
      BY <1>3, <2>4, <2>5
    <3> QED
      BY <2>3, <2>4, <2>5, <3>1, RunHasOneStart
  <2>6. CASE ~Malformed(j)
    <3>1. Decodes(j) /\ to[j] = j + Needed(source[j])
      BY <1>3, <2>4, <2>6, WellFormedDecodes
    <3>2. Inside(k)
      BY <2>3, <2>4, <3>1 DEF Inside
    <3> QED
      BY <3>2 DEF StartsRun
  <2> QED
    BY <2>5, <2>6
<1>13. UNION {here[j] : j \in V} = {Run(i) : i \in RunStarts}
  <2> HIDE DEF here, V
  <2>1. ASSUME NEW j \in V
        PROVE  here[j] = IF j \in RunStarts THEN {Run(j)} ELSE {}
    <3>1. j \in 1..End /\ Boundary(j)
      BY <1>11
    <3>2. here[j] = IF j <= Len(source) /\ Malformed(j) THEN {Run(j)} ELSE {}
      BY <1>4, <3>1
    <3>3. j \in RunStarts <=> j <= Len(source) /\ Malformed(j)
      BY <1>0, <3>1 DEF RunStarts, Boundary, StartsRun
    <3> QED
      BY <3>2, <3>3
  <2> QED
    BY <1>12, <2>1
<1> QED
  BY <1>8, <1>10, <1>13

-----------------------------------------------------------------------------
(* String literals *)

AtQuote(i) == Holds(i, {"\""})

LEMMA QuoteByte ==
  ASSUME NEW i, AtQuote(i)
  PROVE  /\ i <= Len(source)
         /\ ~Holds(i, {"\\"})
         /\ source[i] \notin HighBytes
BY Zenon DEF AtQuote, Holds, HighBytes

\* The loop that looks for a literal's end, as a walk.
StringStops(i) == i > Len(source) \/ AtQuote(i) \/ Holds(i, LineEnds)
StringStep(i) == IF Holds(i, {"\\"}) THEN EscapeAt(i).length ELSE 1
StopsFrom(start) == {i \in start..End : StringStops(i)}
StepsFrom(start) == [i \in start..End |-> i + StringStep(i)]
Cuts(start) == Visited(start, End, StopsFrom(start), StepsFrom(start), start + 1)

LEMMA StringIsWalk ==
  ASSUME IsFile, NEW start \in 1..Len(source)
  PROVE  /\ IsWalk(start, End, StopsFrom(start), StepsFrom(start))
         /\ start + 1 \in start..End
<1>0. Len(source) \in Nat /\ End = Len(source) + 1
  BY FileShape DEF End
<1>1. ASSUME NEW i \in start..End, i \notin StopsFrom(start)
      PROVE  StepsFrom(start)[i] \in (i + 1)..End
  <2>1. i \in 1..Len(source)
    BY <1>0, <1>1 DEF StopsFrom, StringStops
  <2>2. i + StringStep(i) \in (i + 1)..End
    BY <1>0, <2>1, EscapeBounds DEF StringStep
  <2> QED
    BY <2>2 DEF StepsFrom
<1>2. End \in StopsFrom(start)
  BY <1>0 DEF StopsFrom, StringStops
<1> QED
  BY <1>0, <1>1, <1>2 DEF IsWalk

\* The cuts of a literal, from the byte after its quote to its only stop.
LEMMA CutsShape ==
  ASSUME IsFile, NEW start \in 1..Len(source)
  PROVE  /\ Cuts(start) \subseteq (start + 1)..End
         /\ start + 1 \in Cuts(start)
         /\ \A i \in Cuts(start) : ~StringStops(i) => i + StringStep(i) \in Cuts(start)
<1>1. IsWalk(start, End, StopsFrom(start), StepsFrom(start)) /\ start + 1 \in start..End
  BY StringIsWalk
<1>2. Cuts(start) \subseteq (start + 1)..End /\ start + 1 \in Cuts(start)
  BY <1>1, VisitedAfter, VisitedSelf DEF Cuts
<1>3. ASSUME NEW i \in Cuts(start), ~StringStops(i)
      PROVE  i + StringStep(i) \in Cuts(start)
  <2>1. i \in start..End
    BY DEF Cuts, Visited
  <2>2. i \notin StopsFrom(start) /\ StepsFrom(start)[i] = i + StringStep(i)
    BY <1>3, <2>1 DEF StopsFrom, StepsFrom
  <2>3. StepsFrom(start)[i] \in Cuts(start)
    BY <1>1, <2>2, VisitedNext DEF Cuts
  <2> QED
    BY <2>2, <2>3
<1> QED
  BY <1>2, <1>3

LEMMA CutsOver ==
  ASSUME IsFile, NEW start \in 1..Len(source), NEW end \in Cuts(start), StringStops(end)
  PROVE  /\ \A i \in Cuts(start) : i <= end /\ (StringStops(i) => i = end)
         /\ \A k \in (start + 1)..end :
              \/ k \in Cuts(start)
              \/ \E j \in Cuts(start) : ~StringStops(j) /\ j < k /\ k < j + StringStep(j)
<1>1. IsWalk(start, End, StopsFrom(start), StepsFrom(start)) /\ start + 1 \in start..End
  BY StringIsWalk
<1>2. \A i \in Cuts(start) : i \in start..End
  BY DEF Cuts, Visited
<1>3. \A i \in Cuts(start) : (i \in StopsFrom(start) <=> StringStops(i)) /\ StepsFrom(start)[i] = i + StringStep(i)
  BY <1>2 DEF StopsFrom, StepsFrom
<1>4. end \in StopsFrom(start)
  BY <1>3
<1>5. \A i \in Cuts(start) : i <= end /\ (i \in StopsFrom(start) => i = end)
  BY <1>1, <1>4, VisitedStopsOnce DEF Cuts
<1>6. ASSUME NEW k \in (start + 1)..end
      PROVE  \/ k \in Cuts(start)
             \/ \E j \in Cuts(start) : ~StringStops(j) /\ j < k /\ k < j + StringStep(j)
  <2>1. \/ k \in Cuts(start)
        \/ \E j \in Cuts(start) : j \notin StopsFrom(start) /\ j < k /\ k < StepsFrom(start)[j]
    BY <1>1, <1>4, VisitedOver DEF Cuts
  <2> QED
    BY <1>3, <2>1
<1> QED
  BY <1>3, <1>5, <1>6

\* What the lexer reports inside a literal.
EscapeReports(start) == UNION {EscapeAt(i).said : i \in {i \in Cuts(start) : Holds(i, {"\\"})}}

LEMMA StringAtIs ==
  ASSUME IsFile, NEW start \in 1..Len(source)
  PROVE  \E end \in Cuts(start) :
           /\ StringStops(end)
           /\ StringAt(start) =
                IF AtQuote(end) THEN [to |-> end + 1, said |-> EscapeReports(start)]
                ELSE [to |-> end,
                      said |-> EscapeReports(start) \cup
                               {Said(IF end > Len(source) THEN "StringUnterminated"
                                     ELSE "StringMultiline", start, end)}]
<1>0. Len(source) \in Nat /\ End = Len(source) + 1
  BY FileShape DEF End
<1> DEFINE stops == StopsFrom(start)
           to == StepsFrom(start)
           here == [i \in start..End |-> {i}]
<1>1. IsWalk(start, End, stops, to) /\ start + 1 \in start..End
  BY StringIsWalk
<1>2. PICK f : f = WalkBody(f, start, End, stops, to, here)
  <2> HIDE DEF stops, to, here
  <2> QED
    BY <1>1, WalkExists
<1> DEFINE Length(i) == IF Holds(i, {"\\"}) THEN EscapeAt(i).length ELSE 1
           Stop(i) == i > Len(source) \/ Holds(i, {"\""} \cup LineEnds)
           Body(g) == [i \in start..(Len(source) + 1) |-> IF Stop(i) THEN {i} ELSE {i} \cup g[i + Length(i)]]
           from == CHOOSE g : g = Body(g)
           cuts == from[start + 1]
           end == CHOOSE i \in cuts : Stop(i)
           escapes == UNION {EscapeAt(i).said : i \in {i \in cuts : Holds(i, {"\\"})}}
<1>3. \A g : WalkBody(g, start, End, stops, to, here) = Body(g)
  <2> TAKE g
  <2>1. \A i \in start..End : /\ i \in stops <=> Stop(i)
                              /\ to[i] = i + Length(i)
                              /\ here[i] = {i}
    <3>1. \A i : Stop(i) <=> StringStops(i)
      BY Zenon DEF StringStops, AtQuote, Holds
    <3> HIDE DEF Stop
    <3> QED
      BY <3>1 DEF StopsFrom, StepsFrom, StringStep
  <2> HIDE DEF stops, to, here, Length, Stop
  <2> QED
    BY <1>0, <2>1 DEF WalkBody
<1>4. StringAt(start) = IF Holds(end, {"\""}) THEN [to |-> end + 1, said |-> escapes]
                        ELSE [to |-> end,
                              said |-> escapes \cup {Said(IF end > Len(source) THEN "StringUnterminated"
                                                          ELSE "StringMultiline", start, end)}]
  BY DEF StringAt
<1>5. from = Body(from)
  <2> HIDE DEF Body
  <2> QED
    BY <1>2, <1>3
<1>6. cuts = Cuts(start)
  <2>1. from = WalkBody(from, start, End, stops, to, here)
    BY <1>3, <1>5
  <2> HIDE DEF from, stops, to, here
  <2>2. cuts = UNION {here[j] : j \in Visited(start, End, stops, to, start + 1)}
    BY <1>1, <2>1, WalkCollects
  <2>3. Visited(start, End, stops, to, start + 1) = Cuts(start)
    BY DEF Cuts, stops, to
  <2>4. \A j \in Cuts(start) : here[j] = {j}
    BY DEF Cuts, Visited, here
  <2> QED
    BY <2>2, <2>3, <2>4
<1>7. \E i \in Cuts(start) : Stop(i)
  <2>1. \E i \in Cuts(start) : i \in stops
    BY <1>1, VisitedStops DEF Cuts
  <2>2. \A i : Stop(i) <=> StringStops(i)
    BY Zenon DEF StringStops, AtQuote, Holds
  <2> HIDE DEF Stop
  <2> QED
    BY <2>1, <2>2 DEF StopsFrom
<1> HIDE DEF cuts
<1>8. end \in Cuts(start) /\ Stop(end)
  BY <1>6, <1>7
<1>9. escapes = EscapeReports(start)
  BY <1>6 DEF EscapeReports
<1>10. StringStops(end) /\ (AtQuote(end) <=> Holds(end, {"\""}))
  BY <1>8, Zenon DEF StringStops, AtQuote, Holds
<1> HIDE DEF end, escapes
<1> QED
  BY <1>4, <1>8, <1>9, <1>10, Zenon

LEMMA StringBounds ==
  ASSUME IsFile, NEW start \in 1..Len(source)
  PROVE  /\ StringAt(start).to \in (start + 1)..End
         /\ Boundary(StringAt(start).to)
         /\ \A r \in StringAt(start).said :
              /\ r.from \in start..StringAt(start).to /\ r.to \in start..StringAt(start).to
              /\ r.from <= r.to
<1>0. Len(source) \in Nat /\ End = Len(source) + 1
  BY FileShape DEF End
<1>1. PICK end \in Cuts(start) :
        /\ StringStops(end)
        /\ StringAt(start) =
             IF AtQuote(end) THEN [to |-> end + 1, said |-> EscapeReports(start)]
             ELSE [to |-> end,
                   said |-> EscapeReports(start) \cup
                            {Said(IF end > Len(source) THEN "StringUnterminated"
                                  ELSE "StringMultiline", start, end)}]
  BY StringAtIs
<1>2. end \in (start + 1)..End
  BY CutsShape
<1>3. ASSUME NEW r \in EscapeReports(start)
      PROVE  r.from \in start..end /\ r.to \in start..end /\ r.from <= r.to
  <2>1. PICK i \in Cuts(start) : Holds(i, {"\\"}) /\ r \in EscapeAt(i).said
    BY DEF EscapeReports
  <2>2. i \in (start + 1)..End /\ i \in 1..Len(source)
    BY <1>0, <2>1, CutsShape DEF Holds
  <2>3. ~StringStops(i) /\ StringStep(i) = EscapeAt(i).length
    BY <1>0, <2>1, <2>2, QuoteByte DEF StringStops, StringStep, Holds, LineEnds
  <2>4. i + EscapeAt(i).length \in Cuts(start)
    BY <2>3, CutsShape
  <2>5. i <= end /\ i + EscapeAt(i).length <= end
    BY <1>1, <2>4, CutsOver
  <2>6. r = Said("StringEscape", i, i + EscapeAt(i).length) /\ EscapeAt(i).length \in Nat
    BY <2>1, <2>2, EscapeBounds
  <2> QED
    BY <1>2, <2>2, <2>5, <2>6 DEF Said
<1>4. CASE AtQuote(end)
  <2>1. end \in 1..Len(source) /\ source[end] \notin HighBytes
    BY <1>0, <1>2, <1>4, QuoteByte
  <2>2. Boundary(end + 1)
    BY <2>1, AfterAscii
  <2>3. StringAt(start).to = end + 1 /\ StringAt(start).said = EscapeReports(start)
    BY <1>1, <1>4
  <2> QED
    BY <1>0, <1>2, <1>3, <2>1, <2>2, <2>3
<1>5. CASE ~AtQuote(end)
  <2>1. end \in 1..End /\ (end > Len(source) \/ source[end] \notin HighBytes)
    BY <1>0, <1>1, <1>2, <1>5 DEF StringStops, Holds, HighBytes, LineEnds
  <2>2. Boundary(end)
    BY <2>1, AtAscii
  <2>3. PICK code : StringAt(start) = [to |-> end, said |-> EscapeReports(start) \cup {Said(code, start, end)}]
    BY <1>1, <1>5
  <2>4. Said(code, start, end).from = start /\ Said(code, start, end).to = end
    BY DEF Said
  <2> QED
    BY <1>0, <1>2, <1>3, <2>2, <2>3, <2>4
<1> QED
  BY <1>4, <1>5

-----------------------------------------------------------------------------
(* The escapes of a literal, read twice *)

\* A byte that is neither a quote nor a backslash.
Plain(i) == source[i] \notin {"\"", "\\"}
Backslash(i) == source[i] = "\\"

LEMMA PlainBytes ==
  ASSUME NEW i
  PROVE  /\ source[i] \in HexDigits \cup {"u", "C"} => Plain(i)
         /\ source[i] \notin Escapes => Plain(i)
         /\ AtQuote(i) => ~Plain(i) /\ ~Holds(i, LineEnds)
         /\ Backslash(i) => ~Plain(i)
         /\ Plain(i) => ~Backslash(i)
<1>1. source[i] \in HexDigits \cup {"u", "C"} => Plain(i)
  BY Zenon DEF Plain, HexDigits
<1>2. source[i] \notin Escapes => Plain(i)
  BY Zenon DEF Plain, Escapes
<1>3. AtQuote(i) => ~Plain(i) /\ ~Holds(i, LineEnds)
  BY Zenon DEF AtQuote, Plain, Holds, LineEnds
<1>4. Backslash(i) => ~Plain(i)
  BY Zenon DEF Backslash, Plain
<1>5. Plain(i) => ~Backslash(i)
  BY <1>4, Zenon
<1> QED
  BY <1>1, <1>2, <1>3, <1>4, <1>5, Zenon

\* How far the decoder of a literal's text goes from a byte, the text ending
\* at `end`.
TextQuad(i, end) == SubSeq(source, i + 2, Min2(i + 1 + QuadLength, end - 1))
TextStep(i, end) ==
  CASE source[i] # "\\" \/ i + 1 >= end -> 1
    [] source[i] = "\\" /\ i + 1 < end /\ source[i + 1] \in Escapes -> 2
    [] source[i] = "\\" /\ i + 1 < end /\ source[i + 1] = "u" /\ IsHexQuad(TextQuad(i, end)) -> 2 + QuadLength
    [] OTHER -> 1
TextSteps(end) == [i \in 1..end |-> i + TextStep(i, end)]
TextCuts(start, end) == Visited(1, end, {end}, TextSteps(end), start + 1)

LEMMA TextQuadIs ==
  ASSUME IsFile, NEW end \in 1..Len(source), NEW i \in 1..Len(source)
  PROVE  /\ Len(TextQuad(i, end)) = QuadLength => i + 2 + QuadLength <= end
         /\ i + 2 + QuadLength <= end => TextQuad(i, end) = Slice(i + 2, QuadLength)
<1>0. Len(source) \in Nat /\ QuadLength \in Nat \ {0}
  BY FileShape, LexerAssumption
<1>1. i + 2 + QuadLength <= end => TextQuad(i, end) = Slice(i + 2, QuadLength)
  BY <1>0 DEF TextQuad, Slice, Min2
<1>2. Len(TextQuad(i, end)) = QuadLength => i + 2 + QuadLength <= end
  <2> DEFINE n == Min2(i + 1 + QuadLength, end - 1)
  <2>1. n \in Int /\ n <= end - 1 /\ n <= Len(source) /\ i + 2 \in Nat \ {0}
    BY <1>0 DEF Min2
  <2> HIDE DEF n
  <2>2. Len(SubSeq(source, i + 2, n)) = IF i + 2 <= n THEN n - (i + 2) + 1 ELSE 0
    <3>1. CASE i + 2 <= n
      BY <1>0, <2>1, <3>1, SubSeqProperties DEF IsFile
    <3>2. CASE ~(i + 2 <= n)
      BY <2>1, <3>2
    <3> QED
      BY <3>1, <3>2
  <2>3. TextQuad(i, end) = SubSeq(source, i + 2, n)
    BY DEF TextQuad, n
  <2> QED
    BY <1>0, <2>1, <2>2, <2>3
<1> QED
  BY <1>1, <1>2

LEMMA TextStepIs ==
  ASSUME NEW end \in Nat, NEW i \in Nat
  PROVE  /\ ~Backslash(i) \/ i + 1 >= end => TextStep(i, end) = 1
         /\ i + 1 < end /\ Backslash(i) /\ source[i + 1] \in Escapes => TextStep(i, end) = 2
         /\ i + 1 < end /\ Backslash(i) /\ source[i + 1] = "u" /\ IsHexQuad(TextQuad(i, end))
              => TextStep(i, end) = 2 + QuadLength
         /\ source[i + 1] \notin Escapes /\ ~IsHexQuad(TextQuad(i, end)) => TextStep(i, end) = 1
         /\ source[i + 1] \notin Escapes /\ source[i + 1] # "u" => TextStep(i, end) = 1
<1>1. "u" \notin Escapes
  BY Zenon DEF Escapes
<1>2. ~Backslash(i) \/ i + 1 >= end => TextStep(i, end) = 1
  BY DEF TextStep, Backslash
<1>3. i + 1 < end => ~(i + 1 >= end)
  OBVIOUS
<1>4. i + 1 < end /\ Backslash(i) /\ source[i + 1] \in Escapes => TextStep(i, end) = 2
  BY <1>1, <1>3, Zenon DEF TextStep, Backslash
<1>5. i + 1 < end /\ Backslash(i) /\ source[i + 1] = "u" /\ IsHexQuad(TextQuad(i, end))
        => TextStep(i, end) = 2 + QuadLength
  BY <1>1, <1>3, Zenon DEF TextStep, Backslash
<1>6. source[i + 1] \notin Escapes /\ ~IsHexQuad(TextQuad(i, end)) => TextStep(i, end) = 1
  BY Zenon DEF TextStep
<1>7. source[i + 1] \notin Escapes /\ source[i + 1] # "u" => TextStep(i, end) = 1
  BY Zenon DEF TextStep
<1> QED
  BY <1>2, <1>4, <1>5, <1>6, <1>7

\* The decoder steps to the next byte, or over an escape that is all there.
LEMMA TextIsWalk ==
  ASSUME IsFile, NEW end \in 1..Len(source)
  PROVE  /\ IsWalk(1, end, {end}, TextSteps(end))
         /\ \A i \in 1..end : i # end => /\ TextStep(i, end) \in Nat \ {0}
                                        /\ i + TextStep(i, end) \in (i + 1)..end
<1>0. Len(source) \in Nat /\ QuadLength \in Nat \ {0}
  BY FileShape, LexerAssumption
<1>1. ASSUME NEW i \in 1..end, i # end
      PROVE  TextStep(i, end) \in Nat \ {0} /\ i + TextStep(i, end) \in (i + 1)..end
  <2>0. i \in 1..Len(source) /\ i \in Nat /\ end \in Nat
    BY <1>0
  <2>1. CASE TextStep(i, end) = 1
    BY <1>0, <1>1, <2>1
  <2>2. CASE TextStep(i, end) # 1 /\ source[i + 1] \in Escapes
    <3>1. Backslash(i) /\ ~(i + 1 >= end)
      BY <2>0, <2>2, TextStepIs
    <3>2. TextStep(i, end) = 2
      BY <2>0, <2>2, <3>1, TextStepIs
    <3> QED
      BY <1>0, <3>1, <3>2
  <2>3. CASE TextStep(i, end) # 1 /\ source[i + 1] \notin Escapes
    <3>1. Backslash(i) /\ ~(i + 1 >= end) /\ source[i + 1] = "u" /\ IsHexQuad(TextQuad(i, end))
      BY <2>0, <2>3, TextStepIs
    <3>2. TextStep(i, end) = 2 + QuadLength
      BY <2>0, <3>1, TextStepIs
    <3>3. i + 2 + QuadLength <= end
      BY <2>0, <3>1, TextQuadIs DEF IsHexQuad
    <3> QED
      BY <1>0, <3>2, <3>3
  <2> QED
    BY <2>1, <2>2, <2>3
<1>2. \A i \in (1..end) \ {end} : TextSteps(end)[i] \in (i + 1)..end
  BY <1>1 DEF TextSteps
<1> QED
  BY <1>0, <1>1, <1>2 DEF IsWalk

LEMMA DecodedIs ==
  ASSUME IsFile, NEW literal, NEW end \in 1..Len(source), end = InteriorEnd(literal),
         literal.from + 1 \in 1..end
  PROVE  Decoded(literal) = {<<i, i + TextStep(i, end)>> : i \in TextCuts(literal.from, end) \ {end}}
<1> DEFINE to == TextSteps(end)
           here == [i \in 1..end |-> IF i = end THEN {} ELSE {<<i, i + TextStep(i, end)>>}]
           first == literal.from + 1
           Body(g) == [i \in 1..end |-> IF i = end THEN {}
                                        ELSE {<<i, i + TextStep(i, end)>>} \cup g[i + TextStep(i, end)]]
           from == CHOOSE g : g = Body(g)
<1>1. IsWalk(1, end, {end}, to)
  BY TextIsWalk
<1>2. PICK f : f = WalkBody(f, 1, end, {end}, to, here)
  <2> HIDE DEF to, here
  <2> QED
    BY <1>1, WalkExists
<1>3. \A g : WalkBody(g, 1, end, {end}, to, here) = Body(g)
  <2> TAKE g
  <2>1. \A i \in 1..end : /\ to[i] = i + TextStep(i, end)
                           /\ here[i] = IF i = end THEN {} ELSE {<<i, i + TextStep(i, end)>>}
    BY DEF TextSteps
  <2> HIDE DEF to, here
  <2> QED
    BY <2>1 DEF WalkBody
<1>4. Decoded(literal) = from[first]
  BY DEF Decoded, TextStep, TextQuad
<1>5. from = WalkBody(from, 1, end, {end}, to, here)
  <2>1. from = Body(from)
    <3> HIDE DEF Body
    <3> QED
      BY <1>2, <1>3
  <2> QED
    BY <1>3, <2>1
<1>6. from[first] = UNION {here[j] : j \in Visited(1, end, {end}, to, first)}
  <2> HIDE DEF from, to, here
  <2> QED
    BY <1>1, <1>5, WalkCollects
<1>7. Visited(1, end, {end}, to, first) = TextCuts(literal.from, end)
  BY DEF TextCuts
<1>8. TextCuts(literal.from, end) \subseteq 1..end
  BY DEF TextCuts, Visited
<1>9. \A j \in TextCuts(literal.from, end) : here[j] = IF j = end THEN {} ELSE {<<j, j + TextStep(j, end)>>}
  BY <1>8
<1> HIDE DEF from, to, here
<1>10. UNION {here[j] : j \in TextCuts(literal.from, end)}
         = {<<i, i + TextStep(i, end)>> : i \in TextCuts(literal.from, end) \ {end}}
  <2> DEFINE C == TextCuts(literal.from, end)
             L == UNION {here[j] : j \in C}
             R == {<<i, i + TextStep(i, end)>> : i \in C \ {end}}
  <2>1. \A j \in C : j = end => here[j] = {}
    BY <1>9
  <2>2. \A j \in C : j # end => here[j] = {<<j, j + TextStep(j, end)>>}
    BY <1>9
  <2> HIDE DEF C
  <2>3. L \subseteq R
    <3> SUFFICES ASSUME NEW x \in L  PROVE x \in R
      OBVIOUS
    <3>1. PICK j \in C : x \in here[j]
      OBVIOUS
    <3>2. j # end /\ x = <<j, j + TextStep(j, end)>>
      BY <2>1, <2>2, <3>1
    <3> QED
      BY <3>2
  <2>4. R \subseteq L
    BY <2>2, Zenon
  <2> QED
    BY <2>3, <2>4, Zenon DEF C
<1> QED
  BY <1>4, <1>6, <1>7, <1>10

\* An escape of a literal that closes: the decoder takes it whole, or takes its
\* backslash as itself and the lexer reported it.  A quote or a backslash inside
\* it is the second of two bytes.
LEMMA EscapeReadTwice ==
  ASSUME IsFile, NEW start \in 1..Len(source), NEW end \in Cuts(start), AtQuote(end),
         NEW j \in Cuts(start), Holds(j, {"\\"}),
         NEW n, n = EscapeAt(j).length
  PROVE  /\ Backslash(j) /\ j \in 1..(end - 1) /\ n \in Nat /\ n >= 2 /\ j + n <= end
         /\ \/ TextStep(j, end) = n
            \/ TextStep(j, end) = 1 /\ EscapeAt(j).said = {Said("StringEscape", j, j + n)}
         /\ \/ n = 2 /\ TextStep(j, end) = 2
            \/ \A k \in (j + 1)..(j + n - 1) : Plain(k)
<1>0. /\ Len(source) \in Nat /\ End = Len(source) + 1 /\ QuadLength \in Nat \ {0}
      /\ end \in 1..Len(source) /\ j \in 1..Len(source) /\ j \in Nat /\ end \in Nat /\ StringStops(end)
  BY CutsShape, FileShape, LexerAssumption, QuoteByte DEF End, Holds, StringStops
<1>1. Backslash(j) /\ ~StringStops(j) /\ StringStep(j) = n
  BY <1>0, QuoteByte DEF StringStops, StringStep, Holds, LineEnds, Backslash
<1>2. n \in Nat \ {0} /\ j + n \in Cuts(start) /\ j + n <= end /\ (StringStops(j + n) => j + n = end)
  BY <1>0, <1>1, EscapeBounds, CutsShape, CutsOver, SMTT(30)
<1>3. j + 1 \in 1..Len(source) /\ j # Len(source) /\ j < end
  BY <1>0, <1>2
<1>4. ~Holds(j + 1, LineEnds)
  <2> SUFFICES ASSUME Holds(j + 1, LineEnds)  PROVE FALSE
    OBVIOUS
  <2>1. EscapeAt(j) = [length |-> 1, said |-> {Said("StringEscape", j, j + 1)}]
    BY <1>3 DEF EscapeAt, Holds, Escapes, LineEnds
  <2>2. j + 1 = end
    BY <1>2, <2>1 DEF StringStops
  <2> QED
    BY <2>2, PlainBytes
<1>5. CASE Holds(j + 1, Escapes)
  <2>0. EscapeAt(j) = [length |-> 2, said |-> {}]
    BY <1>3, <1>5 DEF EscapeAt, Holds, Escapes, LineEnds
  <2>1. EscapeAt(j).length = 2 /\ source[j + 1] \in Escapes
    BY <1>5, <2>0 DEF Holds
  <2>2. j + 1 < end
    BY <1>0, <1>2, <2>1
  <2>3. TextStep(j, end) = 2
    BY <1>0, <1>1, <2>1, <2>2, TextStepIs
  <2> QED
    BY <1>0, <1>1, <1>2, <1>3, <2>1, <2>3
<1>6. CASE ~Holds(j + 1, Escapes) /\ Holds(j + 1, {"u"})
  <2> DEFINE quad == Slice(j + 2, QuadLength)
  <2>1. source[j + 1] = "u" /\ source[j + 1] \notin Escapes /\ Plain(j + 1)
    BY <1>3, <1>6, PlainBytes DEF Holds
  <2>2. EscapeAt(j) = IF ~IsHexQuad(quad)
                      THEN [length |-> 2, said |-> {Said("StringEscape", j, j + 2)}]
                      ELSE IF Surrogate(quad)
                      THEN [length |-> 2 + QuadLength,
                            said |-> {Said("StringEscape", j, j + (2 + QuadLength))}]
                      ELSE [length |-> 2 + QuadLength, said |-> {}]
    BY <1>3, <1>4, <1>6 DEF EscapeAt
  <2>3. CASE IsHexQuad(quad)
    <3>1. n = 2 + QuadLength
      BY <2>2, <2>3
    <3>2. TextQuad(j, end) = quad /\ j + 1 < end
      BY <1>0, <1>2, <3>1, TextQuadIs
    <3>3. TextStep(j, end) = n
      BY <1>0, <1>1, <2>1, <2>3, <3>1, <3>2, TextStepIs
    <3>4. Len(quad) = QuadLength /\ \A k \in 1..QuadLength : quad[k] \in HexDigits
      BY <2>3 DEF IsHexQuad
    <3>5. \A k \in 1..QuadLength : quad[k] = source[j + 2 + k - 1]
      BY <1>0, <3>4, SliceLength
    <3>6. ASSUME NEW k \in (j + 1)..(j + n - 1)
          PROVE  Plain(k)
      <4>1. CASE k = j + 1
        BY <2>1, <4>1
      <4>2. CASE k # j + 1
        <5>1. k - j - 1 \in 1..QuadLength /\ j + 2 + (k - j - 1) - 1 = k
          BY <1>0, <3>1, <4>2
        <5>2. source[k] \in HexDigits
          BY <3>4, <3>5, <5>1
        <5> QED
          BY <5>2, PlainBytes
      <4> QED
        BY <4>1, <4>2
    <3> QED
      BY <1>0, <1>1, <1>2, <1>3, <3>1, <3>3, <3>6
  <2>4. CASE ~IsHexQuad(quad)
    <3>1. n = 2 /\ EscapeAt(j).said = {Said("StringEscape", j, j + n)}
      BY <2>2, <2>4
    <3>2. ~IsHexQuad(TextQuad(j, end))
      BY <1>0, <2>4, TextQuadIs DEF IsHexQuad
    <3>3. TextStep(j, end) = 1
      BY <1>0, <2>1, <3>2, TextStepIs
    <3>4. \A k \in (j + 1)..(j + n - 1) : k = j + 1
      BY <1>0, <3>1
    <3> QED
      BY <1>0, <1>1, <1>2, <1>3, <2>1, <3>1, <3>3, <3>4
  <2> QED
    BY <2>3, <2>4
<1>7. CASE ~Holds(j + 1, Escapes) /\ ~Holds(j + 1, {"u"})
  <2>1. source[j + 1] # "u" /\ source[j + 1] \notin Escapes /\ Plain(j + 1)
    BY <1>3, <1>7, PlainBytes DEF Holds
  <2>2. EscapeAt(j) = [length |-> 1 + DecodedLength(j + 1),
                       said |-> {Said("StringEscape", j, j + (1 + DecodedLength(j + 1)))}]
    BY <1>3, <1>4, <1>7 DEF EscapeAt
  <2>3. /\ DecodedLength(j + 1) \in 1..3
        /\ \A k \in (j + 2)..(j + 1 + DecodedLength(j + 1) - 1) : source[k] = "C"
    BY <1>0, <1>3, DecodedBounds
  <2>4. n = 1 + DecodedLength(j + 1) /\ EscapeAt(j).said = {Said("StringEscape", j, j + n)}
    BY <2>2
  <2>5. TextStep(j, end) = 1
    BY <1>0, <2>1, TextStepIs
  <2>6. ASSUME NEW k \in (j + 1)..(j + n - 1)
        PROVE  Plain(k)
    <3>1. CASE k = j + 1
      BY <2>1, <3>1
    <3>2. CASE k # j + 1
      <4>1. source[k] = "C"
        BY <1>0, <2>3, <2>4, <3>2
      <4> QED
        BY <4>1, PlainBytes
    <3> QED
      BY <3>1, <3>2
  <2> QED
    BY <1>0, <1>1, <1>2, <1>3, <2>3, <2>4, <2>5, <2>6
<1> QED
  BY <1>5, <1>6, <1>7

\* Where the lexer cuts a literal that closes, its decoder cuts it.
LEMMA CutsAreTextCuts ==
  ASSUME IsFile, NEW start \in 1..Len(source), NEW end \in Cuts(start), AtQuote(end)
  PROVE  Cuts(start) \subseteq TextCuts(start, end)
<1> DEFINE D == TextCuts(start, end)
           S == {i \in Cuts(start) : i \in D}
<1>0. /\ Len(source) \in Nat /\ End = Len(source) + 1 /\ StringStops(end)
      /\ end \in 1..Len(source) /\ start + 1 \in 1..end /\ Cuts(start) \subseteq (start + 1)..End
  BY CutsShape, FileShape, QuoteByte DEF End, StringStops
<1>1. IsWalk(1, end, {end}, TextSteps(end))
  BY <1>0, TextIsWalk
<1>2. \A i \in D : i \in 1..end /\ (i # end => i + TextStep(i, end) \in D)
  <2> TAKE i \in D
  <2>1. i \in 1..end
    BY DEF TextCuts, Visited
  <2>2. ASSUME i # end  PROVE TextSteps(end)[i] \in D
    BY <1>0, <1>1, <2>2, VisitedNext DEF TextCuts
  <2> QED
    BY <2>1, <2>2 DEF TextSteps
<1>3. start + 1 \in S
  BY <1>0, CutsShape, VisitedSelf DEF TextCuts
<1>4. ASSUME NEW k \in S, ~StringStops(k)
      PROVE  k + StringStep(k) \in D
  <2>0. k \in Cuts(start) /\ k \in D /\ k # end /\ k \in 1..end /\ k \in Nat /\ k <= Len(source)
    BY <1>0, <1>2, <1>4 DEF StringStops
  <2>1. CASE ~Holds(k, {"\\"})
    <3>1. StringStep(k) = 1 /\ ~Backslash(k)
      BY <2>0, <2>1 DEF StringStep, Holds, Backslash
    <3>2. TextStep(k, end) = 1
      BY <1>0, <2>0, <3>1, TextStepIs
    <3> QED
      BY <1>2, <2>0, <3>1, <3>2
  <2>2. CASE Holds(k, {"\\"})
    <3> DEFINE n == EscapeAt(k).length
    <3>1. StringStep(k) = n
      BY <2>2 DEF StringStep
    <3> HIDE DEF n
    <3>2. /\ n \in Nat /\ n >= 2 /\ k + n <= end
          /\ TextStep(k, end) = n \/ TextStep(k, end) = 1
          /\ (TextStep(k, end) = 2 /\ n = 2) \/ \A m \in (k + 1)..(k + n - 1) : Plain(m)
      BY <2>0, <2>2, EscapeReadTwice DEF n
    <3>3. CASE TextStep(k, end) = n
      BY <1>2, <2>0, <3>1, <3>3
    <3>4. CASE TextStep(k, end) = 1 /\ \A m \in (k + 1)..(k + n - 1) : Plain(m)
      <4> DEFINE T == {m \in (k + 1)..(k + n) : m \notin D}
      <4> SUFFICES ASSUME T # {}  PROVE FALSE
        BY <2>0, <3>1, <3>2
      <4>1. T \in SUBSET Nat
        BY <2>0
      <4>2. PICK m \in T : \A i \in T : m <= i
        BY <4>1, NatLeast
      <4>3. m \in Nat /\ m - 1 \in Nat /\ k + 1 <= m /\ m <= k + n /\ m <= end
        BY <2>0, <3>2, <4>2
      <4>4. m # k + 1
        BY <1>2, <2>0, <3>4
      <4>5. m - 1 \in D
        BY <2>0, <3>2, <4>2, <4>3, <4>4
      <4>6. Plain(m - 1) /\ m - 1 # end
        BY <1>0, <2>0, <3>2, <3>4, <4>3, <4>4
      <4>7. TextStep(m - 1, end) = 1
        BY <1>0, <4>3, <4>6, PlainBytes, TextStepIs
      <4>8. (m - 1) + 1 \in D
        BY <1>2, <4>5, <4>6, <4>7
      <4> QED
        BY <4>2, <4>3, <4>8
    <3> QED
      BY <3>2, <3>3, <3>4
  <2> QED
    BY <2>1, <2>2
<1>5. IsWalk(start, End, StopsFrom(start), StepsFrom(start)) /\ start + 1 \in start..End
  BY StringIsWalk
<1>6. WalkClosed(S, StopsFrom(start), StepsFrom(start))
  <2> SUFFICES ASSUME NEW k \in S, k \notin StopsFrom(start)  PROVE StepsFrom(start)[k] \in S
    BY DEF WalkClosed
  <2>1. k \in start..End /\ k \in Cuts(start)
    BY DEF Cuts, Visited
  <2>2. ~StringStops(k) /\ StepsFrom(start)[k] = k + StringStep(k)
    BY <2>1 DEF StopsFrom, StepsFrom
  <2>3. k + StringStep(k) \in Cuts(start)
    BY <2>1, <2>2, CutsShape
  <2> QED
    BY <1>4, <2>2, <2>3
<1>7. S \in SUBSET (start..End)
  BY DEF Cuts, Visited
<1>8. Cuts(start) \subseteq S
  BY <1>3, <1>5, <1>6, <1>7, VisitedLeast DEF Cuts
<1> QED
  BY <1>8

\* What EscapesAgree says of one literal that closes.
LEMMA LiteralReadTwice ==
  ASSUME IsFile, NEW start \in 1..Len(source), NEW end \in Cuts(start), AtQuote(end),
         NEW cut, \A m, n : <<m, n>> \in cut <=> m \in TextCuts(start, end) \ {end} /\ n = m + TextStep(m, end),
         NEW j \in (start + 1)..(end - 1)
  PROVE  /\ AtQuote(j) => <<j - 1, j + 1>> \in cut
         /\ Backslash(j) /\ <<j, j + 1>> \in cut
              => \E r \in EscapeReports(start) : r.code = "StringEscape" /\ r.from = j
<1> DEFINE D == TextCuts(start, end)
<1>0. /\ Len(source) \in Nat /\ End = Len(source) + 1 /\ StringStops(end)
      /\ end \in 1..Len(source) /\ start + 1 \in 1..end /\ j \in Nat /\ j < end /\ j <= Len(source)
      /\ Cuts(start) \subseteq (start + 1)..End
  BY CutsShape, FileShape, QuoteByte DEF End, StringStops
<1>1. IsWalk(1, end, {end}, TextSteps(end))
  BY <1>0, TextIsWalk
<1>2. Cuts(start) \subseteq D /\ \A i \in D : i \in 1..end
  BY CutsAreTextCuts DEF TextCuts, Visited
<1>3. ASSUME j \notin Cuts(start), ~Plain(j)
      PROVE  \E c \in Cuts(start) : c \in D \ {end} /\ c \in Nat /\ j = c + 1 /\ TextStep(c, end) = 2
  <2>1. j \in (start + 1)..end
    BY <1>0
  <2>2. PICK c \in Cuts(start) : ~StringStops(c) /\ c < j /\ j < c + StringStep(c)
    BY <1>0, <1>3, <2>1, CutsOver
  <2>3. c \in Nat /\ c # end /\ c \in D
    BY <1>0, <1>2, <2>2
  <2>4. Holds(c, {"\\"})
    BY <1>0, <2>2, <2>3 DEF StringStep
  <2> DEFINE n == EscapeAt(c).length
  <2>5. StringStep(c) = n
    BY <2>4 DEF StringStep
  <2> HIDE DEF n
  <2>6. n \in Nat /\ ((n = 2 /\ TextStep(c, end) = 2) \/ \A k \in (c + 1)..(c + n - 1) : Plain(k))
    BY <2>4, EscapeReadTwice DEF n
  <2>7. j \in (c + 1)..(c + n - 1)
    BY <1>0, <2>2, <2>3, <2>5, <2>6
  <2>8. n = 2 /\ TextStep(c, end) = 2
    BY <1>3, <2>6, <2>7
  <2> QED
    BY <1>0, <2>3, <2>7, <2>8
<1>4. ASSUME AtQuote(j)  PROVE <<j - 1, j + 1>> \in cut
  <2>1. j \notin Cuts(start)
    BY <1>0, <1>4, CutsOver DEF StringStops
  <2>2. PICK c \in D \ {end} : c \in Nat /\ j = c + 1 /\ TextStep(c, end) = 2
    BY <1>3, <1>4, <2>1, PlainBytes
  <2>3. <<c, c + TextStep(c, end)>> \in cut
    OBVIOUS
  <2>4. c = j - 1 /\ c + TextStep(c, end) = j + 1
    BY <2>2
  <2> QED
    BY <2>3, <2>4
<1>5. ASSUME Backslash(j), <<j, j + 1>> \in cut
      PROVE  \E r \in EscapeReports(start) : r.code = "StringEscape" /\ r.from = j
  <2>2. j + TextStep(j, end) = j + 1 /\ j \in D /\ j # end
    BY <1>5
  <2>3. TextStep(j, end) = 1
    <3>1. TextStep(j, end) \in Nat
      BY <1>0, <1>2, <2>2, TextIsWalk
    <3> QED
      BY <1>0, <2>2, <3>1
  <2>4. j \in Cuts(start)
    <3> SUFFICES ASSUME j \notin Cuts(start)  PROVE FALSE
      OBVIOUS
    <3>1. PICK c \in D \ {end} : c \in Nat /\ j = c + 1 /\ TextStep(c, end) = 2
      BY <1>3, <1>5, PlainBytes
    <3>2. TextSteps(end)[c] = c + 2
      BY <1>2, <3>1 DEF TextSteps
    <3>3. TextSteps(end)[c] <= j
      BY <1>0, <1>1, <2>2, <3>1, VisitedSkips DEF TextCuts
    <3> QED
      BY <3>1, <3>2, <3>3
  <2>5. Holds(j, {"\\"})
    BY <1>0, <1>5 DEF Backslash, Holds
  <2> DEFINE n == EscapeAt(j).length
  <2>6. n >= 2 /\ n \in Nat /\ (TextStep(j, end) = n \/ EscapeAt(j).said = {Said("StringEscape", j, j + n)})
    BY <2>4, <2>5, EscapeReadTwice
  <2>7. Said("StringEscape", j, j + n) \in EscapeReports(start)
    BY <2>3, <2>4, <2>5, <2>6 DEF EscapeReports
  <2> QED
    BY <2>7 DEF Said
<1> QED
  BY <1>4, <1>5

-----------------------------------------------------------------------------
(* What each action pushes *)

TokenKinds == {"String", "LocKey", "Annotation", "Error", "Operator", "Punctuation", "Angle",
               "Integer", "Decimal", "Identifier", "EndOfFile"}
TriviaKinds == {"Whitespace", "Comment", "ByteOrderMark"}
Within(spoken, start, end) ==
  \A r \in spoken : /\ r.from \in Nat /\ r.to \in Nat
                    /\ start <= r.from /\ r.from <= r.to /\ r.to <= end

\* A piece of trivia or a token that ends at `end`: it is not empty, the next
\* one starts at a boundary, and what is said is said of it.
Lexeme(end, spoken) ==
  /\ end \in (pos + 1)..End
  /\ Boundary(end)
  /\ Within(spoken, pos, end)

\* An error token is a run of malformed bytes, already reported, or no run starts
\* in it and it is reported itself.
ErrorIsReported(end, spoken) ==
  \/ /\ Malformed(pos)
     /\ end = PastMalformed(pos)
     /\ spoken = {}
  \/ /\ \A k \in pos..(end - 1) : ~StartsRun(k)
     /\ \E code : spoken = {Said(code, pos, end)}

PushesTrivia == \E kind \in TriviaKinds : \E end, spoken : PushTrivia(kind, end, spoken) /\ Lexeme(end, spoken)
PushesToken ==
  \E kind \in TokenKinds : \E end, spoken :
    /\ PushToken(kind, end, spoken)
    /\ IF kind = "EndOfFile" THEN pos = End /\ end = pos /\ spoken = {} ELSE Lexeme(end, spoken)
    /\ kind = "Error" => ErrorIsReported(end, spoken)
    /\ kind = "String" => end = StringAt(pos).to /\ spoken = StringAt(pos).said

Ready == IsFile /\ pos \in 1..End /\ Boundary(pos)

LEMMA PastIsBoundary ==
  ASSUME IsFile, NEW i \in 1..Len(source), source[i] \notin HighBytes,
         NEW Bytes, Bytes \cap HighBytes = {}
  PROVE  /\ Past(i + 1, Bytes) \in (i + 1)..End
         /\ Boundary(Past(i + 1, Bytes))
         /\ ~Holds(Past(i + 1, Bytes), Bytes)
         /\ \A k \in (i + 1)..(Past(i + 1, Bytes) - 1) : Holds(k, Bytes)
<1>0. Len(source) \in Nat /\ End = Len(source) + 1 /\ i + 1 \in 1..End
  BY FileShape DEF End
<1> DEFINE j == Past(i + 1, Bytes)
<1>1. /\ j \in (i + 1)..End
      /\ ~Holds(j, Bytes)
      /\ \A k \in (i + 1)..(j - 1) : Holds(k, Bytes)
  BY <1>0, PastBounds
<1> HIDE DEF j
<1>2. j - 1 \in 1..Len(source) /\ source[j - 1] \notin HighBytes
  <2>1. CASE j = i + 1
    BY <1>0, <2>1
  <2>2. CASE j # i + 1
    <3>1. j - 1 \in (i + 1)..(j - 1) /\ j - 1 \in 1..Len(source)
      BY <1>0, <1>1, <2>2
    <3> QED
      BY <1>1, <3>1 DEF Holds
  <2> QED
    BY <2>1, <2>2
<1>3. Boundary((j - 1) + 1) /\ (j - 1) + 1 = j
  BY <1>0, <1>1, <1>2, AfterAscii
<1> QED
  BY <1>1, <1>3 DEF j

\* From an ASCII byte of a set, past all of them.
LEMMA PastFrom ==
  ASSUME IsFile, NEW i \in 1..End, NEW Bytes, Bytes \cap HighBytes = {}, Holds(i, Bytes)
  PROVE  /\ i \in 1..Len(source)
         /\ Past(i, Bytes) \in (i + 1)..End
         /\ Boundary(Past(i, Bytes))
<1>0. Len(source) \in Nat /\ End = Len(source) + 1 /\ i \in 1..Len(source)
  BY FileShape DEF End, Holds
<1> DEFINE j == Past(i, Bytes)
<1>1. /\ j \in (i + 1)..End
      /\ \A k \in i..(j - 1) : Holds(k, Bytes)
  BY <1>0, PastBounds
<1> HIDE DEF j
<1>2. j - 1 \in 1..Len(source) /\ j - 1 \in i..(j - 1)
  BY <1>0, <1>1
<1>3. source[j - 1] \notin HighBytes
  BY <1>1, <1>2 DEF Holds
<1>4. Boundary((j - 1) + 1) /\ (j - 1) + 1 = j
  BY <1>0, <1>1, <1>2, <1>3, AfterAscii
<1> QED
  BY <1>0, <1>1, <1>4 DEF j

LEMMA SaysItself ==
  ASSUME pos \in Nat, NEW end \in Nat, pos <= end, NEW code
  PROVE  Within({Said(code, pos, end)}, pos, end)
BY DEF Said, Within

LEMMA SaysNothing == \A start, end : Within({}, start, end)
BY DEF Within

LEMMA PushesWhitespace == ASSUME Ready, LexWhitespace PROVE PushesTrivia
<1>1. Holds(pos, Whitespace) /\ PushTrivia("Whitespace", Past(pos, Whitespace), {})
  BY DEF LexWhitespace
<1>2. Whitespace \cap HighBytes = {}
  BY DEF Whitespace, HighBytes
<1>3. Lexeme(Past(pos, Whitespace), {})
  BY <1>1, <1>2, PastFrom, SaysNothing DEF Ready, Lexeme
<1> QED
  BY <1>1, <1>3 DEF PushesTrivia, TriviaKinds

LEMMA PushesComment == ASSUME Ready, LexComment PROVE PushesTrivia
<1>1. Holds(pos, {"#"}) /\ PushTrivia("Comment", PastComment(pos), {})
  BY DEF LexComment
<1>2. pos \in 1..Len(source) /\ source[pos] = "#" /\ Len(source) \in Nat
  BY <1>1, FileShape DEF Ready, Holds, End
<1>3. /\ PastComment(pos) \in (pos + 1)..End
      /\ PastComment(pos) > Len(source) \/ source[PastComment(pos)] \in LineEnds
  BY <1>2, PastCommentBounds DEF Ready
<1>4. PastComment(pos) \in 1..End
  BY <1>2, <1>3 DEF End
<1>5. Boundary(PastComment(pos))
  BY <1>3, <1>4, AtAscii DEF Ready, LineEnds, HighBytes
<1>6. Lexeme(PastComment(pos), {})
  BY <1>3, <1>5, SaysNothing DEF Lexeme
<1> QED
  BY <1>1, <1>6 DEF PushesTrivia, TriviaKinds

\* A character of some other script.
LEMMA CharacterLexeme ==
  ASSUME Ready, pos \in 1..Len(source), ~Malformed(pos)
  PROVE  /\ Lexeme(pos + DecodedLength(pos), {})
         /\ \A code :
              Lexeme(pos + DecodedLength(pos), {Said(code, pos, pos + DecodedLength(pos))})
<1> DEFINE end == pos + DecodedLength(pos)
<1>1. end \in (pos + 1)..End /\ end \in Nat /\ pos \in Nat /\ pos <= end
  BY DecodedBounds, FileShape DEF Ready, End
<1>2. Boundary(end)
  BY AfterCharacter DEF Ready, Boundary
<1> HIDE DEF end
<1>3. Lexeme(end, {}) /\ \A code : Lexeme(end, {Said(code, pos, end)})
  BY <1>1, <1>2, SaysItself, SaysNothing DEF Lexeme
<1> QED
  BY <1>3 DEF end

LEMMA PushesMark == ASSUME Ready, LexByteOrderMark PROVE PushesTrivia
<1>1. pos = 1 /\ Holds(1, {"E"}) /\ Decodes(1) /\ PushTrivia("ByteOrderMark", 4, {})
  BY DEF LexByteOrderMark
<1>2. 1 \in 1..Len(source) /\ source[1] = "E" /\ ~Malformed(1)
  BY <1>1, FileShape DEF Ready, Holds, Malformed
<1>3. DecodedLength(1) = 3
  BY <1>1, <1>2 DEF DecodedLength, Needed
<1>4. Lexeme(1 + DecodedLength(1), {})
  BY <1>1, <1>2, CharacterLexeme
<1>5. Lexeme(4, {})
  BY <1>3, <1>4
<1> QED
  BY <1>1, <1>5 DEF PushesTrivia, TriviaKinds

LEMMA PushesUnicodeWhitespace == ASSUME Ready, LexUnicodeWhitespace PROVE PushesTrivia
<1> DEFINE end == pos + DecodedLength(pos)
<1>1. UnicodeSpaceAt(pos) /\ PushTrivia("Whitespace", end, {Said("UnicodeWhitespace", pos, end)})
  BY DEF LexUnicodeWhitespace
<1>2. pos \in 1..Len(source) /\ ~Malformed(pos)
  BY <1>1, FileShape DEF Ready, UnicodeSpaceAt, Holds, Malformed, End
<1>3. \A code : Lexeme(end, {Said(code, pos, end)})
  BY <1>2, CharacterLexeme
<1> HIDE DEF end
<1>4. Lexeme(end, {Said("UnicodeWhitespace", pos, end)})
  BY <1>3
<1>5. "Whitespace" \in TriviaKinds
  BY DEF TriviaKinds
<1> QED
  BY <1>1, <1>4, <1>5, Zenon DEF PushesTrivia

\* What stays of a token's conditions when its kind is neither of the three
\* that have more.
LEMMA PushesPlainToken ==
  ASSUME NEW kind \in TokenKinds \ {"EndOfFile", "Error", "String"}, NEW end, NEW spoken,
         PushToken(kind, end, spoken), Lexeme(end, spoken)
  PROVE  PushesToken
BY DEF PushesToken

\* One ASCII byte, or two.
LEMMA AsciiLexeme ==
  ASSUME Ready, pos \in 1..Len(source), source[pos] \notin HighBytes
  PROVE  /\ Lexeme(pos + 1, {}) /\ \A code : Lexeme(pos + 1, {Said(code, pos, pos + 1)})
         /\ ~StartsRun(pos)
         /\ Holds(pos + 1, {"=", ":", ">"}) =>
              /\ Lexeme(pos + 2, {}) /\ \A code : Lexeme(pos + 2, {Said(code, pos, pos + 2)})
              /\ ~StartsRun(pos + 1)
<1>0. pos \in Nat /\ Len(source) \in Nat /\ End = Len(source) + 1
  BY FileShape DEF Ready, End
<1>1. Boundary(pos + 1)
  BY AfterAscii DEF Ready
<1>2. ~StartsRun(pos)
  BY DEF StartsRun, Malformed, Holds
<1>3. Lexeme(pos + 1, {}) /\ \A code : Lexeme(pos + 1, {Said(code, pos, pos + 1)})
  BY <1>0, <1>1, SaysItself, SaysNothing DEF Lexeme
<1>4. ASSUME Holds(pos + 1, {"=", ":", ">"})
      PROVE  /\ Lexeme(pos + 2, {}) /\ \A code : Lexeme(pos + 2, {Said(code, pos, pos + 2)})
             /\ ~StartsRun(pos + 1)
  <2>1. pos + 1 \in 1..Len(source) /\ source[pos + 1] \notin HighBytes
    BY <1>0, <1>4 DEF Holds, HighBytes
  <2>2. Boundary(pos + 2)
    <3>1. Boundary((pos + 1) + 1) /\ (pos + 1) + 1 = pos + 2
      BY <1>0, <2>1, AfterAscii DEF Ready
    <3> QED
      BY <3>1
  <2>3. ~StartsRun(pos + 1)
    BY <2>1 DEF StartsRun, Malformed, Holds
  <2> QED
    BY <1>0, <2>1, <2>2, <2>3, SaysItself, SaysNothing DEF Lexeme
<1> QED
  BY <1>2, <1>3, <1>4

LEMMA PushesString == ASSUME Ready, LexString PROVE PushesToken
<1> DEFINE literal == StringAt(pos)
<1>1. Holds(pos, {"\""}) /\ PushToken("String", literal.to, literal.said)
  BY Zenon DEF LexString
<1>2. pos \in 1..Len(source) /\ pos \in Nat
  <2>1. pos <= Len(source)
    BY <1>1, Zenon DEF Holds
  <2> QED
    BY <2>1, FileShape DEF Ready, End
<1>3. Lexeme(literal.to, literal.said)
  <2>1. /\ literal.to \in (pos + 1)..End
        /\ Boundary(literal.to)
        /\ \A r \in literal.said : /\ r.from \in pos..literal.to /\ r.to \in pos..literal.to
                                   /\ r.from <= r.to
    BY <1>2, StringBounds DEF Ready
  <2> HIDE DEF literal
  <2>2. \A m \in pos..literal.to : m \in Nat /\ pos <= m /\ m <= literal.to
    BY <1>2
  <2> QED
    BY <2>1, <2>2 DEF Lexeme, Within
<1>4. "String" \in TokenKinds /\ "String" # "EndOfFile" /\ "String" # "Error"
  BY DEF TokenKinds
<1> HIDE DEF literal
<1>5. PushToken("String", StringAt(pos).to, StringAt(pos).said) /\ Lexeme(StringAt(pos).to, StringAt(pos).said)
  BY <1>1, <1>3 DEF literal
<1> QED
  BY <1>1, <1>4, <1>5, Zenon DEF PushesToken

LEMMA PushesSigil == ASSUME Ready, LexSigil PROVE PushesToken
<1>1. pos \in 1..Len(source) /\ source[pos] \in {"$", "@"} /\ source[pos] \notin HighBytes
  BY FileShape DEF LexSigil, Ready, Holds, HighBytes, End
<1>2. CASE Holds(pos + 1, IdentStart)
  <2>1. PICK kind \in {"LocKey", "Annotation"} : PushToken(kind, Past(pos + 2, IdentContinue), {})
    BY <1>2 DEF LexSigil
  <2>2. pos + 1 \in 1..Len(source) /\ source[pos + 1] \notin HighBytes /\ pos \in Nat
    BY <1>1, <1>2, FileShape DEF Holds, IdentStart, HighBytes, Ready
  <2>3. IdentContinue \cap HighBytes = {}
    BY DEF IdentContinue, IdentStart, Digits, HighBytes
  <2>4. (pos + 1) + 1 = pos + 2
    BY <2>2
  <2>5. Past(pos + 2, IdentContinue) \in (pos + 2)..End /\ Boundary(Past(pos + 2, IdentContinue))
    BY <2>2, <2>3, <2>4, PastIsBoundary DEF Ready
  <2>6. Lexeme(Past(pos + 2, IdentContinue), {})
    BY <2>2, <2>5, SaysNothing DEF Lexeme
  <2> QED
    BY <2>1, <2>6, PushesPlainToken DEF TokenKinds
<1>3. CASE ~Holds(pos + 1, IdentStart)
  <2>1. PushToken("Error", pos + 1, {Said("BadChar", pos, pos + 1)})
    BY <1>3 DEF LexSigil
  <2>2. Lexeme(pos + 1, {Said("BadChar", pos, pos + 1)}) /\ ~StartsRun(pos)
    BY <1>1, AsciiLexeme
  <2>3. ErrorIsReported(pos + 1, {Said("BadChar", pos, pos + 1)})
    BY <1>1, <2>2 DEF ErrorIsReported
  <2> QED
    BY <2>1, <2>2, <2>3 DEF PushesToken, TokenKinds
<1> QED
  BY <1>2, <1>3

LEMMA SliceOfTwo ==
  ASSUME IsFile, NEW i \in 1..Len(source), NEW a, NEW b, Slice(i, 2) = <<a, b>>
  PROVE  source[i] = a /\ i + 1 <= Len(source) /\ source[i + 1] = b
<1>1. Len(Slice(i, 2)) = 2 /\ Slice(i, 2)[1] = a /\ Slice(i, 2)[2] = b
  OBVIOUS
<1>2. i + 2 <= End /\ \A k \in 1..2 : Slice(i, 2)[k] = source[i + k - 1]
  <2>1. i \in Nat \ {0} /\ 2 \in Nat \ {0} /\ Len(Slice(i, 2)) = 2
    BY <1>1, FileShape
  <2> QED
    BY <2>1, SliceLength, Zenon
<1>3. Slice(i, 2)[1] = source[i + 1 - 1] /\ Slice(i, 2)[2] = source[i + 2 - 1]
  BY <1>2
<1>4. i + 1 - 1 = i /\ i + 2 - 1 = i + 1
  BY FileShape
<1> QED
  BY <1>1, <1>2, <1>3, <1>4, FileShape DEF End

LEMMA PushesOperator == ASSUME Ready, LexOperator PROVE PushesToken
<1> DEFINE spoken == IF RemovedOperatorAt(pos) THEN {Said("OpRemoved", pos, pos + 2)} ELSE {}
<1>1. /\ pos \in 1..Len(source) /\ OperatorLength(pos) > 0
      /\ PushToken("Operator", pos + OperatorLength(pos), spoken)
  BY FileShape DEF LexOperator, Ready, End
<1> HIDE DEF spoken
<1>2. CASE Slice(pos, 2) \in TwoCharOperators \/ RemovedOperatorAt(pos)
  <2>1. \E a \in {"=", "!", "<", ">", "+", "-", "?"} : Slice(pos, 2) = <<a, "=">>
    BY <1>2 DEF TwoCharOperators, RemovedOperatorAt
  <2>2. source[pos] \in {"=", "!", "<", ">", "+", "-", "?"} /\ Holds(pos + 1, {"=", ":", ">"})
    BY <1>1, <2>1, SliceOfTwo DEF Ready, Holds
  <2>3. source[pos] \notin HighBytes
    BY <2>2 DEF HighBytes
  <2>4. OperatorLength(pos) = 2
    <3>1. CASE Slice(pos, 2) \in TwoCharOperators
      BY <3>1, Zenon DEF OperatorLength
    <3>2. CASE RemovedOperatorAt(pos)
      <4>1. ~Holds(pos, {"="})
        BY <1>1, <3>2, SliceOfTwo DEF Ready, RemovedOperatorAt, Holds
      <4> QED
        BY <3>2, <4>1, Zenon DEF OperatorLength
    <3> QED
      BY <1>2, <3>1, <3>2
  <2>5. Lexeme(pos + 2, spoken)
    BY <1>1, <2>2, <2>3, AsciiLexeme DEF spoken
  <2> QED
    BY <1>1, <2>4, <2>5, PushesPlainToken DEF TokenKinds
<1>3. CASE ~(Slice(pos, 2) \in TwoCharOperators \/ RemovedOperatorAt(pos))
  <2>1. Holds(pos, {"="}) /\ OperatorLength(pos) = 1
    BY <1>1, <1>3 DEF OperatorLength
  <2>2. source[pos] \notin HighBytes
    BY <2>1 DEF Holds, HighBytes
  <2>3. Lexeme(pos + 1, spoken)
    BY <1>1, <1>3, <2>2, AsciiLexeme DEF spoken
  <2> QED
    BY <1>1, <2>1, <2>3, PushesPlainToken DEF TokenKinds
<1> QED
  BY <1>2, <1>3

LEMMA PushesPunctuation == ASSUME Ready, LexPunctuation PROVE PushesToken
<1>1. CASE Holds(pos, {"{", "}", "(", ")", ","}) /\ PushToken("Punctuation", pos + 1, {})
  <2>0. pos <= Len(source) /\ source[pos] \notin HighBytes
    BY <1>1, Zenon DEF Holds, HighBytes
  <2>1. pos \in 1..Len(source) /\ source[pos] \notin HighBytes
    BY <2>0, FileShape DEF Ready, End
  <2> QED
    BY <1>1, <2>1, AsciiLexeme, PushesPlainToken DEF TokenKinds
<1>2. CASE Holds(pos, {"<", ">"}) /\ PushToken("Angle", pos + 1, {})
  <2>1. pos \in 1..Len(source) /\ source[pos] \notin HighBytes
    BY <1>2, FileShape DEF Ready, Holds, HighBytes, End
  <2> QED
    BY <1>2, <2>1, AsciiLexeme, PushesPlainToken DEF TokenKinds
<1>3. CASE Holds(pos, {"[", "]"}) /\ PushToken("Error", pos + 1, {Said("BracketOutside", pos, pos + 1)})
  <2>1. pos \in 1..Len(source) /\ source[pos] \notin HighBytes
    BY <1>3, FileShape DEF Ready, Holds, HighBytes, End
  <2>2. Lexeme(pos + 1, {Said("BracketOutside", pos, pos + 1)}) /\ ~StartsRun(pos)
    BY <2>1, AsciiLexeme
  <2>3. ErrorIsReported(pos + 1, {Said("BracketOutside", pos, pos + 1)})
    BY <2>1, <2>2 DEF ErrorIsReported
  <2> QED
    BY <1>3, <2>2, <2>3 DEF PushesToken, TokenKinds
<1> QED
  BY <1>1, <1>2, <1>3 DEF LexPunctuation

LEMMA PushesNumber == ASSUME Ready, LexNumber PROVE PushesToken
<1> DEFINE whole == IF source[pos] = "-" THEN pos + 1 ELSE pos
           dot == Past(whole, Digits)
           end == Past(dot + 1, Digits)
           range == IF dot - whole > IntegerDigits THEN {Said("IntegerRange", pos, dot)} ELSE {}
           precise == Precision(pos, end - dot - 1, end)
           trails == {Said("NumberTrailingDot", pos, dot + 1)}
<1>1. NumberAt(pos)
  BY DEF LexNumber
<1>2. /\ ~Holds(dot, {"."}) => PushToken("Integer", dot, range)
      /\ Holds(dot, {"."}) /\ Holds(dot + 1, Digits) => PushToken("Decimal", end, precise)
      /\ Holds(dot, {"."}) /\ ~Holds(dot + 1, Digits) => PushToken("Decimal", dot + 1, trails)
  BY Zenon DEF LexNumber
<1>3. pos \in Nat /\ Len(source) \in Nat /\ End = Len(source) + 1 /\ IsFile /\ pos \in 1..End
  BY FileShape DEF Ready, End
<1>4. whole \in {pos, pos + 1} /\ whole \in 1..Len(source) /\ Holds(whole, Digits)
  BY <1>1, <1>3 DEF NumberAt, Holds, Digits
<1>5. Digits \cap HighBytes = {} /\ whole \in 1..End
  BY <1>3, <1>4 DEF Digits, HighBytes
<1> HIDE DEF whole
<1>6. dot \in (whole + 1)..End /\ Boundary(dot)
  BY <1>3, <1>4, <1>5, PastFrom
<1> HIDE DEF dot
<1>7. dot \in (pos + 1)..End /\ dot \in Nat
  BY <1>3, <1>4, <1>6
<1>8. CASE ~Holds(dot, {"."})
  <2>1. Within(range, pos, dot)
    BY <1>3, <1>7, SaysItself, SaysNothing
  <2> HIDE DEF range
  <2>2. Lexeme(dot, range)
    BY <1>6, <1>7, <2>1 DEF Lexeme
  <2> QED
    BY <1>2, <1>8, <2>2, PushesPlainToken DEF TokenKinds
<1>9. CASE Holds(dot, {"."})
  <2>1. dot \in 1..Len(source) /\ source[dot] \notin HighBytes
    BY <1>3, <1>7, <1>9 DEF Holds, HighBytes
  <2>2. end \in (dot + 1)..End /\ Boundary(end)
    BY <1>3, <1>5, <2>1, PastIsBoundary
  <2>3. Boundary(dot + 1)
    BY <1>3, <2>1, AfterAscii
  <2> HIDE DEF end
  <2>4. end \in Nat /\ end \in (pos + 1)..End /\ dot + 1 \in Nat /\ dot + 1 \in (pos + 1)..End
    BY <1>3, <1>7, <2>1, <2>2
  <2>5. CASE Holds(dot + 1, Digits)
    <3>1. Within(precise, pos, end)
      BY <1>3, <2>4, SaysItself, SaysNothing DEF Precision
    <3> HIDE DEF precise
    <3>2. Lexeme(end, precise)
      BY <2>2, <2>4, <3>1 DEF Lexeme
    <3> QED
      BY <1>2, <1>9, <2>5, <3>2, PushesPlainToken DEF TokenKinds
  <2>6. CASE ~Holds(dot + 1, Digits)
    <3>1. Within(trails, pos, dot + 1)
      BY <1>3, <2>4, SaysItself
    <3> HIDE DEF trails
    <3>2. Lexeme(dot + 1, trails)
      BY <2>3, <2>4, <3>1 DEF Lexeme
    <3> QED
      BY <1>2, <1>9, <2>6, <3>2, PushesPlainToken DEF TokenKinds
  <2> QED
    BY <2>5, <2>6
<1> QED
  BY <1>8, <1>9

LEMMA PushesLeadingDot == ASSUME Ready, LexLeadingDot PROVE PushesToken
<1> DEFINE end == Past(pos + 1, Digits)
<1>1. /\ pos \in 1..Len(source) /\ source[pos] = "." /\ pos \in Nat
      /\ PushToken("Decimal", end, {Said("DecimalLeadingDot", pos, end)})
  BY FileShape DEF LexLeadingDot, Ready, Holds, End
<1>2. Digits \cap HighBytes = {} /\ source[pos] \notin HighBytes
  BY <1>1 DEF Digits, HighBytes
<1>3. end \in (pos + 1)..End /\ Boundary(end)
  BY <1>1, <1>2, PastIsBoundary DEF Ready
<1> HIDE DEF end
<1>4. end \in Nat /\ pos <= end
  BY <1>1, <1>3, FileShape DEF Ready
<1>5. Within({Said("DecimalLeadingDot", pos, end)}, pos, end)
  BY <1>1, <1>4, SaysItself
<1>6. Lexeme(end, {Said("DecimalLeadingDot", pos, end)})
  BY <1>3, <1>5 DEF Lexeme
<1> QED
  BY <1>1, <1>6, PushesPlainToken DEF TokenKinds

LEMMA PushesIdentifier == ASSUME Ready, LexIdentifier PROVE PushesToken
<1> DEFINE end == Past(pos, IdentContinue)
           spoken == IF Slice(pos, end - pos) = <<"t">> THEN {Said("ReservedWord", pos, end)} ELSE {}
<1>1. Holds(pos, IdentContinue) /\ PushToken("Identifier", end, spoken)
  BY DEF LexIdentifier, Holds, IdentContinue
<1>2. IdentContinue \cap HighBytes = {}
  BY DEF IdentContinue, IdentStart, Digits, HighBytes
<1>3. end \in (pos + 1)..End /\ Boundary(end) /\ pos \in 1..Len(source)
  BY <1>1, <1>2, PastFrom DEF Ready
<1> HIDE DEF end
<1>4. end \in Nat /\ pos \in Nat /\ pos <= end
  BY <1>3, FileShape DEF Ready
<1>5. Within(spoken, pos, end)
  BY <1>4, SaysItself, SaysNothing
<1> HIDE DEF spoken
<1>6. Lexeme(end, spoken)
  BY <1>3, <1>5 DEF Lexeme
<1> QED
  BY <1>1, <1>6, PushesPlainToken DEF TokenKinds

\* A byte no token starts with: a run, an operator of some other language, or a
\* character.
LEMMA PushesBadCharacter == ASSUME Ready, LexBadCharacter PROVE PushesToken
<1> DEFINE end == BadCharacterEnd(pos)
           spoken == IF Malformed(pos) THEN {} ELSE {Said("BadChar", pos, end)}
<1>1. pos \in 1..Len(source) /\ pos \in Nat /\ PushToken("Error", end, spoken)
  BY FileShape DEF LexBadCharacter, Ready, End
<1>2. Lexeme(end, spoken) /\ ErrorIsReported(end, spoken)
  <2>1. CASE Malformed(pos)
    <3>1. end = PastMalformed(pos) /\ spoken = {}
      BY <2>1 DEF BadCharacterEnd
    <3>2. end \in (pos + 1)..End /\ Boundary(end)
      BY <1>1, <3>1, PastMalformedBounds, AfterRun DEF Ready
    <3> HIDE DEF end, spoken
    <3> QED
      BY <2>1, <3>1, <3>2, SaysNothing DEF Lexeme, ErrorIsReported
  <2>2. CASE ~Malformed(pos) /\ Slice(pos, 2) \in ReservedOperators
    <3>1. end = pos + 2 /\ spoken = {Said("BadChar", pos, pos + 2)}
      BY <2>2 DEF BadCharacterEnd
    <3>2. \E a \in {"*", "/", ":", "-"}, b \in {"=", ":", ">"} : Slice(pos, 2) = <<a, b>>
      BY <2>2 DEF ReservedOperators
    <3>3. source[pos] \in {"*", "/", ":", "-"} /\ Holds(pos + 1, {"=", ":", ">"})
      BY <1>1, <3>2, SliceOfTwo DEF Ready, Holds
    <3>4. source[pos] \notin HighBytes
      BY <3>3 DEF HighBytes
    <3>5. Lexeme(pos + 2, spoken) /\ ~StartsRun(pos) /\ ~StartsRun(pos + 1)
      BY <1>1, <3>1, <3>3, <3>4, AsciiLexeme
    <3>6. \A k \in pos..(pos + 2 - 1) : k = pos \/ k = pos + 1
      BY <1>1
    <3> HIDE DEF end, spoken
    <3>7. \A k \in pos..(end - 1) : ~StartsRun(k)
      BY <1>1, <3>1, <3>5, <3>6
    <3>8. Lexeme(end, spoken) /\ spoken = {Said("BadChar", pos, end)}
      BY <3>1, <3>5
    <3> QED
      BY <3>7, <3>8, Zenon DEF ErrorIsReported
  <2>3. CASE ~Malformed(pos) /\ Slice(pos, 2) \notin ReservedOperators
    <3>1. end = pos + DecodedLength(pos) /\ spoken = {Said("BadChar", pos, end)}
      BY <2>3 DEF BadCharacterEnd
    <3>2. Lexeme(end, spoken)
      BY <1>1, <2>3, <3>1, CharacterLexeme
    <3>3. Decodes(pos) /\ DecodedLength(pos) = Needed(source[pos])
      BY <1>1, <2>3, WellFormedDecodes DEF Ready
    <3> HIDE DEF end, spoken
    <3>4. ASSUME NEW k \in pos..(end - 1)
          PROVE  ~StartsRun(k)
      <4>1. CASE k = pos
        BY <2>3, <4>1 DEF StartsRun
      <4>2. CASE k # pos
        <5>1. DecodedLength(pos) \in 1..3
          BY <1>1, DecodedBounds DEF Ready
        <5>2. pos < k /\ k < pos + Needed(source[pos])
          <6>1. k \in pos..(pos + DecodedLength(pos) - 1)
            BY <1>1, <3>1, <5>1
          <6> QED
            BY <1>1, <3>3, <4>2, <5>1, <6>1
        <5> QED
          BY <1>1, <3>3, <5>2 DEF StartsRun, Inside
      <4> QED
        BY <4>1, <4>2
    <3> QED
      BY <3>1, <3>2, <3>4 DEF ErrorIsReported
  <2> QED
    BY <2>1, <2>2, <2>3
<1> HIDE DEF end, spoken
<1> QED
  BY <1>1, <1>2 DEF PushesToken, TokenKinds

LEMMA PushesEndOfFile == ASSUME Ready, LexEndOfFile PROVE PushesToken
<1>1. pos = End /\ PushToken("EndOfFile", pos, {})
  BY FileShape DEF LexEndOfFile, Ready, End
<1> QED
  BY <1>1 DEF PushesToken, TokenKinds

\* Each step pushes a piece of trivia or a token.
LEMMA EachStepPushes == ASSUME Ready, LexerNext PROVE PushesTrivia \/ PushesToken
BY PushesMark, PushesWhitespace, PushesComment, PushesUnicodeWhitespace, PushesString, PushesSigil,
   PushesOperator, PushesPunctuation, PushesNumber, PushesLeadingDot, PushesIdentifier,
   PushesBadCharacter, PushesEndOfFile DEF LexerNext

-----------------------------------------------------------------------------
(* The invariant *)

TriviaPieces == [kind : TriviaKinds, from : Nat, to : Nat]
Tokens == [kind : TokenKinds, from : Nat, to : Nat, first : Nat, count : Nat]

LexerTypes ==
  /\ IsFile
  /\ pos \in 1..End
  /\ trivia \in Seq(TriviaPieces)
  /\ tokens \in Seq(Tokens)
  /\ consumed \in 0..Len(trivia)

\* The pieces a..b, each where the one before it ends and none empty, reach from
\* `start` to `end`.
Fills(run, a, b, start, end) ==
  IF b < a THEN start = end
  ELSE /\ run[a].from = start /\ run[b].to = end
       /\ \A k \in a..b : run[k].from < run[k].to
       /\ \A k \in (a + 1)..b : run[k].from = run[k - 1].to

Gap(i) == IF i = 1 THEN 1 ELSE tokens[i - 1].to

\* A token's own trivia reaches from the token before it to itself; the pieces
\* that wait for the next token, from the last one to where the lexer is.
Tiled(i) ==
  /\ tokens[i].first >= 1 /\ tokens[i].first + tokens[i].count - 1 <= Len(trivia)
  /\ Fills(trivia, tokens[i].first, tokens[i].first + tokens[i].count - 1, Gap(i), tokens[i].from)
  /\ tokens[i].to <= pos
  /\ tokens[i].kind # "EndOfFile" => tokens[i].from < tokens[i].to
  /\ tokens[i].kind = "EndOfFile" => /\ i = Len(tokens) /\ consumed = Len(trivia)
                                     /\ tokens[i].from = tokens[i].to /\ tokens[i].to = End
Waiting == Fills(trivia, consumed + 1, Len(trivia), Gap(Len(tokens) + 1), pos)

\* What is reported is a run, every one of them from the start, or lies behind the
\* lexer.
ReportsKnown ==
  /\ \A r \in reports : /\ r.from \in Nat /\ r.to \in Nat
                        /\ r.to <= pos \/ \E i \in RunStarts : r = Run(i)
  /\ \A i \in RunStarts : Run(i) \in reports

LexerInvariant ==
  /\ LexerTypes
  /\ Boundary(pos)
  /\ \A i \in 1..Len(tokens) : Tiled(i)
  /\ Waiting
  /\ ReportsKnown
  /\ MalformedRunsAgree
  /\ EscapesAgree

\* A file's bytes decide what the lexer's functions of them are.
LEMMA SourceDecides ==
  ASSUME source' = source
  PROVE  /\ IsFile' <=> IsFile
         /\ End' = End
         /\ RunStarts' = RunStarts
         /\ \A i : Run(i)' = Run(i)
         /\ \A t : Decoded(t)' = Decoded(t)
<1>1. RunStarts' = RunStarts
  BY DEF RunStarts, StartsRun, Malformed, Inside, Decodes, Holds, Needed
<1>2. \A i : Run(i)' = Run(i)
  BY DEF Run, PastMalformed, Malformed, Decodes, Holds, Needed
<1>3. \A t : Decoded(t)' = Decoded(t)
  BY DEF Decoded, InteriorEnd, IsHexQuad, Min2
<1> QED
  BY <1>1, <1>2, <1>3 DEF IsFile, End

LEMMA BoundaryStays ==
  ASSUME source' = source, NEW end, pos' = end, Boundary(end)
  PROVE  Boundary(pos)'
BY DEF Boundary, StartsRun, Malformed, Inside, Decodes, Holds, Needed

LEMMA FillsKept ==
  ASSUME NEW S, NEW run \in Seq(S), NEW x, NEW a \in Nat \ {0}, NEW b \in Int, b <= Len(run),
         NEW start, NEW end, Fills(run, a, b, start, end)
  PROVE  Fills(Append(run, x), a, b, start, end)
BY DEF Fills

LEMMA FillsMore ==
  ASSUME NEW run \in Seq(TriviaPieces), NEW x \in TriviaPieces, NEW a \in 1..(Len(run) + 1),
         NEW start \in Nat, NEW middle \in Nat, NEW end \in Nat, middle < end, x.from = middle, x.to = end,
         Fills(run, a, Len(run), start, middle)
  PROVE  Fills(Append(run, x), a, Len(run) + 1, start, end)
<1> DEFINE more == Append(run, x)
<1>1. /\ \A k \in 1..Len(run) : more[k] = run[k]
      /\ more[Len(run) + 1] = x /\ Len(run) \in Nat /\ a \in Nat
  OBVIOUS
<1> HIDE DEF more
<1>2. CASE a = Len(run) + 1
  <2>1. start = middle
    BY <1>1, <1>2 DEF Fills
  <2>2. \A k \in a..(Len(run) + 1) : k = a
    BY <1>1, <1>2
  <2>3. (a + 1)..(Len(run) + 1) = {}
    BY <1>1, <1>2
  <2> QED
    BY <1>1, <1>2, <2>1, <2>2, <2>3 DEF Fills, more
<1>3. CASE a # Len(run) + 1
  <2>1. /\ ~(Len(run) < a) /\ ~(Len(run) + 1 < a) /\ a \in 1..Len(run) /\ Len(run) \in 1..Len(run)
    BY <1>1, <1>3
  <2>2. /\ run[a].from = start /\ run[Len(run)].to = middle
        /\ \A k \in a..Len(run) : run[k].from < run[k].to
        /\ \A k \in (a + 1)..Len(run) : run[k].from = run[k - 1].to
    BY <2>1 DEF Fills
  <2>3. ASSUME NEW k \in a..(Len(run) + 1)
        PROVE  more[k].from < more[k].to /\ (k # a => more[k].from = more[k - 1].to)
    <3>1. CASE k = Len(run) + 1
      <4>1. k - 1 = Len(run)
        BY <1>1, <3>1
      <4> QED
        BY <1>1, <2>1, <2>2, <3>1, <4>1
    <3>2. CASE k # Len(run) + 1
      <4>1. k \in 1..Len(run) /\ k \in a..Len(run)
        BY <1>1, <3>2
      <4>2. k # a => k - 1 \in 1..Len(run) /\ k \in (a + 1)..Len(run)
        BY <1>1, <4>1
      <4> QED
        BY <1>1, <2>2, <4>1, <4>2
    <3> QED
      BY <3>1, <3>2
  <2>4. more[a].from = start /\ more[Len(run) + 1].to = end
    BY <1>1, <2>1, <2>2
  <2>5. \A k \in (a + 1)..(Len(run) + 1) : k \in a..(Len(run) + 1) /\ k # a
    BY <1>1
  <2> QED
    BY <2>1, <2>3, <2>4, <2>5 DEF Fills, more
<1> QED
  BY <1>2, <1>3

\* Before the end of the file no token is the end of the file.
LEMMA NotYetLexed ==
  ASSUME LexerInvariant, ~Lexed, NEW i \in 1..Len(tokens)
  PROVE  /\ tokens[i] \in Tokens /\ tokens[i].kind # "EndOfFile"
         /\ tokens[i].from < tokens[i].to /\ tokens[i].to <= pos
<1>1. tokens[i] \in Tokens
  BY DEF LexerInvariant, LexerTypes
<1>2. Tiled(i)
  BY DEF LexerInvariant
<1>3. tokens[i].kind # "EndOfFile"
  <2>1. tokens \in Seq(Tokens)
    BY DEF LexerInvariant, LexerTypes
  <2> QED
    BY <1>2, <2>1 DEF Tiled, Lexed
<1> QED
  BY <1>1, <1>2, <1>3 DEF Tiled

LEMMA RunShape ==
  ASSUME IsFile, NEW i \in RunStarts
  PROVE  /\ Run(i).from = i /\ Run(i).to = PastMalformed(i) /\ i \in 1..Len(source) /\ i \in Nat
         /\ PastMalformed(i) \in (i + 1)..End /\ PastMalformed(i) \in Nat
         /\ StartsRun(i) /\ Malformed(i) /\ ~Inside(i)
<1>1. i \in 1..Len(source) /\ StartsRun(i)
  BY DEF RunStarts
<1>2. PastMalformed(i) \in (i + 1)..End
  BY <1>1, PastMalformedBounds
<1> QED
  BY <1>1, <1>2, FileShape DEF Run, Said, StartsRun

\* What a step reports.
LEMMA ReportsStep ==
  ASSUME LexerInvariant, NEW end, NEW spoken, end \in pos..End, Within(spoken, pos, end),
         source' = source, pos' = end, reports' = reports \cup spoken
  PROVE  ReportsKnown'
<1>1. RunStarts' = RunStarts /\ \A i : Run(i)' = Run(i)
  BY SourceDecides
<1>2. IsFile /\ pos \in Nat /\ end \in Nat /\ pos <= end
  BY FileShape DEF LexerInvariant, LexerTypes
<1>3. ASSUME NEW r \in reports \cup spoken
      PROVE  /\ r.from \in Nat /\ r.to \in Nat
             /\ r.to <= end \/ \E i \in RunStarts : r = Run(i)
  <2>1. CASE r \in reports
    <3>1. /\ r.from \in Nat /\ r.to \in Nat
          /\ r.to <= pos \/ \E i \in RunStarts : r = Run(i)
      BY <2>1 DEF LexerInvariant, ReportsKnown
    <3> QED
      BY <1>2, <3>1
  <2>2. CASE r \in spoken
    BY <2>2 DEF Within
  <2> QED
    BY <2>1, <2>2
<1>4. \A i \in RunStarts : Run(i) \in reports
  BY DEF LexerInvariant, ReportsKnown
<1> QED
  BY <1>1, <1>3, <1>4 DEF ReportsKnown

\* The tokens there are stay tiled while trivia and tokens are appended.
LEMMA TiledStep ==
  ASSUME LexerInvariant, ~Lexed, NEW end, end \in pos..End, source' = source, pos' = end,
         trivia' = trivia \/ (\E x : trivia' = Append(trivia, x)),
         tokens' = tokens \/ (\E t : tokens' = Append(tokens, t)),
         NEW i \in 1..Len(tokens)
  PROVE  Tiled(i)' /\ tokens'[i] = tokens[i]
<1>0. /\ tokens \in Seq(Tokens) /\ trivia \in Seq(TriviaPieces) /\ IsFile
      /\ pos \in Nat /\ end \in Nat /\ pos <= end
  BY FileShape DEF LexerInvariant, LexerTypes
<1>1. \A k \in 1..Len(tokens) : tokens'[k] = tokens[k]
  BY <1>0
<1>2. Gap(i)' = Gap(i)
  <2>1. i # 1 => i - 1 \in 1..Len(tokens)
    BY <1>0
  <2> QED
    BY <1>1, <2>1 DEF Gap
<1>3. Tiled(i)
  BY DEF LexerInvariant
<1>4. /\ tokens[i] \in Tokens /\ tokens[i].kind # "EndOfFile"
      /\ tokens[i].from < tokens[i].to /\ tokens[i].to <= pos
  BY NotYetLexed
<1> DEFINE a == tokens[i].first
           b == tokens[i].first + tokens[i].count - 1
<1>5. a \in Nat \ {0} /\ b \in Int /\ b <= Len(trivia) /\ Fills(trivia, a, b, Gap(i), tokens[i].from)
  BY <1>3, <1>4 DEF Tiled, Tokens
<1>6. Fills(trivia', a, b, Gap(i), tokens[i].from) /\ b <= Len(trivia')
  <2> HIDE DEF a, b
  <2>1. CASE trivia' = trivia
    BY <1>5, <2>1
  <2>2. CASE \E x : trivia' = Append(trivia, x)
    <3>1. PICK x : trivia' = Append(trivia, x)
      BY <2>2
    <3>2. Fills(Append(trivia, x), a, b, Gap(i), tokens[i].from)
      BY <1>0, <1>5, FillsKept
    <3>3. Len(Append(trivia, x)) = Len(trivia) + 1 /\ Len(trivia) \in Nat
      BY <1>0
    <3> QED
      BY <1>5, <3>1, <3>2, <3>3
  <2> QED
    BY <2>1, <2>2
<1>7. tokens[i].to <= end
  BY <1>0, <1>4 DEF Tokens
<1>8. tokens'[i] = tokens[i]
  BY <1>1
<1> QED
  BY <1>2, <1>4, <1>5, <1>6, <1>7, <1>8 DEF Tiled, Fills

\* A report under an error token is the token.
LEMMA NewErrorAgrees ==
  ASSUME LexerInvariant, NEW end, NEW spoken, Lexeme(end, spoken), ErrorIsReported(end, spoken)
  PROVE  /\ \E r \in reports \cup spoken : r.from = pos /\ r.to = end
         /\ \A r \in reports \cup spoken : r.from < end /\ pos < r.to => r.from = pos /\ r.to = end
<1>0. /\ IsFile /\ pos \in Nat /\ end \in (pos + 1)..End /\ end \in Nat /\ Boundary(pos)
      /\ End = Len(source) + 1 /\ Len(source) \in Nat /\ pos \in 1..Len(source)
  BY FileShape DEF LexerInvariant, LexerTypes, Lexeme, End
<1>1. ASSUME NEW r \in reports, r.from < end, pos < r.to
      PROVE  \E i \in RunStarts : r = Run(i) /\ i < end /\ pos < PastMalformed(i)
  <2>1. r.to \in Nat /\ (r.to <= pos \/ \E i \in RunStarts : r = Run(i))
    BY DEF LexerInvariant, ReportsKnown
  <2>2. PICK i \in RunStarts : r = Run(i)
    BY <1>0, <1>1, <2>1
  <2> QED
    BY <1>0, <1>1, <2>2, RunShape
<1>2. CASE Malformed(pos) /\ end = PastMalformed(pos) /\ spoken = {}
  <2>1. pos \in RunStarts /\ ~Inside(pos) /\ StartsRun(pos)
    BY <1>0, <1>2 DEF Boundary, RunStarts
  <2>2. Run(pos) \in reports /\ Run(pos).from = pos /\ Run(pos).to = end
    BY <1>0, <1>2, <2>1, RunShape DEF LexerInvariant, ReportsKnown
  <2>3. ASSUME NEW i \in RunStarts, i < end, pos < PastMalformed(i)  PROVE i = pos
    <3>1. i \in 1..Len(source) /\ StartsRun(i) /\ Malformed(i) /\ ~Inside(i)
      BY <1>0, RunShape
    <3>2. ~(i < pos)
      BY <1>0, <2>1, <2>3, <3>1, RunHasOneStart
    <3>3. ~(pos < i)
      BY <1>0, <1>2, <2>1, <2>3, <3>1, RunHasOneStart
    <3> QED
      BY <1>0, <3>1, <3>2, <3>3
  <2> QED
    BY <1>1, <1>2, <2>2, <2>3
<1>3. CASE (\A k \in pos..(end - 1) : ~StartsRun(k)) /\ \E code : spoken = {Said(code, pos, end)}
  <2>1. PICK code : spoken = {Said(code, pos, end)}
    BY <1>3
  <2>2. \A r \in spoken : r.from = pos /\ r.to = end
    BY <2>1 DEF Said
  <2>3. ASSUME NEW i \in RunStarts, i < end, pos < PastMalformed(i)  PROVE FALSE
    <3>1. /\ i \in 1..Len(source) /\ StartsRun(i) /\ Malformed(i) /\ ~Inside(i)
          /\ PastMalformed(i) \in (i + 1)..End
      BY <1>0, RunShape
    <3>2. CASE i < pos
      <4>1. ~StartsRun(pos)
        BY <1>0, <2>3, <3>1, <3>2, RunHasOneStart
      <4>2. Malformed(pos)
        <5>1. \A k \in (i + 1)..(PastMalformed(i) - 1) : Malformed(k)
          BY <1>0, <3>1, PastMalformedBounds
        <5> QED
          BY <1>0, <2>3, <3>1, <3>2, <5>1
      <4> QED
        BY <1>0, <4>1, <4>2 DEF Boundary
    <3>3. CASE ~(i < pos)
      <4>1. i \in pos..(end - 1)
        BY <1>0, <2>3, <3>1, <3>3
      <4> QED
        BY <1>3, <3>1, <4>1
    <3> QED
      BY <3>2, <3>3
  <2>4. spoken # {}
    BY <2>1
  <2> QED
    BY <1>1, <2>2, <2>3, <2>4
<1> QED
  BY <1>2, <1>3 DEF ErrorIsReported

\* What EscapesAgree says of a token.
ClosesSilently(t, said) ==
  t.kind = "String" /\ ~(\E r \in said : r.from = t.from /\ r.code \in {"StringUnterminated", "StringMultiline"})
CutAlike(t, said) ==
  \A j \in (t.from + 1)..(t.to - 2) :
    /\ source[j] = "\"" => <<j - 1, j + 1>> \in Decoded(t)
    /\ source[j] = "\\" /\ <<j, j + 1>> \in Decoded(t) => \E r \in said : r.code = "StringEscape" /\ r.from = j

LEMMA EscapesAgreeIs ==
  EscapesAgree <=> \A i \in 1..Len(tokens) : ClosesSilently(tokens[i], reports) => CutAlike(tokens[i], reports)
BY Zenon DEF EscapesAgree, ClosesSilently, CutAlike

LEMMA CutAlikeGrows ==
  ASSUME NEW t, NEW said, NEW more, said \subseteq more, ClosesSilently(t, said) => CutAlike(t, said),
         ClosesSilently(t, more)
  PROVE  CutAlike(t, more)
BY Zenon DEF ClosesSilently, CutAlike

LEMMA NewStringAgrees ==
  ASSUME IsFile, NEW start \in 1..Len(source), NEW t,
         t.from = start, t.to = StringAt(start).to,
         NEW said, StringAt(start).said \subseteq said, ClosesSilently(t, said)
  PROVE  CutAlike(t, said)
<1>0. Len(source) \in Nat /\ End = Len(source) + 1
  BY FileShape DEF End
<1>1. PICK end \in Cuts(start) :
        /\ StringStops(end)
        /\ StringAt(start) =
             IF AtQuote(end) THEN [to |-> end + 1, said |-> EscapeReports(start)]
             ELSE [to |-> end,
                   said |-> EscapeReports(start) \cup
                            {Said(IF end > Len(source) THEN "StringUnterminated"
                                  ELSE "StringMultiline", start, end)}]
  BY StringAtIs
<1>2. end \in (start + 1)..End
  BY CutsShape
<1>3. AtQuote(end)
  <2> SUFFICES ASSUME ~AtQuote(end)  PROVE FALSE
    OBVIOUS
  <2>1. PICK code \in {"StringUnterminated", "StringMultiline"} : Said(code, start, end) \in StringAt(start).said
    BY <1>1
  <2>2. Said(code, start, end) \in said /\ Said(code, start, end).from = start /\ Said(code, start, end).code = code
    BY <2>1 DEF Said
  <2> QED
    BY <2>1, <2>2 DEF ClosesSilently
<1>4. t.to = end + 1 /\ EscapeReports(start) \subseteq said /\ end \in 1..Len(source) /\ end \in Nat
  BY <1>0, <1>1, <1>2, <1>3, QuoteByte
<1>5. source[end] = "\""
  BY <1>3, Zenon DEF AtQuote, Holds
<1>6. InteriorEnd(t) = end
  <2>1. t.to - t.from > 1 /\ t.to - 1 = end
    BY <1>0, <1>2, <1>4
  <2> QED
    BY <1>5, <2>1, Zenon DEF InteriorEnd
<1>7. start + 1 \in 1..end
  BY <1>0, <1>2
<1>8. Decoded(t) = {<<i, i + TextStep(i, end)>> : i \in TextCuts(start, end) \ {end}}
  BY <1>4, <1>6, <1>7, DecodedIs
<1>9. ASSUME NEW j \in (start + 1)..(end - 1)
      PROVE  /\ source[j] = "\"" => <<j - 1, j + 1>> \in Decoded(t)
             /\ source[j] = "\\" /\ <<j, j + 1>> \in Decoded(t)
                  => \E r \in said : r.code = "StringEscape" /\ r.from = j
  <2>0. j <= Len(source)
    BY <1>0, <1>4
  <2>1. /\ AtQuote(j) => <<j - 1, j + 1>> \in Decoded(t)
        /\ Backslash(j) /\ <<j, j + 1>> \in Decoded(t)
             => \E r \in EscapeReports(start) : r.code = "StringEscape" /\ r.from = j
    <3>1. \A m, n : <<m, n>> \in Decoded(t) <=> m \in TextCuts(start, end) \ {end} /\ n = m + TextStep(m, end)
      BY <1>8
    <3> QED
      BY <1>3, <3>1, LiteralReadTwice, Zenon
  <2>2. source[j] = "\"" => AtQuote(j)
    BY <2>0, Zenon DEF AtQuote, Holds
  <2>3. source[j] = "\\" => Backslash(j)
    BY DEF Backslash
  <2> QED
    BY <1>4, <2>1, <2>2, <2>3, Zenon
<1>10. \A j \in (t.from + 1)..(t.to - 2) : j \in (start + 1)..(end - 1)
  BY <1>4
<1> QED
  BY <1>9, <1>10, Zenon DEF CutAlike

LEMMA InvariantInit == LexerInit => LexerInvariant
<1> SUFFICES ASSUME LexerInit  PROVE LexerInvariant
  OBVIOUS
<1>1. IsFile
  BY SourcesAssumption DEF LexerInit, IsFile
<1>2. Len(source) \in Nat /\ 1 \in 1..End
  BY <1>1, FileShape DEF End
<1>3. trivia = <<>> /\ tokens = <<>> /\ consumed = 0 /\ pos = 1 /\ reports = {Run(i) : i \in RunStarts}
  BY <1>1, InvalidRunsAreRuns DEF LexerInit
<1>4. LexerTypes
  BY <1>1, <1>2, <1>3 DEF LexerTypes
<1>5. Boundary(1)
  BY <1>2, FileShape DEF Boundary, Inside, StartsRun
<1>6. Waiting
  BY <1>3 DEF Waiting, Fills, Gap
<1>7. ReportsKnown
  <2>1. \A i \in RunStarts : Run(i).from \in Nat /\ Run(i).to \in Nat
    BY <1>1, RunShape
  <2> QED
    BY <1>3, <2>1 DEF ReportsKnown
<1>8. Len(tokens) = 0
  BY <1>3
<1>9. 1..Len(tokens) = {}
  BY <1>8
<1>10. EscapesAgree /\ MalformedRunsAgree
  BY <1>9, Zenon DEF EscapesAgree, MalformedRunsAgree
<1> QED
  BY <1>3, <1>4, <1>5, <1>6, <1>7, <1>9, <1>10 DEF LexerInvariant

\* What two loops read alike stays alike: the tokens there are lie behind the
\* lexer, and what is reported from now on does not.
LEMMA OldTokensAgree ==
  ASSUME LexerInvariant, ~Lexed, NEW spoken, NEW end, Within(spoken, pos, end), NEW i \in 1..Len(tokens)
  PROVE  /\ tokens[i].kind = "Error" =>
              /\ \E r \in reports \cup spoken : r.from = tokens[i].from /\ r.to = tokens[i].to
              /\ \A r \in reports \cup spoken :
                   r.from < tokens[i].to /\ tokens[i].from < r.to => r.from = tokens[i].from /\ r.to = tokens[i].to
         /\ ClosesSilently(tokens[i], reports \cup spoken) => CutAlike(tokens[i], reports \cup spoken)
<1>0. tokens[i].to \in Nat /\ tokens[i].to <= pos /\ pos \in Nat
  <2>1. tokens \in Seq(Tokens) /\ pos \in 1..End /\ IsFile
    BY DEF LexerInvariant, LexerTypes
  <2>2. tokens[i] \in Tokens
    BY <2>1
  <2>3. tokens[i].to \in Nat
    BY <2>2 DEF Tokens
  <2>4. pos \in Nat
    BY <2>1, FileShape
  <2>5. tokens[i].to <= pos
    BY NotYetLexed
  <2> QED
    BY <2>3, <2>4, <2>5
<1>1. \A r \in spoken : ~(r.from < tokens[i].to)
  BY <1>0 DEF Within
<1>2. tokens[i].kind = "Error" =>
        /\ \E r \in reports : r.from = tokens[i].from /\ r.to = tokens[i].to
        /\ \A r \in reports :
             r.from < tokens[i].to /\ tokens[i].from < r.to => r.from = tokens[i].from /\ r.to = tokens[i].to
  BY DEF LexerInvariant, MalformedRunsAgree
<1>3. ClosesSilently(tokens[i], reports) => CutAlike(tokens[i], reports)
  BY EscapesAgreeIs DEF LexerInvariant
<1>4. ClosesSilently(tokens[i], reports \cup spoken) => CutAlike(tokens[i], reports \cup spoken)
  BY <1>3, CutAlikeGrows
<1> QED
  BY <1>1, <1>2, <1>4

LEMMA AgreementStep ==
  ASSUME source' = source, NEW said, reports' = said,
         \A i \in 1..Len(tokens') :
           /\ tokens'[i].kind = "Error" =>
                /\ \E r \in said : r.from = tokens'[i].from /\ r.to = tokens'[i].to
                /\ \A r \in said : r.from < tokens'[i].to /\ tokens'[i].from < r.to
                                     => r.from = tokens'[i].from /\ r.to = tokens'[i].to
           /\ ClosesSilently(tokens'[i], said) => CutAlike(tokens'[i], said)
  PROVE  MalformedRunsAgree' /\ EscapesAgree'
<1>1. MalformedRunsAgree'
  BY DEF MalformedRunsAgree
<1>2. \A t : Decoded(t)' = Decoded(t)
  BY SourceDecides
<1>3. EscapesAgree'
  BY <1>2, Zenon DEF EscapesAgree, ClosesSilently, CutAlike
<1> QED
  BY <1>1, <1>3

LEMMA GapIsNat ==
  ASSUME tokens \in Seq(Tokens), NEW i \in 1..(Len(tokens) + 1)
  PROVE  Gap(i) \in Nat
<1>1. i # 1 => i - 1 \in 1..Len(tokens)
  OBVIOUS
<1>2. \A k \in 1..Len(tokens) : tokens[k] \in Tokens
  OBVIOUS
<1>3. \A k \in 1..Len(tokens) : tokens[k].to \in Nat
  BY <1>2 DEF Tokens
<1> QED
  BY <1>1, <1>3 DEF Gap

LEMMA TriviaStep ==
  ASSUME LexerInvariant, ~Lexed, PushesTrivia
  PROVE  LexerInvariant'
<1>a. PICK kind \in TriviaKinds : \E end, spoken : PushTrivia(kind, end, spoken) /\ Lexeme(end, spoken)
  BY DEF PushesTrivia
<1>1. PICK end, spoken : PushTrivia(kind, end, spoken) /\ Lexeme(end, spoken)
  BY <1>a
<1> DEFINE x == [kind |-> kind, from |-> pos, to |-> end]
<1>2. /\ trivia' = Append(trivia, x) /\ pos' = end /\ reports' = reports \cup spoken
      /\ source' = source /\ tokens' = tokens /\ consumed' = consumed
  BY <1>1 DEF PushTrivia
<1>3. /\ end \in (pos + 1)..End /\ Boundary(end) /\ Within(spoken, pos, end)
      /\ pos \in Nat /\ end \in Nat /\ end \in pos..End /\ end \in 1..End /\ pos < end
  BY <1>1, FileShape DEF Lexeme, LexerInvariant, LexerTypes
<1>4. x \in TriviaPieces /\ x.from = pos /\ x.to = end
  BY <1>1, <1>3 DEF TriviaPieces
<1> HIDE DEF x
<1>5. /\ IsFile /\ trivia \in Seq(TriviaPieces) /\ tokens \in Seq(Tokens) /\ consumed \in 0..Len(trivia)
      /\ Len(trivia) \in Nat
  BY DEF LexerInvariant, LexerTypes
<1>6. Len(trivia') = Len(trivia) + 1 /\ trivia' \in Seq(TriviaPieces)
  BY <1>2, <1>4, <1>5
<1>7. LexerTypes'
  <2>1. IsFile' /\ End' = End
    BY <1>2, <1>5, SourceDecides
  <2> QED
    BY <1>2, <1>3, <1>5, <1>6, <2>1 DEF LexerTypes
<1>8. Boundary(pos)'
  BY <1>2, <1>3, BoundaryStays
<1>9. \A i \in 1..Len(tokens) : Tiled(i)' /\ tokens'[i] = tokens[i]
  BY <1>2, <1>3, TiledStep
<1>10. Waiting'
  <2> DEFINE g == Gap(Len(tokens) + 1)
  <2>1. Waiting
    BY DEF LexerInvariant
  <2>2. g \in Nat
    <3>1. Len(tokens) + 1 \in 1..(Len(tokens) + 1)
      BY <1>5
    <3> QED
      BY <1>5, <3>1, GapIsNat
  <2>3. Gap(Len(tokens) + 1)' = g
    BY <1>2 DEF Gap
  <2>4. consumed + 1 \in 1..(Len(trivia) + 1)
    BY <1>5
  <2>5. Fills(trivia, consumed + 1, Len(trivia), g, pos)
    BY <2>1 DEF Waiting
  <2> HIDE DEF g
  <2>6. Fills(Append(trivia, x), consumed + 1, Len(trivia) + 1, g, end)
    BY <1>3, <1>4, <1>5, <2>2, <2>4, <2>5, FillsMore
  <2> QED
    BY <1>2, <1>6, <2>3, <2>6 DEF Waiting, Fills
<1>11. ReportsKnown'
  BY <1>2, <1>3, ReportsStep
<1>12. MalformedRunsAgree' /\ EscapesAgree'
  <2> DEFINE said == reports \cup spoken
  <2>1. \A i \in 1..Len(tokens) :
           /\ tokens[i].kind = "Error" =>
                /\ \E r \in said : r.from = tokens[i].from /\ r.to = tokens[i].to
                /\ \A r \in said : r.from < tokens[i].to /\ tokens[i].from < r.to
                                     => r.from = tokens[i].from /\ r.to = tokens[i].to
           /\ ClosesSilently(tokens[i], said) => CutAlike(tokens[i], said)
    BY <1>3, OldTokensAgree
  <2>2. reports' = said /\ source' = source /\ tokens' = tokens
    BY <1>2
  <2> HIDE DEF said
  <2> QED
    BY <2>1, <2>2, AgreementStep
<1>13. (\A i \in 1..Len(tokens) : Tiled(i))'
  BY <1>2, <1>9
<1> QED
  BY <1>7, <1>8, <1>10, <1>11, <1>12, <1>13 DEF LexerInvariant

LEMMA TokenStep ==
  ASSUME LexerInvariant, ~Lexed, PushesToken
  PROVE  LexerInvariant'
<1>a. PICK kind \in TokenKinds : \E end, spoken :
        /\ PushToken(kind, end, spoken)
        /\ IF kind = "EndOfFile" THEN pos = End /\ end = pos /\ spoken = {} ELSE Lexeme(end, spoken)
        /\ kind = "Error" => ErrorIsReported(end, spoken)
        /\ kind = "String" => end = StringAt(pos).to /\ spoken = StringAt(pos).said
  BY DEF PushesToken
<1>1. PICK end, spoken :
        /\ PushToken(kind, end, spoken)
        /\ IF kind = "EndOfFile" THEN pos = End /\ end = pos /\ spoken = {} ELSE Lexeme(end, spoken)
        /\ kind = "Error" => ErrorIsReported(end, spoken)
        /\ kind = "String" => end = StringAt(pos).to /\ spoken = StringAt(pos).said
  BY <1>a
<1> DEFINE t == [kind |-> kind, from |-> pos, to |-> end, first |-> consumed + 1, count |-> Len(trivia) - consumed]
<1>0. PICK n : n = Len(tokens) + 1
  OBVIOUS
<1>2. /\ tokens' = Append(tokens, t) /\ pos' = end /\ reports' = reports \cup spoken
      /\ source' = source /\ trivia' = trivia /\ consumed' = Len(trivia)
  BY <1>1 DEF PushToken
<1>3. /\ IsFile /\ trivia \in Seq(TriviaPieces) /\ tokens \in Seq(Tokens) /\ consumed \in 0..Len(trivia)
      /\ Len(trivia) \in Nat /\ Boundary(pos) /\ pos \in 1..End /\ End \in Nat
      /\ End = Len(source) + 1 /\ Len(source) \in Nat
  BY FileShape DEF LexerInvariant, LexerTypes, End
<1>4. /\ Boundary(end) /\ Within(spoken, pos, end) /\ pos \in Nat /\ end \in Nat /\ end \in pos..End /\ end \in 1..End
      /\ kind # "EndOfFile" => pos < end /\ pos \in 1..Len(source)
  <2>1. CASE kind = "EndOfFile"
    <3>1. end = pos /\ spoken = {}
      BY <1>1, <2>1
    <3> QED
      BY <1>3, <2>1, <3>1, SaysNothing
  <2>2. CASE kind # "EndOfFile"
    <3>1. end \in (pos + 1)..End /\ Boundary(end) /\ Within(spoken, pos, end)
      BY <1>1, <2>2 DEF Lexeme
    <3> QED
      BY <1>3, <3>1
  <2> QED
    BY <2>1, <2>2
<1>5. /\ t \in Tokens /\ t.kind = kind /\ t.from = pos /\ t.to = end /\ t.first = consumed + 1
      /\ t.count = Len(trivia) - consumed
  BY <1>1, <1>3, <1>4 DEF Tokens
<1> HIDE DEF t
<1>6. /\ tokens' \in Seq(Tokens) /\ Len(tokens') = n /\ tokens'[n] = t /\ n \in Nat \ {0}
      /\ \A i \in 1..n : i # n => i \in 1..Len(tokens)
  BY <1>0, <1>2, <1>3, <1>5
<1>7. LexerTypes'
  <2>1. IsFile' /\ End' = End
    BY <1>2, <1>3, SourceDecides
  <2> QED
    BY <1>2, <1>3, <1>4, <1>6, <2>1 DEF LexerTypes
<1>8. Boundary(pos)'
  BY <1>2, <1>4, BoundaryStays
<1>9. \A i \in 1..Len(tokens) : Tiled(i)' /\ tokens'[i] = tokens[i]
  BY <1>2, <1>4, TiledStep
<1>10. Tiled(n)'
  <2>1. Waiting
    BY DEF LexerInvariant
  <2>2. Gap(n)' = Gap(n)
    <3>1. n # 1 => n - 1 \in 1..Len(tokens)
      BY <1>0, <1>3
    <3> QED
      BY <1>9, <3>1 DEF Gap
  <2>3. t.first + t.count - 1 = Len(trivia) /\ t.first >= 1
    BY <1>3, <1>5
  <2>4. Fills(trivia, t.first, t.first + t.count - 1, Gap(n), t.from)
    BY <1>0, <1>5, <2>1, <2>3 DEF Waiting
  <2>5. t.kind = "EndOfFile" => t.to = End' /\ t.from = t.to
    BY <1>1, <1>2, <1>5, SourceDecides
  <2>6. Fills(trivia', t.first, t.first + t.count - 1, Gap(n)', t.from)
    BY <1>2, <2>2, <2>4
  <2>7. t.first + t.count - 1 <= Len(trivia') /\ t.to <= pos'
    BY <1>2, <1>3, <1>4, <1>5, <2>3
  <2>8. t.kind # "EndOfFile" => t.from < t.to
    BY <1>4, <1>5
  <2>9. t.kind = "EndOfFile" => n = Len(tokens') /\ consumed' = Len(trivia')
    BY <1>2, <1>6
  <2>10. tokens'[n] = t
    BY <1>6
  <2> QED
    BY <2>3, <2>5, <2>6, <2>7, <2>8, <2>9, <2>10 DEF Tiled, Fills
<1>11. Waiting'
  <2>1. Gap(Len(tokens) + 1)' = end
    BY <1>0, <1>3, <1>5, <1>6 DEF Gap
  <2> QED
    BY <1>2, <1>3, <2>1 DEF Waiting, Fills
<1>12. ReportsKnown'
  BY <1>2, <1>4, ReportsStep
<1>13. MalformedRunsAgree' /\ EscapesAgree'
  <2> DEFINE said == reports \cup spoken
             Agrees(u) == /\ u.kind = "Error" =>
                               /\ \E r \in said : r.from = u.from /\ r.to = u.to
                               /\ \A r \in said : r.from < u.to /\ u.from < r.to
                                                    => r.from = u.from /\ r.to = u.to
                          /\ ClosesSilently(u, said) => CutAlike(u, said)
  <2>1. \A i \in 1..Len(tokens) : Agrees(tokens'[i])
    <3> TAKE i \in 1..Len(tokens)
    <3>1. Agrees(tokens[i])
      BY <1>4, OldTokensAgree
    <3> HIDE DEF Agrees
    <3> QED
      BY <1>9, <3>1
  <2>2. Agrees(t)
    <3>1. t.kind = "Error" => /\ \E r \in said : r.from = t.from /\ r.to = t.to
                              /\ \A r \in said : r.from < t.to /\ t.from < r.to => r.from = t.from /\ r.to = t.to
      BY <1>1, <1>5, NewErrorAgrees
    <3>2. ASSUME ClosesSilently(t, said)  PROVE CutAlike(t, said)
      <4>1. kind = "String"
        BY <1>5, <3>2 DEF ClosesSilently
      <4>2. end = StringAt(pos).to /\ StringAt(pos).said \subseteq said /\ pos \in 1..Len(source)
        BY <1>1, <1>4, <4>1
      <4> HIDE DEF said
      <4> QED
        BY <1>3, <1>5, <3>2, <4>2, NewStringAgrees
    <3> QED
      BY <3>1, <3>2
  <2> HIDE DEF Agrees
  <2>3. \A i \in 1..Len(tokens') : Agrees(tokens'[i])
    BY <1>6, <2>1, <2>2
  <2> HIDE DEF said
  <2> QED
    BY <1>2, <2>3, AgreementStep DEF Agrees, said
<1>14. (\A i \in 1..Len(tokens) : Tiled(i))'
  BY <1>6, <1>9, <1>10
<1> QED
  BY <1>7, <1>8, <1>11, <1>12, <1>13, <1>14 DEF LexerInvariant

LEMMA InvariantStep == LexerInvariant /\ [LexerNext]_lexing => LexerInvariant'
<1> SUFFICES ASSUME LexerInvariant, [LexerNext]_lexing  PROVE LexerInvariant'
  OBVIOUS
<1>1. CASE LexerNext
  <2>1. Ready /\ ~Lexed
    BY <1>1 DEF Ready, LexerInvariant, LexerTypes, LexerNext
  <2> QED
    BY <1>1, <2>1, EachStepPushes, TriviaStep, TokenStep
<1>2. CASE UNCHANGED lexing
  <2>1. /\ source' = source /\ pos' = pos /\ trivia' = trivia /\ tokens' = tokens
        /\ consumed' = consumed /\ reports' = reports
    BY <1>2 DEF lexing
  <2>2. IsFile /\ Boundary(pos) /\ pos \in 1..End
    BY DEF LexerInvariant, LexerTypes
  <2>3. End' = End /\ RunStarts' = RunStarts /\ (IsFile' <=> IsFile) /\ (\A i : Run(i)' = Run(i))
        /\ (\A t : Decoded(t)' = Decoded(t))
    BY <2>1, SourceDecides
  <2>4. Boundary(pos)'
    BY <2>1, <2>2, BoundaryStays
  <2>5. LexerTypes' /\ Waiting' /\ ReportsKnown'
    BY <2>1, <2>3 DEF LexerInvariant, LexerTypes, Waiting, Fills, Gap, ReportsKnown
  <2>6. (\A i \in 1..Len(tokens) : Tiled(i))'
    BY <2>1, <2>3 DEF LexerInvariant, Tiled, Fills, Gap
  <2>7. MalformedRunsAgree' /\ EscapesAgree'
    <3>1. MalformedRunsAgree /\ EscapesAgree
      BY DEF LexerInvariant
    <3>2. MalformedRunsAgree'
      BY <2>1, <3>1 DEF MalformedRunsAgree
    <3>3. EscapesAgree'
      BY <2>1, <2>3, <3>1, Zenon DEF EscapesAgree
    <3> QED
      BY <3>2, <3>3
  <2> QED
    BY <2>4, <2>5, <2>6, <2>7 DEF LexerInvariant
<1> QED
  BY <1>1, <1>2

LEMMA InvariantTiles == LexerInvariant => TokensTile
<1> SUFFICES ASSUME LexerInvariant, NEW i \in 1..Len(tokens)
             PROVE  LET t == tokens[i]
                        gap == IF i = 1 THEN 1 ELSE tokens[i - 1].to
                        run == SubSeq(trivia, t.first, t.first + t.count - 1)
                    IN /\ (t.to > t.from) <=> (t.kind # "EndOfFile")
                       /\ IF run = <<>> THEN t.from = gap
                          ELSE /\ run[1].from = gap /\ run[Len(run)].to = t.from
                               /\ \A k \in 1..Len(run) : run[k].to > run[k].from
                               /\ \A k \in 2..Len(run) : run[k].from = run[k - 1].to
                       /\ t.kind = "EndOfFile" => t.to = Len(source) + 1 /\ consumed = Len(trivia)
  BY DEF TokensTile
<1> DEFINE t == tokens[i]
           a == t.first
           b == t.first + t.count - 1
           run == SubSeq(trivia, a, b)
<1>1. Tiled(i) /\ t \in Tokens /\ trivia \in Seq(TriviaPieces) /\ Len(trivia) \in Nat
  BY DEF LexerInvariant, LexerTypes
<1>2. /\ a \in Nat \ {0} /\ b \in Int /\ b <= Len(trivia) /\ b >= a - 1
      /\ Fills(trivia, a, b, Gap(i), t.from)
      /\ t.from \in Nat /\ t.to \in Nat
  BY <1>1 DEF Tiled, Tokens
<1>3. (t.to > t.from) <=> (t.kind # "EndOfFile")
  BY <1>1, <1>2 DEF Tiled
<1>4. t.kind = "EndOfFile" => t.to = Len(source) + 1 /\ consumed = Len(trivia)
  BY <1>1 DEF Tiled, End
<1> HIDE DEF a, b
<1>5. Len(run) = b - a + 1 /\ \A k \in 1..Len(run) : run[k] = trivia[a + k - 1]
  BY <1>1, <1>2, SubSeqProperties
<1> HIDE DEF run
<1>6. CASE run = <<>>
  <2>1. b < a
    BY <1>2, <1>5, <1>6
  <2>2. t.from = Gap(i)
    BY <1>2, <2>1 DEF Fills
  <2> QED
    BY <1>3, <1>4, <1>6, <2>2 DEF Gap, run, a, b
<1>7. CASE run # <<>>
  <2>1. ~(b < a) /\ Len(run) \in Nat \ {0}
    <3>1. Len(run) # 0
      BY <1>1, <1>7, <1>2, SubSeqProperties, EmptySeq DEF run
    <3> QED
      BY <1>2, <1>5, <3>1
  <2>2. /\ trivia[a].from = Gap(i) /\ trivia[b].to = t.from
        /\ \A k \in a..b : trivia[k].from < trivia[k].to
        /\ \A k \in (a + 1)..b : trivia[k].from = trivia[k - 1].to
    BY <1>2, <2>1 DEF Fills
  <2>3. run[1] = trivia[a] /\ run[Len(run)] = trivia[b]
    BY <1>2, <1>5, <2>1
  <2>4. ASSUME NEW k \in 1..Len(run)
        PROVE  run[k].to > run[k].from /\ (k # 1 => run[k].from = run[k - 1].to)
    <3>1. a + k - 1 \in a..b /\ run[k] = trivia[a + k - 1]
      BY <1>2, <1>5, <2>1
    <3>2. trivia[a + k - 1] \in TriviaPieces
      BY <1>1, <1>2, <3>1
    <3>3. k # 1 => /\ a + k - 1 \in (a + 1)..b /\ k - 1 \in 1..Len(run)
                   /\ a + (k - 1) - 1 = (a + k - 1) - 1
      BY <1>2, <1>5, <2>1
    <3>4. k # 1 => run[k - 1] = trivia[(a + k - 1) - 1]
      BY <1>5, <3>3
    <3> QED
      BY <2>2, <3>1, <3>2, <3>3, <3>4 DEF TriviaPieces
  <2>5. \A k \in 2..Len(run) : k \in 1..Len(run) /\ k # 1
    BY <2>1
  <2> QED
    BY <1>3, <1>4, <1>7, <2>2, <2>3, <2>4, <2>5 DEF Gap, run, a, b
<1> QED
  BY <1>6, <1>7

\* A file of any bytes is tiled by its tokens and trivia, and what two loops of
\* the lexer read, they read alike: the malformed bytes and the escapes.
THEOREM LexerIsTotal == LexerInit /\ [][LexerNext]_lexing => [](TokensTile /\ ReadTwiceAlike)
<1>1. LexerInvariant => TokensTile /\ ReadTwiceAlike
  BY InvariantTiles DEF LexerInvariant, ReadTwiceAlike
<1> QED
  BY <1>1, InvariantInit, InvariantStep, PTL
=============================================================================
