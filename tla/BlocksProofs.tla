---------------------------- MODULE BlocksProofs ----------------------------
(***************************************************************************)
(* What holds of the checks of a file, for all registries and files.  The  *)
(* argument has three parts.                                               *)
(*   1. The agenda is a schedule and no more: what is ever called is due,  *)
(*      that is, at the end of a chain of calls that begins on the agenda, *)
(*      and the invariant `Going` says that every chain is either carried  *)
(*      out or still ahead.  When all calls have returned, the reports are *)
(*      therefore what the due tasks find.                                 *)
(*   2. Where a task stands: it reports at its place or one step below,    *)
(*      and calls there.  So what is reported of a block is what the tasks *)
(*      find that stand on it, below it, or share its place.               *)
(*   3. Each property then speaks of particular tasks.                     *)
(*      The last one needs two facts more: a place has one task of each    *)
(*      pass at most, and each slot of the file has one.                   *)
(***************************************************************************)
EXTENDS Meaning, PropertyLookupProofs

\* Lists, whatever is in them.
Elements(s) == {s[i] : i \in DOMAIN s}

LEMMA ListIs ==
  ASSUME NEW n \in Nat, NEW s, s = [i \in 1..n |-> s[i]]
  PROVE  IsList(s) /\ DOMAIN s = 1..n /\ Len(s) = n
<1>1. s \in [1..n -> {s[i] : i \in DOMAIN s}]
  BY SMT
<1> QED
  BY <1>1 DEF IsList

LEMMA ListHas ==
  ASSUME NEW s, IsList(s)
  PROVE  Len(s) \in Nat /\ DOMAIN s = 1..Len(s) /\ s = [i \in 1..Len(s) |-> s[i]]
BY DEF IsList

LEMMA SeqIsList ==
  ASSUME NEW S, NEW s \in Seq(S)
  PROVE  IsList(s)
<1>1. s = [i \in 1..Len(s) |-> s[i]] /\ Len(s) \in Nat
  OBVIOUS
<1> QED
  BY <1>1, ListIs

LEMMA ElementsOfJoin ==
  ASSUME NEW s, NEW u, IsList(s), IsList(u)
  PROVE  IsList(s \o u) /\ Elements(s \o u) = Elements(s) \cup Elements(u)
<1> DEFINE S == Elements(s) \cup Elements(u)
           m == Len(s)
           n == Len(u)
<1>1. s \in Seq(S) /\ u \in Seq(S)
  BY DEF IsList, Elements
<1>2. /\ m \in Nat /\ n \in Nat /\ DOMAIN s = 1..m /\ DOMAIN u = 1..n
      /\ Len(s \o u) = m + n /\ DOMAIN (s \o u) = 1..(m + n)
      /\ \A i \in 1..m : (s \o u)[i] = s[i]
      /\ \A i \in 1..n : (s \o u)[m + i] = u[i]
  BY <1>1
<1>3. IsList(s \o u)
  <2>1. s \o u \in Seq(S)
    BY <1>1
  <2> QED
    BY <2>1, SeqIsList
<1> HIDE DEF m, n
<1>4. /\ \A i \in 1..n : m + i \in 1..(m + n)
      /\ \A i \in 1..(m + n) : i \in 1..m \/ i - m \in 1..n
  BY <1>2
<1>5. \A x \in Elements(s) : x \in Elements(s \o u)
  BY <1>2 DEF Elements
<1>6. \A x \in Elements(u) : x \in Elements(s \o u)
  BY <1>2, <1>4 DEF Elements
<1>7. \A x \in Elements(s \o u) : x \in Elements(s) \cup Elements(u)
  <2> TAKE x \in Elements(s \o u)
  <2>1. PICK i \in 1..(m + n) : x = (s \o u)[i]
    BY <1>2 DEF Elements
  <2>2. CASE i \in 1..m
    BY <2>1, <2>2, <1>2 DEF Elements
  <2>3. CASE i - m \in 1..n
    <3>1. m + (i - m) = i
      BY <1>2
    <3> QED
      BY <2>1, <2>3, <3>1, <1>2 DEF Elements
  <2> QED
    BY <2>2, <2>3, <1>4
<1> QED
  BY <1>3, <1>5, <1>6, <1>7
LEMMA NoList == IsList(<<>>) /\ Elements(<<>>) = {}
BY DEF IsList, Elements

LEMMA LoneList ==
  ASSUME NEW x
  PROVE  IsList(<<x>>) /\ Elements(<<x>>) = {x}
<1>1. IsList(<<x>>)
  <2>1. <<x>> \in Seq({x})
    OBVIOUS
  <2> QED
    BY <2>1, SeqIsList
<1>2. Elements(<<x>>) = {x}
  BY DEF Elements
<1> QED
  BY <1>1, <1>2

LEMMA TailOfList ==
  ASSUME NEW s, IsList(s), s # <<>>
  PROVE  IsList(Tail(s)) /\ Elements(s) = {Head(s)} \cup Elements(Tail(s))
<1> DEFINE n == Len(s)
<1>1. /\ s \in Seq(Elements(s)) /\ n \in Nat /\ n # 0 /\ DOMAIN s = 1..n
      /\ Head(s) = s[1] /\ DOMAIN Tail(s) = 1..(n - 1)
      /\ \A i \in 1..(n - 1) : Tail(s)[i] = s[i + 1]
      /\ Tail(s) \in Seq(Elements(s))
  <2>1. s \in Seq(Elements(s))
    BY DEF IsList, Elements
  <2> HIDE DEF n
  <2> QED
    BY <2>1 DEF n
<1> HIDE DEF n
<1>2. ASSUME NEW x \in Elements(s)
      PROVE  x \in {Head(s)} \cup Elements(Tail(s))
  <2>1. PICK i \in 1..n : x = s[i]
    BY <1>1 DEF Elements
  <2>2. i = 1 \/ (i - 1 \in 1..(n - 1) /\ (i - 1) + 1 = i)
    BY <1>1
  <2> QED
    BY <2>1, <2>2, <1>1 DEF Elements
<1>3. ASSUME NEW x \in Elements(Tail(s))
      PROVE  x \in Elements(s)
  <2>1. PICK i \in 1..(n - 1) : x = s[i + 1]
    BY <1>1 DEF Elements
  <2>2. i + 1 \in 1..n
    BY <1>1
  <2> QED
    BY <2>1, <2>2, <1>1 DEF Elements
<1>4. 1 \in 1..n
  BY <1>1
<1> QED
  BY <1>1, <1>2, <1>3, <1>4, SeqIsList DEF Elements

LEMMA AppendIsJoin ==
  ASSUME NEW s, IsList(s), NEW x
  PROVE  Append(s, x) = s \o <<x>>
<1> DEFINE S == Elements(s) \cup {x}
<1>1. s \in Seq(S) /\ <<x>> \in Seq(S)
  <2>1. s \in Seq(Elements(s))
    BY DEF IsList, Elements
  <2> QED
    BY <2>1
<1>2. PICK a, b : a = Append(s, x) /\ b = s \o <<x>>
  OBVIOUS
<1>3. /\ a = [i \in 1..(Len(s) + 1) |-> a[i]]
      /\ b = [i \in 1..(Len(s) + 1) |-> b[i]]
      /\ \A i \in 1..(Len(s) + 1) : a[i] = b[i]
  <2> HIDE DEF S
  <2>1. /\ a \in Seq(S) /\ Len(a) = Len(s) + 1
        /\ b \in Seq(S) /\ Len(b) = Len(s) + 1
    BY <1>1, <1>2 DEF S
  <2>2. \A i \in 1..(Len(s) + 1) : a[i] = b[i]
    BY <1>1, <1>2
  <2> QED
    BY <2>1, <2>2
<1> QED
  BY <1>2, <1>3

LEMMA AppendToOne ==
  ASSUME NEW k, NEW l
  PROVE  Append(<<k>>, l) = <<k, l>>
<1>1. PICK a : a = Append(<<k>>, l)
  OBVIOUS
<1>2. <<k>> \in Seq({k, l}) /\ l \in {k, l}
  OBVIOUS
<1>3. a \in Seq({k, l}) /\ Len(a) = 2 /\ a[1] = k /\ a[2] = l
  BY <1>1, <1>2
<1>4. a = <<k, l>>
  BY <1>3
<1> QED
  BY <1>1, <1>4

-----------------------------------------------------------------------------
(* Annotations *)

\* A set of one position has one choice.
LEMMA LoneChoice ==
    ASSUME NEW i \in Int
    PROVE  Least({i}) = i /\ Greatest({i}) = i
BY DEF Least, Greatest

-----------------------------------------------------------------------------
(* One combination *)

\* The annotations that combine a value, and those that give it a priority.
Combiners(v) == {i \in DOMAIN v.notes : v.notes[i].name \in Combining}
Priorities(v) == {i \in DOMAIN v.notes :
                     /\ v.notes[i].name = "priority" /\ Len(v.notes[i].args) = 1
                     /\ v.notes[i].args[1].kind = "Integer"
                     /\ v.notes[i].args[1].number <= MaxPriority}

\* The positions of the annotations are numbers, counted from one.
NotesOf(v, n) == DOMAIN v.notes = 1..n

\* `w` is `v` with its annotations in another order.
Reordered(v, w, n, order) ==
    /\ NotesOf(v, n) /\ NotesOf(w, n)
    /\ order \in [1..n -> 1..n]
    /\ \A i, j \in 1..n : order[i] = order[j] => i = j
    /\ \A j \in 1..n : \E i \in 1..n : order[i] = j
    /\ \A i \in 1..n : w.notes[i] = v.notes[order[i]]
    /\ w.is = v.is
    /\ v.is = "block" => w.body = v.body /\ w.values = v.values

NoConflict(v, top, at) ==
    \A note \in CheckValueAnnotations(v, top, at) : note.code # "AnnotationConflict"

\* Of a value no conflict is reported of, one annotation combines it at most.
LEMMA OneCombiner ==
    ASSUME NEW v, NEW top, NEW at, NEW n \in Nat, NotesOf(v, n), NoConflict(v, top, at)
    PROVE  \A i, j \in Combiners(v) : i = j
<1> SUFFICES ASSUME NEW i \in Combiners(v), NEW j \in Combiners(v), i < j
             PROVE  FALSE
  BY DEF Combiners, NotesOf
<1> DEFINE named == {k \in DOMAIN v.notes : v.notes[k].name # ""}
           known == {k \in named : v.notes[k].name \in Kinds}
           combining == {k \in known : v.notes[k].name \in Combining}
           conflicts == {Note("AnnotationConflict", Append(at, k)) :
                            k \in {k \in combining : Conflicting(k, combining)}}
<1>1. i \in combining /\ j \in combining
  BY DEF Combiners, Combining, Kinds
<1>2. Conflicting(j, combining)
  BY <1>1 DEF Conflicting
<1>3. Note("AnnotationConflict", Append(at, j)) \in conflicts
  BY <1>1, <1>2
<1>4. conflicts \subseteq CheckValueAnnotations(v, top, at)
  <2> HIDE DEF conflicts
  <2> QED BY DEF CheckValueAnnotations, conflicts
<1> HIDE DEF conflicts
<1>5. Note("AnnotationConflict", Append(at, j)).code = "AnnotationConflict"
  BY DEF Note
<1> QED BY <1>3, <1>4, <1>5 DEF NoConflict

\* "A value carries one combination": annotations no conflict is reported of,
\* with one priority at most, mean the same combination in whatever order
\* they are written (spec 5.4), however many there are and whatever the key's
\* own mode.
THEOREM OrderNeverCombines ==
    ASSUME NEW v, NEW w, NEW n \in Nat, NEW order, Reordered(v, w, n, order),
           NEW top, NEW at, NoConflict(v, top, at),
           \A i, j \in 1..n : (v.notes[i].name = "priority" /\ v.notes[j].name = "priority") => i = j,
           NEW combine
    PROVE  CombinationOf(w, combine) = CombinationOf(v, combine)
<1>1. /\ Combiners(v) \in SUBSET (1..n) /\ Combiners(w) \in SUBSET (1..n)
      /\ Priorities(v) \in SUBSET (1..n) /\ Priorities(w) \in SUBSET (1..n)
  BY DEF Combiners, Priorities, Reordered, NotesOf
<1>2. \A i \in 1..n : /\ i \in Combiners(w) <=> order[i] \in Combiners(v)
                      /\ i \in Priorities(w) <=> order[i] \in Priorities(v)
  BY DEF Combiners, Priorities, Reordered, NotesOf
<1>3. /\ \A i, j \in Combiners(v) : i = j
      /\ \A i, j \in Priorities(v) : i = j
  <2>1. NotesOf(v, n)
    BY DEF Reordered
  <2> QED BY <1>1, <2>1, OneCombiner DEF Priorities
<1>4. ASSUME NEW S \in SUBSET (1..n), NEW T \in SUBSET (1..n),
             \A i \in 1..n : i \in T <=> order[i] \in S,
             \A i, j \in S : i = j
      PROVE  /\ S = {} <=> T = {}
             /\ T # {} => w.notes[Least(T)] = v.notes[Least(S)]
             /\ T # {} => w.notes[Greatest(T)] = v.notes[Greatest(S)]
  <2>1. S = {} <=> T = {}
    <3>1. ASSUME NEW s \in S PROVE T # {}
      <4>1. PICK i \in 1..n : order[i] = s
        BY DEF Reordered
      <4> QED BY <1>4, <4>1
    <3>2. ASSUME NEW t \in T PROVE S # {}
      BY <1>4
    <3> QED BY <3>1, <3>2
  <2>2. ASSUME NEW t \in T
        PROVE  /\ w.notes[Least(T)] = v.notes[Least(S)]
               /\ w.notes[Greatest(T)] = v.notes[Greatest(S)]
    <3>1. order[t] \in S /\ t \in 1..n /\ order[t] \in 1..n
      BY <1>4, <2>2 DEF Reordered
    <3>2. S = {order[t]}
      BY <1>4, <3>1
    <3>3. ASSUME NEW u \in T PROVE u = t
      <4>1. order[u] \in S /\ u \in 1..n
        BY <1>4
      <4>2. order[u] = order[t]
        BY <1>4, <3>1, <4>1
      <4> QED BY <3>1, <4>1, <4>2 DEF Reordered
    <3>4. T = {t}
      BY <3>3
    <3>5. /\ Least(T) = t /\ Greatest(T) = t
          /\ Least(S) = order[t] /\ Greatest(S) = order[t]
      <4>1. Least({t}) = t /\ Greatest({t}) = t
        BY <3>1, LoneChoice
      <4>2. Least({order[t]}) = order[t] /\ Greatest({order[t]}) = order[t]
        BY <3>1, LoneChoice, SMTT(30)
      <4> QED BY <3>2, <3>4, <4>1, <4>2, Zenon
    <3> QED BY <3>1, <3>5 DEF Reordered
  <2> QED BY <2>1, <2>2
<1>5. /\ Combiners(v) = {} <=> Combiners(w) = {}
      /\ Combiners(w) # {} => w.notes[Least(Combiners(w))] = v.notes[Least(Combiners(v))]
  BY <1>1, <1>2, <1>3, <1>4
<1>6. /\ Priorities(v) = {} <=> Priorities(w) = {}
      /\ Priorities(w) # {} => w.notes[Greatest(Priorities(w))] = v.notes[Greatest(Priorities(v))]
  BY <1>1, <1>2, <1>3, <1>4
<1>7. DefaultMode(w, combine) = DefaultMode(v, combine)
  BY DEF Reordered, DefaultMode
<1>8. ASSUME NEW u
      PROVE  CombinationOf(u, combine) =
                Combination(IF Combiners(u) = {} THEN DefaultMode(u, combine)
                            ELSE u.notes[Least(Combiners(u))].name,
                            IF Priorities(u) = {} THEN 0
                            ELSE u.notes[Greatest(Priorities(u))].args[1].number)
  BY DEF CombinationOf, Combiners, Priorities
<1> QED BY <1>5, <1>6, <1>7, <1>8

-----------------------------------------------------------------------------
(* Sessions *)

\* A session on frontend `f` sees a statement of presence `p`.
SeenOn(f, p) == p = {} \/ f \in p

\* Two statements can coexist exactly when some session sees both, so judging
\* the bindings of a key pair by pair judges every session: what is declared
\* for two frontends is not a duplicate, and what meets on one is.
THEOREM CoexistingMeansSeen ==
    ASSUME Frontends # {}, NEW p \in SUBSET Frontends, NEW q \in SUBSET Frontends
    PROVE  CanCoexist(p, q) <=> \E f \in Frontends : SeenOn(f, p) /\ SeenOn(f, q)
BY DEF CanCoexist, SeenOn

-----------------------------------------------------------------------------
(* Levels *)

\* What is directly in a value, in a slot, in a type.
Onward(what, x) ==
  CASE what = "values" -> Parts(x) [] what = "slots" -> Inside(x) [] what = "types" -> TypesIn(x)

\* A run of n steps solves the equation that defines levels.
Descends(what, level, v, n) ==
  \A d \in 0..n : level[d] = IF d = 0 THEN {v} ELSE UNION {Onward(what, x) : x \in level[d - 1]}

LEMMA DescentExists ==
  ASSUME NEW what, NEW v, NEW n \in Nat
  PROVE  \E level : Descends(what, level, v, n)
<1> DEFINE T == {k \in Nat : ~\E level : Descends(what, level, v, k)}
<1> SUFFICES ASSUME T # {}  PROVE FALSE
  OBVIOUS
<1>1. PICK m \in T : \A k \in T : m <= k
  BY NatLeast
<1>2. CASE m = 0
  <2>1. Descends(what, [d \in 0..0 |-> {v}], v, 0)
    BY DEF Descends
  <2> QED
    BY <2>1, <1>2
<1>3. CASE m # 0
  <2>1. m - 1 \in Nat /\ m - 1 \notin T
    BY <1>1, <1>3
  <2>2. PICK f : Descends(what, f, v, m - 1)
    BY <2>1
  <2> DEFINE g == [d \in 0..m |-> IF d = m THEN UNION {Onward(what, x) : x \in f[m - 1]} ELSE f[d]]
  <2>3. Descends(what, g, v, m)
    <3> SUFFICES ASSUME NEW d \in 0..m
                 PROVE  g[d] = IF d = 0 THEN {v} ELSE UNION {Onward(what, x) : x \in g[d - 1]}
      BY Zenon DEF Descends
    <3>1. CASE d = m
      <4>1. g[d - 1] = f[m - 1] /\ g[d] = UNION {Onward(what, x) : x \in f[m - 1]}
        BY <3>1, <1>3
      <4> QED
        BY <4>1, <3>1, <1>3
    <3>2. CASE d # m
      <4>1. d \in 0..(m - 1) /\ (d # 0 => d - 1 \in 0..m /\ d - 1 # m)
        BY <3>2
      <4>2. f[d] = IF d = 0 THEN {v} ELSE UNION {Onward(what, x) : x \in f[d - 1]}
        BY <2>2, <4>1 DEF Descends
      <4>3. g[d] = f[d] /\ (d # 0 => g[d - 1] = f[d - 1])
        BY <4>1, <3>2
      <4> HIDE DEF g
      <4> QED
        BY <4>2, <4>3
    <3> QED
      BY <3>1, <3>2
  <2> QED
    BY <2>3
<1> QED
  BY <1>2, <1>3

LEMMA LevelsOfParts ==
  ASSUME NEW v
  PROVE  /\ Level(v, Parts)[0] = {v}
         /\ \A n \in 0..Nesting : n # 0 => Level(v, Parts)[n] = UNION {Parts(x) : x \in Level(v, Parts)[n - 1]}
<1>0. Nesting \in Nat
  BY NestingAssumption
<1> DEFINE Body(f) == [n \in 0..Nesting |-> IF n = 0 THEN {v} ELSE UNION {Parts(x) : x \in f[n - 1]}]
<1>1. PICK f : Descends("values", f, v, Nesting)
  BY <1>0, DescentExists
<1>2. \A x : Onward("values", x) = Parts(x)
  BY DEF Onward
<1>3. \A d \in 0..Nesting : f[d] = IF d = 0 THEN {v} ELSE UNION {Parts(x) : x \in f[d - 1]}
  BY <1>1, <1>2 DEF Descends
<1>4. Body(f) = Body(Body(f))
  <2> SUFFICES ASSUME NEW d \in 0..Nesting, d # 0
               PROVE  f[d - 1] = Body(f)[d - 1]
    OBVIOUS
  <2>1. d - 1 \in 0..Nesting
    BY <1>0
  <2> QED
    BY <2>1, <1>3
<1> DEFINE at == Level(v, Parts)
<1>5. at = CHOOSE g : g = Body(g)
  BY DEF Level
<1> HIDE DEF at
<1>6. at = Body(at)
  BY <1>4, <1>5
<1>7. \A n \in 0..Nesting : at[n] = IF n = 0 THEN {v} ELSE UNION {Parts(x) : x \in at[n - 1]}
  BY <1>6
<1>8. 0 \in 0..Nesting
  BY <1>0
<1>9. at[0] = {v} /\ \A n \in 0..Nesting : n # 0 => at[n] = UNION {Parts(x) : x \in at[n - 1]}
  BY <1>7, <1>8
<1> QED
  BY <1>9 DEF at

LEMMA LevelsOfTypes ==
  ASSUME NEW v
  PROVE  /\ Level(v, TypesIn)[0] = {v}
         /\ \A n \in 0..Nesting : n # 0 => Level(v, TypesIn)[n] = UNION {TypesIn(x) : x \in Level(v, TypesIn)[n - 1]}
<1>0. Nesting \in Nat
  BY NestingAssumption
<1> DEFINE Body(f) == [n \in 0..Nesting |-> IF n = 0 THEN {v} ELSE UNION {TypesIn(x) : x \in f[n - 1]}]
<1>1. PICK f : Descends("types", f, v, Nesting)
  BY <1>0, DescentExists
<1>2. \A x : Onward("types", x) = TypesIn(x)
  BY DEF Onward
<1>3. \A d \in 0..Nesting : f[d] = IF d = 0 THEN {v} ELSE UNION {TypesIn(x) : x \in f[d - 1]}
  BY <1>1, <1>2 DEF Descends
<1>4. Body(f) = Body(Body(f))
  <2> SUFFICES ASSUME NEW d \in 0..Nesting, d # 0
               PROVE  f[d - 1] = Body(f)[d - 1]
    OBVIOUS
  <2>1. d - 1 \in 0..Nesting
    BY <1>0
  <2> QED
    BY <2>1, <1>3
<1> DEFINE at == Level(v, TypesIn)
<1>5. at = CHOOSE g : g = Body(g)
  BY DEF Level
<1> HIDE DEF at
<1>6. at = Body(at)
  BY <1>4, <1>5
<1>7. \A n \in 0..Nesting : at[n] = IF n = 0 THEN {v} ELSE UNION {TypesIn(x) : x \in at[n - 1]}
  BY <1>6
<1>8. 0 \in 0..Nesting
  BY <1>0
<1>9. at[0] = {v} /\ \A n \in 0..Nesting : n # 0 => at[n] = UNION {TypesIn(x) : x \in at[n - 1]}
  BY <1>7, <1>8
<1> QED
  BY <1>9 DEF at

LEMMA LevelsOfSlots ==
  ASSUME NEW v
  PROVE  /\ Level(v, Inside)[0] = {v}
         /\ \A n \in 0..Nesting : n # 0 => Level(v, Inside)[n] = UNION {Inside(x) : x \in Level(v, Inside)[n - 1]}
<1>0. Nesting \in Nat
  BY NestingAssumption
<1> DEFINE Body(f) == [n \in 0..Nesting |-> IF n = 0 THEN {v} ELSE UNION {Inside(x) : x \in f[n - 1]}]
<1>1. PICK f : Descends("slots", f, v, Nesting)
  BY <1>0, DescentExists
<1>2. \A x : Onward("slots", x) = Inside(x)
  BY DEF Onward
<1>3. \A d \in 0..Nesting : f[d] = IF d = 0 THEN {v} ELSE UNION {Inside(x) : x \in f[d - 1]}
  BY <1>1, <1>2 DEF Descends
<1>4. Body(f) = Body(Body(f))
  <2> SUFFICES ASSUME NEW d \in 0..Nesting, d # 0
               PROVE  f[d - 1] = Body(f)[d - 1]
    OBVIOUS
  <2>1. d - 1 \in 0..Nesting
    BY <1>0
  <2> QED
    BY <2>1, <1>3
<1> DEFINE at == Level(v, Inside)
<1>5. at = CHOOSE g : g = Body(g)
  BY DEF Level
<1> HIDE DEF at
<1>6. at = Body(at)
  BY <1>4, <1>5
<1>7. \A n \in 0..Nesting : at[n] = IF n = 0 THEN {v} ELSE UNION {Inside(x) : x \in at[n - 1]}
  BY <1>6
<1>8. 0 \in 0..Nesting
  BY <1>0
<1>9. at[0] = {v} /\ \A n \in 0..Nesting : n # 0 => at[n] = UNION {Inside(x) : x \in at[n - 1]}
  BY <1>7, <1>8
<1> QED
  BY <1>9 DEF at

-----------------------------------------------------------------------------
(* The values of a file *)

\* The values that are written in the file, those in its blocks among them.
Written == UNION {ReachedFrom(v, Parts) : v \in ValuesIn(file)}

LEMMA WrittenAtLevels ==
  \A x : x \in Written <=> \E w \in ValuesIn(file) : \E n \in 0..Nesting : x \in Level(w, Parts)[n]
<1> TAKE x
<1>1. ASSUME NEW w \in ValuesIn(file), NEW n \in 0..Nesting, x \in Level(w, Parts)[n]
      PROVE  x \in Written
  <2>1. x \in ReachedFrom(w, Parts)
    BY <1>1 DEF ReachedFrom
  <2> QED
    BY <2>1 DEF Written
<1>2. ASSUME x \in Written
      PROVE  \E w \in ValuesIn(file) : \E n \in 0..Nesting : x \in Level(w, Parts)[n]
  <2>1. PICK w \in ValuesIn(file) : x \in ReachedFrom(w, Parts)
    BY <1>2 DEF Written
  <2> QED
    BY <2>1 DEF ReachedFrom
<1> QED
  BY <1>1, <1>2

\* A file is one that a parser makes.
LEMMA WrittenAre ==
  ASSUME IsFile(file), NEW v \in Written
  PROVE  IsValue(v) /\ Parts(v) \subseteq Written /\ v # Nothing
<1>1. PICK w \in ValuesIn(file), n \in 0..Nesting : v \in Level(w, Parts)[n]
  BY WrittenAtLevels
<1>2. IsValue(v) /\ (v.is = "block" => n < Nesting)
  BY <1>1 DEF IsFile
<1>5. v # Nothing
  <2>2. CASE n = 0
    <3>1. v = w
      BY <1>1, <2>2, LevelsOfParts
    <3> QED
      BY <3>1 DEF ValuesIn
  <2>3. CASE n # 0
    <3>1. v \in UNION {Parts(x) : x \in Level(w, Parts)[n - 1]}
      BY <1>1, <2>3, LevelsOfParts
    <3> QED
      BY <3>1 DEF Parts, ValuesIn
  <2> QED
    BY <2>2, <2>3
<1>3. CASE v.is = "block"
  <2>1. n + 1 \in 0..Nesting /\ n + 1 # 0 /\ (n + 1) - 1 = n
    BY <1>2, <1>3, NestingAssumption
  <2>2. Level(w, Parts)[n + 1] = UNION {Parts(x) : x \in Level(w, Parts)[n]}
    BY <2>1, LevelsOfParts
  <2>3. Parts(v) \subseteq Level(w, Parts)[n + 1]
    BY <1>1, <2>2
  <2> QED
    BY <1>1, <1>2, <1>5, <2>1, <2>3, WrittenAtLevels
<1>4. CASE v.is # "block"
  BY <1>2, <1>4, <1>5 DEF Parts
<1> QED
  BY <1>3, <1>4

LEMMA StatementsAreWritten ==
  \A i \in DOMAIN file : file[i].value \in Written \cup {Nothing}
<1> TAKE i \in DOMAIN file
<1> SUFFICES ASSUME file[i].value # Nothing  PROVE file[i].value \in Written
  OBVIOUS
<1>1. file[i].value \in ValuesIn(file)
  BY DEF ValuesIn
<1>2. 0 \in 0..Nesting
  BY NestingAssumption
<1> DEFINE v == file[i].value
<1> HIDE DEF v
<1>3. v \in Level(v, Parts)[0]
  BY LevelsOfParts
<1> QED
  BY <1>1, <1>2, <1>3, WrittenAtLevels DEF v
-----------------------------------------------------------------------------
(* The values of a block as tasks *)

OneMore(tasks, block, types, at, n) ==
  IF n \notin DOMAIN types THEN tasks ELSE Append(tasks, ValueTask(block.body[n].value, types[n], Append(at, n)))

\* A run of n steps solves the equation that defines the tasks of a block.
Gathers(tasks, block, types, at, n) ==
  \A k \in 0..n : tasks[k] = IF k = 0 THEN <<>> ELSE OneMore(tasks[k - 1], block, types, at, k)

LEMMA GatheringExists ==
  ASSUME NEW block, NEW types, NEW at, NEW n \in Nat
  PROVE  \E tasks : Gathers(tasks, block, types, at, n)
<1> DEFINE T == {k \in Nat : ~\E tasks : Gathers(tasks, block, types, at, k)}
<1> SUFFICES ASSUME T # {}  PROVE FALSE
  OBVIOUS
<1>1. PICK m \in T : \A k \in T : m <= k
  BY NatLeast
<1>2. CASE m = 0
  <2>1. Gathers([k \in 0..0 |-> <<>>], block, types, at, 0)
    BY DEF Gathers
  <2> QED
    BY <2>1, <1>2
<1>3. CASE m # 0
  <2>1. m - 1 \in Nat /\ m - 1 \notin T
    BY <1>1, <1>3
  <2>2. PICK f : Gathers(f, block, types, at, m - 1)
    BY <2>1
  <2> DEFINE g == [d \in 0..m |-> IF d = m THEN OneMore(f[m - 1], block, types, at, m) ELSE f[d]]
  <2>3. Gathers(g, block, types, at, m)
    <3> SUFFICES ASSUME NEW d \in 0..m
                 PROVE  g[d] = IF d = 0 THEN <<>> ELSE OneMore(g[d - 1], block, types, at, d)
      BY Zenon DEF Gathers
    <3>1. CASE d = m
      <4>1. g[d - 1] = f[m - 1] /\ g[d] = OneMore(f[m - 1], block, types, at, m)
        BY <3>1, <1>3
      <4> QED
        BY <4>1, <3>1, <1>3
    <3>2. CASE d # m
      <4>1. d \in 0..(m - 1) /\ (d # 0 => d - 1 \in 0..m /\ d - 1 # m)
        BY <3>2
      <4>2. f[d] = IF d = 0 THEN <<>> ELSE OneMore(f[d - 1], block, types, at, d)
        BY <2>2, <4>1 DEF Gathers
      <4>3. g[d] = f[d] /\ (d # 0 => g[d - 1] = f[d - 1])
        BY <4>1, <3>2
      <4> HIDE DEF g
      <4> QED
        BY <4>2, <4>3
    <3> QED
      BY <3>1, <3>2
  <2> QED
    BY <2>3
<1> QED
  BY <1>2, <1>3

\* One task for each statement with a type, at its place.
LEMMA ValueTasksAre ==
  ASSUME NEW block, NEW types, NEW at, IsList(block.body), DOMAIN types \subseteq DOMAIN block.body
  PROVE  /\ IsList(ValueTasks(block, types, at))
         /\ Elements(ValueTasks(block, types, at)) =
              {ValueTask(block.body[k].value, types[k], Append(at, k)) : k \in DOMAIN types}
<1> DEFINE N == Len(block.body)
           task(k) == ValueTask(block.body[k].value, types[k], Append(at, k))
           upto(n) == {task(k) : k \in {k \in 1..n : k \in DOMAIN types}}
           Body(f) == [n \in 0..N |-> IF n = 0 THEN <<>>
                                       ELSE IF n \notin DOMAIN types THEN f[n - 1]
                                       ELSE Append(f[n - 1], ValueTask(block.body[n].value, types[n], Append(at, n)))]
<1>0. N \in Nat /\ DOMAIN block.body = 1..N
  BY ListHas
<1>1. PICK f : Gathers(f, block, types, at, N)
  BY <1>0, GatheringExists
<1>2. Body(f) = Body(Body(f))
  <2> SUFFICES ASSUME NEW d \in 0..N, d # 0
               PROVE  f[d - 1] = Body(f)[d - 1]
    OBVIOUS
  <2>1. d - 1 \in 0..N
    BY <1>0
  <2>2. f[d - 1] = IF d - 1 = 0 THEN <<>> ELSE OneMore(f[(d - 1) - 1], block, types, at, d - 1)
    BY <2>1, <1>1 DEF Gathers
  <2> QED
    BY <2>1, <2>2 DEF OneMore
<1> DEFINE tasks == CHOOSE g : g = Body(g)
<1>3. tasks = Body(tasks)
  BY <1>2
<1>4. ValueTasks(block, types, at) = tasks[N]
  BY DEF ValueTasks
<1>5. ASSUME NEW n \in 0..N
      PROVE  tasks[n] = IF n = 0 THEN <<>> ELSE OneMore(tasks[n - 1], block, types, at, n)
  <2> HIDE DEF tasks
  <2> QED
    BY <1>3 DEF OneMore
<1> HIDE DEF tasks, Body, N
<1> DEFINE Good(n) == IsList(tasks[n]) /\ Elements(tasks[n]) = upto(n)
           T == {n \in 0..N : ~Good(n)}
<1>6. ASSUME T # {}  PROVE FALSE
  <2>1. PICK m \in T : \A k \in T : m <= k
    <3> HIDE DEF Good
    <3>1. T \in SUBSET Nat
      OBVIOUS
    <3> HIDE DEF T
    <3> QED
      BY <3>1, <1>6, NatLeast
  <2>a. m \in 0..N /\ (m # 0 => m - 1 \in 0..N /\ Good(m - 1))
    <3> HIDE DEF Good
    <3> QED
      BY <2>1, <1>0
  <2>b. ~Good(m)
    <3> HIDE DEF Good
    <3> QED
      BY <2>1
  <2>2. CASE m = 0
    <3>1. tasks[m] = <<>>
      BY <2>2, <1>5
    <3>2. upto(m) = {}
      BY <2>2
    <3>3. Good(m)
      BY <3>1, <3>2, NoList
    <3> QED
      BY <3>3, <2>b
  <2>3. CASE m # 0
    <3>1. m \in 0..N /\ m - 1 \in 0..N /\ Good(m - 1)
      BY <2>a, <2>3
    <3>2. tasks[m] = OneMore(tasks[m - 1], block, types, at, m)
      BY <3>1, <2>3, <1>5
    <3>3. 1..m = 1..(m - 1) \cup {m}
      BY <3>1, <2>3, <1>0
    <3>4. CASE m \notin DOMAIN types
      <4>1. {k \in 1..m : k \in DOMAIN types} = {k \in 1..(m - 1) : k \in DOMAIN types}
        BY <3>3, <3>4
      <4>2. Good(m)
        BY <3>1, <3>2, <3>4, <4>1 DEF OneMore
      <4> QED
        BY <4>2, <2>b
    <3>5. CASE m \in DOMAIN types
      <4>1. upto(m) = upto(m - 1) \cup {task(m)}
        BY <3>3, <3>5
      <4>2. tasks[m] = tasks[m - 1] \o <<task(m)>>
        BY <3>1, <3>2, <3>5, AppendIsJoin DEF OneMore
      <4>3. IsList(<<task(m)>>) /\ Elements(<<task(m)>>) = {task(m)}
        BY LoneList
      <4>4. IsList(tasks[m]) /\ Elements(tasks[m]) = upto(m - 1) \cup {task(m)}
        <5> HIDE DEF upto, task
        <5> QED
          BY <3>1, <4>2, <4>3, ElementsOfJoin
      <4> QED
        BY <4>1, <4>4, <2>b
    <3> QED
      BY <3>4, <3>5
  <2> QED
    BY <2>2, <2>3
<1>7. Good(N)
  BY <1>0, <1>6
<1>8. upto(N) = {task(k) : k \in DOMAIN types}
  BY <1>0
<1> QED
  BY <1>4, <1>7, <1>8
-----------------------------------------------------------------------------
(* Duplicates *)

\* A statement that meets an earlier one of its key which is not in D.
MeetsEarlier(body, form, D, i) ==
  /\ BindsOne(body[i], form)
  /\ \E j \in 1..(i - 1) : /\ BindsOne(body[j], form) /\ body[j].key = body[i].key
                           /\ j \notin D
                           /\ Meet(body[i], body[j])

Marks(D, body, form, n) == D \subseteq 1..n /\ \A k \in 1..n : k \in D <=> MeetsEarlier(body, form, D, k)

LEMMA MarksExist ==
  ASSUME NEW body, NEW form, NEW n \in Nat
  PROVE  \E D : Marks(D, body, form, n)
<1> DEFINE T == {k \in Nat : ~\E D : Marks(D, body, form, k)}
<1> SUFFICES ASSUME T # {}  PROVE FALSE
  OBVIOUS
<1>1. PICK m \in T : \A k \in T : m <= k
  BY NatLeast
<1>2. CASE m = 0
  <2>1. Marks({}, body, form, 0)
    BY DEF Marks
  <2> QED
    BY <2>1, <1>2
<1>3. CASE m # 0
  <2>1. m - 1 \in Nat /\ m - 1 \notin T
    BY <1>1, <1>3
  <2>2. PICK D : Marks(D, body, form, m - 1)
    BY <2>1
  <2> DEFINE E == D \cup {k \in {m} : MeetsEarlier(body, form, D, m)}
  <2>3. D \subseteq 1..(m - 1) /\ \A k \in 1..(m - 1) : k \in E <=> k \in D
    BY <2>2 DEF Marks
  <2>4. m \in E <=> MeetsEarlier(body, form, D, m)
    BY <2>3
  <2>5. \A k \in 1..m : MeetsEarlier(body, form, E, k) <=> MeetsEarlier(body, form, D, k)
    <3> TAKE k \in 1..m
    <3>1. \A j \in 1..(k - 1) : j \in E <=> j \in D
      BY <2>3
    <3> HIDE DEF E
    <3> QED
      BY <3>1 DEF MeetsEarlier
  <2>6. Marks(E, body, form, m)
    <3>1. ASSUME NEW x \in E  PROVE x \in 1..m
      <4>1. m \in Nat \ {0} /\ (x \in D \/ x = m)
        BY <1>1, <1>3
      <4> QED
        BY <4>1, <2>3
    <3>2. ASSUME NEW k \in 1..m  PROVE k \in E <=> MeetsEarlier(body, form, E, k)
      <4>1. CASE k = m
        BY <4>1, <2>4, <2>5
      <4>2. CASE k # m
        <5>1. k \in 1..(m - 1)
          BY <4>2
        <5>2. k \in D <=> MeetsEarlier(body, form, D, k)
          BY <5>1, <2>2 DEF Marks
        <5> HIDE DEF E
        <5> QED
          BY <5>1, <5>2, <2>3, <2>5
      <4> QED
        BY <4>1, <4>2
    <3> HIDE DEF E
    <3> QED
      BY <3>1, <3>2 DEF Marks
  <2> QED
    BY <2>6
<1> QED
  BY <1>2, <1>3

\* The duplicates are the statements that meet an earlier one of their key
\* which is not a duplicate.
LEMMA DuplicatesAre ==
  ASSUME NEW body, IsList(body), NEW form
  PROVE  /\ Duplicates(body, form) \subseteq DOMAIN body
         /\ \A i \in DOMAIN body :
               i \in Duplicates(body, form) <=> MeetsEarlier(body, form, Duplicates(body, form), i)
<1> DEFINE N == Len(body)
           Body(f) == [i \in DOMAIN body |->
                         /\ BindsOne(body[i], form)
                         /\ \E j \in 1..(i - 1) : /\ BindsOne(body[j], form) /\ body[j].key = body[i].key
                                                  /\ ~f[j]
                                                  /\ Meet(body[i], body[j])]
<1>0. N \in Nat /\ DOMAIN body = 1..N
  BY ListHas
<1>1. PICK D : Marks(D, body, form, N)
  BY <1>0, MarksExist
<1> DEFINE f == [i \in DOMAIN body |-> i \in D]
<1>2. f = Body(f)
  <2>1. ASSUME NEW i \in DOMAIN body  PROVE f[i] = Body(f)[i]
    <3>1. \A j \in 1..(i - 1) : j \in DOMAIN body
      BY <1>0
    <3>2. \A j \in DOMAIN body : f[j] <=> j \in D
      OBVIOUS
    <3>3. i \in D <=> MeetsEarlier(body, form, D, i)
      BY <1>0, <1>1 DEF Marks
    <3>4. Body(f)[i] <=> MeetsEarlier(body, form, D, i)
      BY <3>1, <3>2 DEF MeetsEarlier
    <3>5. f[i] = (i \in D)
      BY Zenon
    <3>6. Body(f)[i] \in BOOLEAN
      BY Zenon
    <3>7. f[i] \in BOOLEAN
      BY <3>5, SMT
    <3> HIDE DEF f, Body
    <3>8. f[i] <=> Body(f)[i]
      BY <3>2, <3>3, <3>4
    <3> QED
      BY <3>6, <3>7, <3>8
  <2> QED
    BY <2>1
<1> DEFINE duplicate == CHOOSE g : g = Body(g)
<1>3. duplicate = Body(duplicate)
  <2> HIDE DEF f, Body
  <2> QED
    BY <1>2
<1>4. Duplicates(body, form) = {i \in DOMAIN body : duplicate[i]}
  BY DEF Duplicates
<1> HIDE DEF duplicate
<1>5. ASSUME NEW i \in DOMAIN body
      PROVE  duplicate[i] <=> MeetsEarlier(body, form, Duplicates(body, form), i)
  <2>1. \A j \in 1..(i - 1) : j \in DOMAIN body
    BY <1>0
  <2>2. \A j \in 1..(i - 1) : duplicate[j] <=> j \in Duplicates(body, form)
    BY <1>4, <2>1
  <2>3. duplicate[i] = Body(duplicate)[i]
    BY <1>3
  <2>4. Body(duplicate)[i] <=> MeetsEarlier(body, form, Duplicates(body, form), i)
    BY <2>2 DEF MeetsEarlier
  <2> QED
    BY <2>3, <2>4
<1> QED
  BY <1>4, <1>5
-----------------------------------------------------------------------------
(* The agenda *)

Records(t) == Judging(t, BlockTypes \ Collections) /\ Filled(t.value)

\* What a task reports, and what it calls.
ValueFound(t) ==
  IF Unjudged(t.value, SlotType(t)) THEN {}
  ELSE IF SlotType(t).name \notin BlockTypes THEN PlainReports(t.value, SlotType(t), t.at)
  ELSE IF ~Filled(t.value) THEN IF IsBlock(t.value) THEN {} ELSE Mismatch(t.at)
  ELSE IF SlotType(t).name \in Collections THEN CollectionReports(t.value, SlotType(t), t.at)
  ELSE RecordReports(t.value, SlotType(t), t.at)

Found(t) ==
  CASE t.do = "annotations" -> VisitReports(t)
    [] t.do = "top" -> TopReports(t.statement, t.at)
    [] t.do = "block" -> BlockReports(t.block, forms[t.form], t.at)
    [] t.do = "close" -> CloseReports(t.block, forms[t.form], t.at)
    [] t.do = "value" -> ValueFound(t)
    [] t.do = "instance" -> InstanceReports(t.block, t.class, t.at)
    [] t.do = "types" -> {Note("SchemaInvalid", Registry) : f \in {f \in DOMAIN forms : Dangling(forms[f])}}
    [] t.do = "type" -> TypesReports(t.types)
    [] t.do = "placement" -> IF Instantiated(t.statement) THEN PlacementReports(t.statement.value, t.at) ELSE {}
    [] t.do = "properties" ->
          IF Instantiated(t.statement) THEN UnknownProperties(t.statement.value, ReadObjectClass(t.statement), t.at)
          ELSE {}
    [] OTHER -> {}

Calls(t) ==
  CASE t.do = "annotations" -> VisitCalls(t)
    [] t.do = "top" -> TopCalls(t.statement, t.at)
    [] t.do = "block" -> BlockCalls(t)
    [] t.do = "value" -> IF Records(t) THEN RecordCalls(t.value, SlotType(t), t.at) ELSE <<>>
    [] t.do = "instance" -> InstanceCalls(t.block, t.class, t.at)
    [] t.do = "types" -> TypeTask(DeclaredTypes)
    [] t.do = "type" -> TypeTask(TypesBelow(t.types))
    [] OTHER -> <<>>

\* Whatever the step, the task at the head is what takes it.
LEMMA StepCarries ==
  ASSUME BlocksNext
  PROVE  /\ todo # <<>>
         /\ todo' = Calls(Task) \o Tail(todo) \/ (Calls(Task) = <<>> /\ todo' = Tail(todo))
         /\ reports' = reports \cup Found(Task)
         /\ UNCHANGED <<loaded, file, others>>
<1>0. /\ Collections \subseteq BlockTypes /\ BlockTypes \subseteq Builtins
      /\ \A names : Judging(Task, names) <=> ~Unjudged(Task.value, SlotType(Task)) /\ SlotType(Task).name \in names
  BY DEF Collections, BlockTypes, Builtins, Atoms, Judging
<1> USE DEF Doing, Carry, Found, Calls, naming
<1>1. CASE Visit
  BY <1>1 DEF Visit, Task
<1>2. CASE CheckTopLevel
  BY <1>2 DEF CheckTopLevel, Task
<1>3. CASE ValidateBlock
  BY <1>3 DEF ValidateBlock, Task
<1>4. CASE CloseBlock
  BY <1>4 DEF CloseBlock, Task
<1>5. CASE SkipValue
  BY <1>5, <1>0 DEF SkipValue, Task, ValueFound, Records
<1>6. CASE CheckPlainValue
  BY <1>6, <1>0 DEF CheckPlainValue, Task, ValueFound, Records
<1>7. CASE CheckShape
  BY <1>7, <1>0 DEF CheckShape, Task, ValueFound, Records
<1>8. CASE CheckCollection
  BY <1>8, <1>0 DEF CheckCollection, Task, ValueFound, Records
<1>9. CASE CheckRecord
  <2>1. /\ Task.do = "value" /\ Records(Task)
        /\ ValueFound(Task) = RecordReports(Task.value, SlotType(Task), Task.at)
    BY <1>9, <1>0 DEF CheckRecord, ValueFound, Records, Task
  <2>2. /\ Found(Task) = ValueFound(Task)
        /\ Calls(Task) = RecordCalls(Task.value, SlotType(Task), Task.at)
    BY <2>1
  <2> QED
    BY <1>9, <2>1, <2>2 DEF CheckRecord
<1>10. CASE CheckInstantiation
  BY <1>10 DEF CheckInstantiation, Task
<1>11. CASE CheckDeclaredTypes
  BY <1>11 DEF CheckDeclaredTypes, Task
<1>12. CASE CheckType
  BY <1>12 DEF CheckType, Task
<1>13. CASE CheckPlacement
  BY <1>13 DEF CheckPlacement, Task
<1>14. CASE CheckInstanceProperties
  BY <1>14 DEF CheckInstanceProperties, Task
<1>15. CASE AddUses \/ CheckGlobals \/ AddTexts \/ CheckTexts
  BY <1>15 DEF AddUses, CheckGlobals, AddTexts, CheckTexts, Index, Task
<1> QED
  BY <1>1, <1>2, <1>3, <1>4, <1>5, <1>6, <1>7, <1>8, <1>9, <1>10, <1>11, <1>12, <1>13, <1>14, <1>15 DEF BlocksNext

\* What a step need not look at again.
LEMMA SteadyInherited ==
  ASSUME UNCHANGED <<class, trait>>
  PROVE  \A id, name : Inherited(id, name)' = Inherited(id, name)
<1>1. \A id : ParentOf(id)' = ParentOf(id)
  BY DEF ParentOf, RootClass, Declared
<1>2. \A id : Lineage(id)' = Lineage(id)
  BY <1>1 DEF Lineage
<1>3. \A list, name : FromTraits(list, name)' = FromTraits(list, name)
  BY DEF FromTraits, DeclaredTraits
<1>4. \A id, name : HereOrByTrait(id, name)' = HereOrByTrait(id, name)
  BY <1>3 DEF HereOrByTrait
<1> TAKE id, name
<1> DEFINE chain == Lineage(id)
           having == {d \in DOMAIN chain : /\ chain[d] # Nothing
                                           /\ HereOrByTrait(chain[d], name) # Nothing}
           first == CHOOSE d \in having : \A e \in having : d <= e
<1>5. chain' = chain
  BY <1>2
<1>6. having' = having
  BY <1>4, <1>5
<1>7. first' = first
  BY <1>6
<1>8. Inherited(id, name) = IF having = {} THEN Nothing ELSE HereOrByTrait(chain[first], name)
  BY DEF Inherited
<1>9. Inherited(id, name)' = IF having' = {} THEN Nothing ELSE HereOrByTrait(chain[first], name)'
  BY DEF Inherited
<1> HIDE DEF chain, having, first
<1> QED
  BY <1>4, <1>5, <1>6, <1>7, <1>8, <1>9

LEMMA SteadyLooks ==
  ASSUME UNCHANGED loaded
  PROVE  /\ Declared' = Declared /\ DeclaredTraits' = DeclaredTraits
         /\ \A s : ReadObjectClass(s)' = ReadObjectClass(s) /\ Instantiated(s)' = Instantiated(s)
         /\ \A type : Resolve(type)' = Resolve(type)
         /\ \A t : SlotType(t)' = SlotType(t)
         /\ \A type : TypeReported(type)' = TypeReported(type)
         /\ \A c, name : FindDeclared(c, name)' = FindDeclared(c, name)
<1> USE DEF loaded
<1>1. /\ Declared' = Declared /\ DeclaredTraits' = DeclaredTraits
      /\ \A s : ReadObjectClass(s)' = ReadObjectClass(s) /\ Instantiated(s)' = Instantiated(s)
      /\ \A type : Resolve(type)' = Resolve(type)
      /\ \A t : SlotType(t)' = SlotType(t)
      /\ \A id : KnownClass(id)' = KnownClass(id)
  BY DEF Declared, DeclaredTraits, ReadObjectClass, Instantiated, Resolve, SlotType, KnownClass
<1>2. \A c, name : FindDeclared(c, name)' = FindDeclared(c, name)
  BY SteadyInherited DEF FindDeclared
<1>3. \A type : TypeReported(type)' = TypeReported(type)
  BY <1>1 DEF TypeReported, NamesSomething
<1> QED
  BY <1>1, <1>2, <1>3

LEMMA SteadyFound ==
  ASSUME UNCHANGED loaded
  PROVE  \A t : Found(t)' = Found(t)
<1> USE DEF loaded
<1>1. /\ Declared' = Declared /\ DeclaredTraits' = DeclaredTraits
      /\ \A s : ReadObjectClass(s)' = ReadObjectClass(s) /\ Instantiated(s)' = Instantiated(s)
      /\ \A type : Resolve(type)' = Resolve(type)
      /\ \A t : SlotType(t)' = SlotType(t)
      /\ \A type : TypeReported(type)' = TypeReported(type)
  BY SteadyLooks
<1>2. \A c, name : FindDeclared(c, name)' = FindDeclared(c, name)
  BY SteadyLooks
<1>3. \A v, type, at : CheckScalar(v, type, at)' = CheckScalar(v, type, at)
  BY DEF CheckScalar, CheckReference, KnownClass, UniqueKey, Declared, DeclaredTraits
<1>4. \A t : ValueFound(t)' = ValueFound(t)
  <2>1. \A v, type, at : PlainReports(v, type, at)' = PlainReports(v, type, at)
    BY <1>3 DEF PlainReports
  <2>2. \A entry, element, at : EntryReports(entry, element, at)' = EntryReports(entry, element, at)
    BY <1>1, <1>3 DEF EntryReports
  <2>3. \A v, type, at : CollectionReports(v, type, at)' = CollectionReports(v, type, at)
    <3> TAKE v, type, at
    <3>1. /\ UNION {EntryReports(v.values[i], Element(type), Append(at, i)) : i \in DOMAIN v.values}' =
              UNION {EntryReports(v.values[i], Element(type), Append(at, i)) : i \in DOMAIN v.values}
          /\ Resolve(Element(type))' = Resolve(Element(type))
      BY <1>1, <2>2
    <3> QED
      BY <3>1 DEF CollectionReports
  <2>4. \A v, type, at : RecordReports(v, type, at)' = RecordReports(v, type, at)
    BY <1>1 DEF RecordReports
  <2> QED
    BY <1>1, <2>1, <2>3, <2>4 DEF ValueFound
<1>5. \A block, c, at : InstanceReports(block, c, at)' = InstanceReports(block, c, at)
  BY <1>2 DEF InstanceReports, PropDefReports, CheckLocalPropDefs
<1>6. \A block, c, at : UnknownProperties(block, c, at)' = UnknownProperties(block, c, at)
  BY <1>2 DEF UnknownProperties, ResolveProperty, Relations
<1>7. \A block, at : PlacementReports(block, at)' = PlacementReports(block, at)
  BY DEF PlacementReports, Sugar, Relations, LongForm
<1>8. \A types : TypesReports(types)' = TypesReports(types)
  BY <1>1 DEF TypesReports
<1>9. \A s, at : TopReports(s, at)' = TopReports(s, at)
  BY <1>1 DEF TopReports
<1> QED
  BY <1>1, <1>4, <1>5, <1>6, <1>7, <1>8, <1>9 DEF Found

LEMMA SteadyCalls ==
  ASSUME UNCHANGED loaded
  PROVE  \A t : Calls(t)' = Calls(t)
<1> USE DEF loaded
<1>1. /\ Declared' = Declared /\ DeclaredTraits' = DeclaredTraits
      /\ \A s : ReadObjectClass(s)' = ReadObjectClass(s) /\ Instantiated(s)' = Instantiated(s)
      /\ \A type : Resolve(type)' = Resolve(type)
      /\ \A t : SlotType(t)' = SlotType(t)
      /\ \A type : TypeReported(type)' = TypeReported(type)
  BY SteadyLooks
<1>2. \A c, name : FindDeclared(c, name)' = FindDeclared(c, name)
  BY SteadyLooks
<1>3. \A s, at : TopCalls(s, at)' = TopCalls(s, at)
  BY <1>1 DEF TopCalls, Instance
<1>4. \A t : BlockCalls(t)' = BlockCalls(t)
  BY DEF BlockCalls
<1>5. \A t : Records(t)' = Records(t)
  BY <1>1 DEF Records, Judging
<1>6. \A v, type, at : RecordCalls(v, type, at)' = RecordCalls(v, type, at)
  BY DEF RecordCalls
<1>7. \A block, c, at : InstanceCalls(block, c, at)' = InstanceCalls(block, c, at)
  BY <1>2 DEF InstanceCalls, ResolveProperty
<1>8. DeclaredTypes' = DeclaredTypes
  BY <1>1 DEF DeclaredTypes, PropertiesOf
<1>9. \A types : TypesBelow(types)' = TypesBelow(types)
  <2>1. \A t : TypeArguments(t)' = TypeArguments(t)
    BY <1>1 DEF TypeArguments
  <2> QED
    BY <2>1 DEF TypesBelow
<1> QED
  BY <1>1, <1>3, <1>4, <1>5, <1>6, <1>7, <1>8, <1>9 DEF Calls

-----------------------------------------------------------------------------
(* What becomes due *)

\* What the parser and the loader leave: files and a registry.
Parsed == IsFile(file) /\ IsList(others) /\ IsRegistry(class, trait, forms, globals)

\* The declared types, and those in them.
KnownTypes == UNION {ReachedFrom(t, TypesIn) : t \in DeclaredTypes}

LEMMA DeclaredAreTypes ==
  ASSUME Parsed, NEW t \in DeclaredTypes
  PROVE  IsType(t)
BY DEF Parsed, IsRegistry, DeclaredTypes, PropertiesOf, Declared, DeclaredTraits

LEMMA KnownAre ==
  ASSUME Parsed, NEW t \in KnownTypes
  PROVE  IsList(t.args) /\ TypesIn(t) \subseteq KnownTypes
<1>1. PICK d \in DeclaredTypes : t \in ReachedFrom(d, TypesIn)
  BY DEF KnownTypes
<1>2. PICK n \in 0..Nesting : t \in Level(d, TypesIn)[n]
  BY <1>1 DEF ReachedFrom
<1>3. IsList(t.args) /\ (t.args # <<>> => n < Nesting)
  BY <1>2, DeclaredAreTypes DEF IsType
<1>4. CASE t.args = <<>>
  <2>1. TypesIn(t) = {}
    BY <1>4, NoList DEF TypesIn, Elements
  <2> QED
    BY <1>3, <2>1
<1>5. CASE t.args # <<>>
  <2>1. n + 1 \in 0..Nesting /\ n + 1 # 0 /\ (n + 1) - 1 = n
    BY <1>3, <1>5, NestingAssumption
  <2>2. Level(d, TypesIn)[n + 1] = UNION {TypesIn(x) : x \in Level(d, TypesIn)[n]}
    BY <2>1, LevelsOfTypes
  <2>3. TypesIn(t) \subseteq Level(d, TypesIn)[n + 1]
    BY <1>2, <2>2
  <2>4. TypesIn(t) \subseteq ReachedFrom(d, TypesIn)
    BY <2>1, <2>3 DEF ReachedFrom
  <2> QED
    BY <1>3, <2>4 DEF KnownTypes
<1> QED
  BY <1>4, <1>5

LEMMA DeclaredAreKnown == DeclaredTypes \subseteq KnownTypes
<1> SUFFICES ASSUME NEW t \in DeclaredTypes  PROVE t \in KnownTypes
  OBVIOUS
<1>1. 0 \in 0..Nesting
  BY NestingAssumption
<1>2. Level(t, TypesIn)[0] = {t}
  BY LevelsOfTypes
<1>3. t \in Level(t, TypesIn)[0]
  BY <1>2
<1>4. t \in ReachedFrom(t, TypesIn)
  BY <1>1, <1>3 DEF ReachedFrom
<1> QED
  BY <1>4 DEF KnownTypes

LEMMA BelowAreKnown ==
  ASSUME Parsed, NEW types \in SUBSET KnownTypes
  PROVE  TypesBelow(types) \subseteq KnownTypes
<1> SUFFICES ASSUME NEW t \in types, NEW i \in DOMAIN TypeArguments(t)
             PROVE  TypeArguments(t)[i] \in KnownTypes
  BY DEF TypesBelow
<1>1. TypeArguments(t) # <<>>
  BY NoList DEF Elements
<1>2. TypeArguments(t) = t.args
  BY <1>1 DEF TypeArguments, Resolve, Type
<1>3. TypeArguments(t)[i] \in TypesIn(t)
  BY <1>2 DEF TypesIn
<1> QED
  BY <1>3, KnownAre

OfStatements == {"top", "placement", "properties"}

\* A task is about values of the file, and the calls of a pass over its
\* statements are all made at the start.
Fitting(t) ==
  /\ t.do \in {"annotations", "top", "placement", "properties"} => t.statement.value \in Written \cup {Nothing}
  /\ t.do \in {"block", "close", "instance"} => t.block \in Written /\ t.block.is = "block"
  /\ t.do \in {"block", "close"} => t.form \in DOMAIN forms
  /\ t.do = "value" => t.value \in Written
  /\ t.do = "type" => t.types \subseteq KnownTypes
  /\ t.do \in OfStatements => t \in Elements(ForEach(t.do))

\* The statements of a block in the file.
LEMMA InBlock ==
  ASSUME IsFile(file), NEW v \in Written, v.is = "block"
  PROVE  /\ IsList(v.body) /\ IsList(v.values) /\ IsBlock(v)
         /\ \A i \in DOMAIN v.body : v.body[i].value \in Written \cup {Nothing}
<1>1. IsValue(v) /\ Parts(v) \subseteq Written /\ v # Nothing
  BY WrittenAre
<1>2. \A i \in DOMAIN v.body : v.body[i].value # Nothing => v.body[i].value \in Parts(v)
  BY DEF Parts, ValuesIn
<1> QED
  BY <1>1, <1>2 DEF IsValue, IsBlock

LEMMA FunctionIsList ==
  ASSUME NEW s, IsList(s), NEW t, t = [i \in DOMAIN s |-> t[i]]
  PROVE  IsList(t)
<1>1. Len(s) \in Nat /\ DOMAIN s = 1..Len(s)
  BY ListHas
<1> QED
  BY <1>1, ListIs

LEMMA CallsOfVisit ==
  ASSUME IsFile(file), NEW t, Fitting(t), t.do = "annotations"
  PROVE  /\ IsList(VisitCalls(t))
         /\ \A c \in Elements(VisitCalls(t)) : c.do = "annotations" /\ Fitting(c)
<1> DEFINE v == t.statement.value
           call(i) == [do |-> "annotations", at |-> Append(t.at, i), statement |-> v.body[i], top |-> FALSE]
<1>1. CASE ~IsBlock(v)
  BY <1>1, NoList DEF VisitCalls
<1>2. CASE IsBlock(v)
  <2>1. IsList(v.body) /\ \A i \in DOMAIN v.body : v.body[i].value \in Written \cup {Nothing}
    BY <1>2, InBlock DEF IsBlock, Fitting
  <2>2. PICK s : s = VisitCalls(t)
    OBVIOUS
  <2>3. s = [i \in DOMAIN v.body |-> call(i)]
    BY <1>2, <2>2 DEF VisitCalls
  <2>4. IsList(s)
    BY <2>1, <2>3, FunctionIsList
  <2>5. \A i \in DOMAIN v.body : call(i).do = "annotations" /\ Fitting(call(i))
    BY <2>1 DEF Fitting, OfStatements
  <2> HIDE DEF call
  <2>6. \A c \in Elements(s) : c.do = "annotations" /\ Fitting(c)
    BY <2>3, <2>5 DEF Elements
  <2> QED
    BY <2>2, <2>4, <2>6
<1> QED
  BY <1>1, <1>2

LEMMA CallsOfValues ==
  ASSUME IsFile(file), NEW v \in Written, v.is = "block", NEW at,
         NEW types, DOMAIN types \subseteq {i \in DOMAIN v.body : v.body[i].value # Nothing}
  PROVE  /\ IsList(ValueTasks(v, types, at))
         /\ \A c \in Elements(ValueTasks(v, types, at)) : c.do = "value" /\ Fitting(c)
<1>1. IsList(v.body) /\ \A i \in DOMAIN v.body : v.body[i].value \in Written \cup {Nothing}
  BY InBlock
<1>2. /\ IsList(ValueTasks(v, types, at))
      /\ Elements(ValueTasks(v, types, at)) =
           {ValueTask(v.body[k].value, types[k], Append(at, k)) : k \in DOMAIN types}
  BY <1>1, ValueTasksAre
<1>3. \A k \in DOMAIN types : /\ ValueTask(v.body[k].value, types[k], Append(at, k)).do = "value"
                              /\ Fitting(ValueTask(v.body[k].value, types[k], Append(at, k)))
  BY <1>1 DEF ValueTask, Fitting, OfStatements
<1> QED
  BY <1>2, <1>3

LEMMA LoneCall ==
  ASSUME NEW c, Fitting(c)
  PROVE  IsList(<<c>>) /\ \A d \in Elements(<<c>>) : Fitting(d)
<1>1. IsList(<<c>>) /\ Elements(<<c>>) = {c}
  BY LoneList
<1> QED
  BY <1>1

LEMMA NoCalls == IsList(<<>>) /\ \A c \in Elements(<<>>) : Fitting(c)
BY NoList

LEMMA InstanceFits ==
  ASSUME IsFile(file), NEW s, s.value \in Written \cup {Nothing}, NEW at
  PROVE  IsList(Instance(s, at)) /\ \A c \in Elements(Instance(s, at)) : Fitting(c)
<1> DEFINE c == [do |-> "instance", at |-> at, block |-> s.value, class |-> ReadObjectClass(s)]
<1>1. CASE ~Instantiated(s)
  <2>1. Instance(s, at) = <<>>
    BY <1>1 DEF Instance
  <2> QED
    BY <2>1, NoCalls
<1>2. CASE Instantiated(s)
  <2>1. Instance(s, at) = <<c>>
    BY <1>2 DEF Instance
  <2>2. Fitting(c)
    BY <1>2 DEF Fitting, OfStatements, Instantiated, IsBlock
  <2> HIDE DEF c
  <2> QED
    BY <2>1, <2>2, LoneCall
<1> QED
  BY <1>1, <1>2

LEMMA TopFits ==
  ASSUME IsFile(file), NEW s, s.value \in Written \cup {Nothing}, NEW at
  PROVE  IsList(TopCalls(s, at)) /\ \A c \in Elements(TopCalls(s, at)) : Fitting(c)
<1> DEFINE b == [do |-> "block", at |-> at, block |-> s.value, form |-> s.key]
           more == IF s.key = "object" THEN Instance(s, at) ELSE <<>>
<1>0. IsList(more) /\ \A c \in Elements(more) : Fitting(c)
  BY InstanceFits, NoCalls
<1>1. CASE s.key \notin DOMAIN forms
  <2>1. TopCalls(s, at) = Instance(s, at)
    BY <1>1 DEF TopCalls
  <2> QED
    BY <2>1, InstanceFits
<1>2. CASE s.key \in DOMAIN forms /\ (~forms[s.key].top_level \/ ~IsBlock(s.value))
  <2>1. TopCalls(s, at) = <<>>
    BY <1>2 DEF TopCalls
  <2> QED
    BY <2>1, NoCalls
<1>3. CASE s.key \in DOMAIN forms /\ forms[s.key].top_level /\ IsBlock(s.value)
  <2>1. TopCalls(s, at) = <<b>> \o more
    BY <1>3 DEF TopCalls
  <2>2. Fitting(b)
    BY <1>3 DEF Fitting, OfStatements, IsBlock
  <2> HIDE DEF b, more
  <2>3. IsList(<<b>>) /\ \A c \in Elements(<<b>>) : Fitting(c)
    BY <2>2, LoneCall
  <2>4. IsList(<<b>> \o more) /\ Elements(<<b>> \o more) = Elements(<<b>>) \cup Elements(more)
    BY <2>3, <1>0, ElementsOfJoin
  <2> QED
    BY <2>1, <2>3, <2>4, <1>0
<1> QED
  BY <1>1, <1>2, <1>3

LEMMA BlockFits ==
  ASSUME IsFile(file), NEW t, t.block \in Written, t.block.is = "block", t.form \in DOMAIN forms
  PROVE  IsList(BlockCalls(t)) /\ \A c \in Elements(BlockCalls(t)) : Fitting(c)
<1> DEFINE types == [i \in TypedIn(t.block, forms[t.form]) |-> Expected(t.block, FindKey(forms[t.form], t.block.body[i].key))]
           values == ValueTasks(t.block, types, t.at)
           close == [do |-> "close", at |-> t.at, block |-> t.block, form |-> t.form]
<1>1. DOMAIN types \subseteq {i \in DOMAIN t.block.body : t.block.body[i].value # Nothing}
  BY DEF TypedIn
<1>2. BlockCalls(t) = Append(values, close)
  BY DEF BlockCalls
<1>3. Fitting(close)
  BY DEF Fitting, OfStatements
<1> HIDE DEF types, close
<1>4. IsList(values) /\ \A c \in Elements(values) : Fitting(c)
  BY <1>1, CallsOfValues
<1> HIDE DEF values
<1>5. IsList(<<close>>) /\ \A c \in Elements(<<close>>) : Fitting(c)
  BY <1>3, LoneCall
<1>6. BlockCalls(t) = values \o <<close>>
  BY <1>2, <1>4, AppendIsJoin
<1>7. /\ IsList(values \o <<close>>)
      /\ Elements(values \o <<close>>) = Elements(values) \cup Elements(<<close>>)
  BY <1>4, <1>5, ElementsOfJoin
<1> QED
  BY <1>4, <1>5, <1>6, <1>7

LEMMA RecordFits ==
  ASSUME IsFile(file), NEW v \in Written, v.is = "block", NEW type, NEW at
  PROVE  IsList(RecordCalls(v, type, at)) /\ \A c \in Elements(RecordCalls(v, type, at)) : Fitting(c)
<1>1. CASE IsRecord(v) /\ IsMap(type)
  <2> DEFINE types == [i \in {i \in DOMAIN v.body : v.body[i].value # Nothing} |-> type.args[2]]
  <2>1. DOMAIN types = {i \in DOMAIN v.body : v.body[i].value # Nothing}
    OBVIOUS
  <2>2. RecordCalls(v, type, at) = ValueTasks(v, types, at)
    BY <1>1 DEF RecordCalls
  <2> HIDE DEF types
  <2>3. IsList(ValueTasks(v, types, at)) /\ \A c \in Elements(ValueTasks(v, types, at)) : Fitting(c)
    BY <2>1, CallsOfValues
  <2> QED
    BY <2>2, <2>3
<1>2. CASE IsRecord(v) /\ ~IsMap(type) /\ OfForm(type) /\ type.args[1].name \in DOMAIN forms
  <2> DEFINE b == [do |-> "block", at |-> at, block |-> v, form |-> type.args[1].name]
  <2>1. RecordCalls(v, type, at) = <<b>>
    BY <1>2 DEF RecordCalls
  <2>2. Fitting(b)
    BY <1>2 DEF Fitting, OfStatements
  <2> HIDE DEF b
  <2> QED
    BY <2>1, <2>2, LoneCall
<1>3. CASE ~IsRecord(v) \/ (~IsMap(type) /\ ~(OfForm(type) /\ type.args[1].name \in DOMAIN forms))
  <2>1. RecordCalls(v, type, at) = <<>>
    BY <1>3 DEF RecordCalls
  <2> QED
    BY <2>1, NoCalls
<1> QED
  BY <1>1, <1>2, <1>3

LEMMA InstanceCallsFit ==
  ASSUME IsFile(file), NEW v \in Written, v.is = "block", NEW c, NEW at
  PROVE  IsList(InstanceCalls(v, c, at)) /\ \A d \in Elements(InstanceCalls(v, c, at)) : Fitting(d)
<1> DEFINE type(i) == ResolveProperty(v.body[i].key, LocalPropDefs(v), c)
           types == [i \in {i \in DOMAIN v.body : v.body[i].value # Nothing /\ type(i) # Nothing} |-> type(i)]
<1>1. DOMAIN types \subseteq {i \in DOMAIN v.body : v.body[i].value # Nothing}
  OBVIOUS
<1>2. InstanceCalls(v, c, at) = ValueTasks(v, types, at)
  BY DEF InstanceCalls
<1> HIDE DEF types
<1>3. IsList(ValueTasks(v, types, at)) /\ \A d \in Elements(ValueTasks(v, types, at)) : Fitting(d)
  BY <1>1, CallsOfValues
<1> QED
  BY <1>2, <1>3

LEMMA TypesFit ==
  ASSUME NEW types \in SUBSET KnownTypes
  PROVE  IsList(TypeTask(types)) /\ \A c \in Elements(TypeTask(types)) : Fitting(c)
<1> DEFINE c == [do |-> "type", at |-> Registry, types |-> types]
<1>1. Fitting(c)
  BY DEF Fitting, OfStatements
<1>2. TypeTask(types) = IF types = {} THEN <<>> ELSE <<c>>
  BY DEF TypeTask
<1> HIDE DEF c
<1> QED
  BY <1>1, <1>2, LoneCall, NoCalls

\* Whatever fits calls what fits.
LEMMA CallsFit ==
  ASSUME Parsed, NEW t, Fitting(t)
  PROVE  IsList(Calls(t)) /\ \A c \in Elements(Calls(t)) : Fitting(c)
<1>0. IsFile(file)
  BY DEF Parsed
<1>1. CASE t.do = "annotations"
  BY <1>1, <1>0, CallsOfVisit DEF Calls
<1>2. CASE t.do = "top"
  <2>1. Calls(t) = TopCalls(t.statement, t.at) /\ t.statement.value \in Written \cup {Nothing}
    BY <1>2 DEF Calls, Fitting
  <2> QED
    BY <2>1, <1>0, TopFits
<1>3. CASE t.do = "block"
  BY <1>3, <1>0, BlockFits DEF Calls, Fitting
<1>4. CASE t.do = "value"
  <2>1. CASE Records(t)
    <3>1. t.value \in Written /\ t.value.is = "block"
      BY <1>4, <2>1 DEF Records, Filled, IsBlock, Fitting
    <3>2. Calls(t) = RecordCalls(t.value, SlotType(t), t.at)
      BY <1>4, <2>1 DEF Calls
    <3> QED
      BY <3>1, <3>2, <1>0, RecordFits
  <2>2. CASE ~Records(t)
    <3>1. Calls(t) = <<>>
      BY <1>4, <2>2 DEF Calls
    <3> QED
      BY <3>1, NoCalls
  <2> QED
    BY <2>1, <2>2
<1>5. CASE t.do = "instance"
  BY <1>5, <1>0, InstanceCallsFit DEF Calls, Fitting
<1>6. CASE t.do = "types"
  BY <1>6, DeclaredAreKnown, TypesFit DEF Calls
<1>7. CASE t.do = "type"
  BY <1>7, BelowAreKnown, TypesFit DEF Calls, Fitting
<1>8. CASE t.do \notin {"annotations", "top", "block", "value", "instance", "types", "type"}
  <2>1. Calls(t) = <<>>
    BY <1>8 DEF Calls
  <2> QED
    BY <2>1, NoCalls
<1> QED
  BY <1>1, <1>2, <1>3, <1>4, <1>5, <1>6, <1>7, <1>8

-----------------------------------------------------------------------------
(* What is due: the agenda, and whatever what is due calls *)

TypesTask == [do |-> "types", at |-> Registry]
IndexTasks ==
  Elements(EveryFile("add_uses")) \cup {[do |-> "globals"]} \cup Elements(EveryFile("add_texts")) \cup {[do |-> "texts"]}

LEMMA AgendaIs ==
  ASSUME Parsed
  PROVE  /\ IsList(Agenda)
         /\ Elements(Agenda) =
              Elements(ForEach("annotations")) \cup Elements(ForEach("top")) \cup {TypesTask}
                \cup Elements(ForEach("placement")) \cup Elements(ForEach("properties")) \cup IndexTasks
<1>1. \A pass : IsList(ForEach(pass))
  <2> TAKE pass
  <2>1. PICK s : s = ForEach(pass)
    OBVIOUS
  <2>2. s = [i \in DOMAIN file |-> s[i]]
    BY <2>1 DEF ForEach
  <2> QED
    BY <2>1, <2>2, FunctionIsList DEF Parsed, IsFile
<1>2. \A pass : IsList(EveryFile(pass))
  <2> TAKE pass
  <2>1. IsList(Files)
    BY LoneList, ElementsOfJoin DEF Files, Parsed
  <2>2. PICK s : s = EveryFile(pass)
    OBVIOUS
  <2>3. s = [i \in DOMAIN Files |-> s[i]]
    BY <2>2 DEF EveryFile
  <2> QED
    BY <2>1, <2>2, <2>3, FunctionIsList
<1> DEFINE a1 == ForEach("annotations") \o ForEach("top")
           a2 == a1 \o <<TypesTask>>
           a3 == a2 \o ForEach("placement")
           a4 == a3 \o ForEach("properties")
           a5 == a4 \o EveryFile("add_uses")
           a6 == a5 \o <<[do |-> "globals"]>>
           a7 == a6 \o EveryFile("add_texts")
           a8 == a7 \o <<[do |-> "texts"]>>
<1>3. Agenda = a8
  BY DEF Agenda, TypesTask
<1>4. IsList(a1) /\ Elements(a1) = Elements(ForEach("annotations")) \cup Elements(ForEach("top"))
  BY <1>1, ElementsOfJoin
<1> HIDE DEF a1
<1>5. IsList(a2) /\ Elements(a2) = Elements(a1) \cup {TypesTask}
  BY <1>4, LoneList, ElementsOfJoin
<1> HIDE DEF a2
<1>6. IsList(a3) /\ Elements(a3) = Elements(a2) \cup Elements(ForEach("placement"))
  BY <1>5, <1>1, ElementsOfJoin
<1> HIDE DEF a3
<1>7. IsList(a4) /\ Elements(a4) = Elements(a3) \cup Elements(ForEach("properties"))
  BY <1>6, <1>1, ElementsOfJoin
<1> HIDE DEF a4
<1>8. IsList(a5) /\ Elements(a5) = Elements(a4) \cup Elements(EveryFile("add_uses"))
  BY <1>7, <1>2, ElementsOfJoin
<1> HIDE DEF a5
<1>9. IsList(a6) /\ Elements(a6) = Elements(a5) \cup {[do |-> "globals"]}
  BY <1>8, LoneList, ElementsOfJoin
<1> HIDE DEF a6
<1>10. IsList(a7) /\ Elements(a7) = Elements(a6) \cup Elements(EveryFile("add_texts"))
  BY <1>9, <1>2, ElementsOfJoin
<1> HIDE DEF a7
<1>11. IsList(a8) /\ Elements(a8) = Elements(a7) \cup {[do |-> "texts"]}
  BY <1>10, LoneList, ElementsOfJoin
<1> HIDE DEF a8
<1> QED
  BY <1>3, <1>4, <1>5, <1>6, <1>7, <1>8, <1>9, <1>10, <1>11 DEF IndexTasks

LEMMA AgendaFits ==
  ASSUME Parsed
  PROVE  \A t \in Elements(Agenda) : Fitting(t)
<1>1. ASSUME NEW pass \in {"annotations", "top", "placement", "properties"}, NEW t \in Elements(ForEach(pass))
      PROVE  Fitting(t)
  <2>1. PICK i \in DOMAIN file : t = [do |-> pass, at |-> <<i>>, statement |-> file[i], top |-> TRUE]
    BY DEF Elements, ForEach
  <2>2. t.do = pass /\ t.statement.value \in Written \cup {Nothing}
    BY <2>1, StatementsAreWritten
  <2> QED
    BY <1>1, <2>2 DEF Fitting
<1>2. ASSUME NEW t \in IndexTasks \cup {TypesTask}
      PROVE  t.do \in {"types", "add_uses", "globals", "add_texts", "texts"}
  BY DEF IndexTasks, TypesTask, Elements, EveryFile
<1>3. \A t \in IndexTasks \cup {TypesTask} : Fitting(t)
  BY <1>2 DEF Fitting, OfStatements
<1> QED
  BY <1>1, <1>3, AgendaIs

\* A chain of calls from the agenda to a task.
Chained(d, n) ==
  /\ d[1] \in Elements(Agenda)
  /\ \A k \in 1..(n - 1) : d[k + 1] \in Elements(Calls(d[k]))

Due(t) == \E n \in Nat \ {0} : \E d : Chained(d, n) /\ d[n] = t

LEMMA AgendaIsDue ==
  ASSUME NEW t \in Elements(Agenda)
  PROVE  Due(t)
<1>1. Chained([k \in 1..1 |-> t], 1)
  BY DEF Chained
<1> QED
  BY <1>1 DEF Due

LEMMA CallsAreDue ==
  ASSUME NEW t, Due(t), NEW c \in Elements(Calls(t))
  PROVE  Due(c)
<1>0. PICK n \in Nat \ {0} : \E d : Chained(d, n) /\ d[n] = t
  BY DEF Due
<1>1. PICK d : Chained(d, n) /\ d[n] = t
  BY <1>0
<1> DEFINE e == [k \in 1..(n + 1) |-> IF k = n + 1 THEN c ELSE d[k]]
<1>2. e[1] = d[1] /\ e[n + 1] = c /\ n + 1 \in Nat \ {0}
  OBVIOUS
<1>3. \A k \in 1..n : e[k + 1] \in Elements(Calls(e[k]))
  <2> TAKE k \in 1..n
  <2>1. e[k] = d[k]
    OBVIOUS
  <2>2. CASE k = n
    BY <2>1, <2>2, <1>1, <1>2
  <2>3. CASE k # n
    <3>1. k \in 1..(n - 1) /\ e[k + 1] = d[k + 1]
      BY <2>3
    <3> QED
      BY <3>1, <2>1, <1>1 DEF Chained
  <2> QED
    BY <2>2, <2>3
<1> HIDE DEF e
<1>4. (n + 1) - 1 = n
  OBVIOUS
<1>5. Chained(e, n + 1)
  BY <1>1, <1>2, <1>3, <1>4 DEF Chained
<1> QED
  BY <1>2, <1>5 DEF Due

\* What holds at the first link and at each after a link at which it holds,
\* holds at the last.
LEMMA AlongAChain ==
  ASSUME NEW n \in Nat \ {0}, NEW S, 1 \in S, \A k \in 1..(n - 1) : k \in S => k + 1 \in S
  PROVE  n \in S
<1> DEFINE T == {k \in 1..n : k \notin S}
<1> SUFFICES ASSUME T # {}  PROVE FALSE
  OBVIOUS
<1>1. T \in SUBSET Nat
  OBVIOUS
<1>2. PICK m \in T : \A k \in T : m <= k
  BY <1>1, NatLeast
<1>3. m # 1 /\ m - 1 \in 1..(n - 1) /\ m - 1 \notin T /\ m - 1 \in 1..n /\ (m - 1) + 1 = m
  BY <1>2
<1> QED
  BY <1>2, <1>3

LEMMA DueFits ==
  ASSUME Parsed, NEW t, Due(t)
  PROVE  Fitting(t)
<1>0. PICK n \in Nat \ {0} : \E d : Chained(d, n) /\ d[n] = t
  BY DEF Due
<1>1. PICK d : Chained(d, n) /\ d[n] = t
  BY <1>0
<1> DEFINE S == {k \in 1..n : Fitting(d[k])}
<1>2. 1 \in S
  BY <1>1, AgendaFits DEF Chained
<1>3. ASSUME NEW k \in 1..(n - 1), k \in S  PROVE k + 1 \in S
  BY <1>1, <1>3, CallsFit DEF Chained
<1>4. n \in S
  <2> HIDE DEF S
  <2> QED
    BY <1>2, <1>3, AlongAChain
<1> QED
  BY <1>1, <1>4

-----------------------------------------------------------------------------
(* Reports are those of what is due *)

\* Of every chain, what the last task finds is reported, or the agenda still
\* holds a task of it.
Covered ==
  \A n \in Nat \ {0} : \A d :
    Chained(d, n) => Found(d[n]) \subseteq reports \/ \E k \in 1..n : d[k] \in Elements(todo)

Going ==
  /\ Parsed
  /\ IsList(todo)
  /\ \A t \in Elements(todo) : Due(t)
  /\ \A r \in reports : \E t : Due(t) /\ r \in Found(t)
  /\ Covered

LEMMA GoingStarts == BlocksInit => Going
<1> SUFFICES ASSUME BlocksInit  PROVE Going
  OBVIOUS
<1>1. Parsed
  BY ProgramsAssumption DEF BlocksInit, Parsed
<1>2. IsList(todo) /\ todo = Agenda
  BY <1>1, AgendaIs DEF BlocksInit
<1>3. \A t \in Elements(todo) : Due(t)
  BY <1>2, AgendaIsDue
<1>4. Covered
  <2> SUFFICES ASSUME NEW n \in Nat \ {0}, NEW d, Chained(d, n)
               PROVE  \E k \in 1..n : d[k] \in Elements(todo)
    BY DEF Covered
  <2>1. 1 \in 1..n
    OBVIOUS
  <2> QED
    BY <2>1, <1>2 DEF Chained
<1>5. reports = {}
  BY DEF BlocksInit
<1> QED
  BY <1>1, <1>2, <1>3, <1>4, <1>5 DEF Going

LEMMA SteadyDue ==
  ASSUME UNCHANGED <<loaded, file, others>>
  PROVE  /\ Parsed' = Parsed
         /\ \A d, n : Chained(d, n)' = Chained(d, n)
         /\ \A t : Due(t)' = Due(t)
         /\ \A t : Found(t)' = Found(t) /\ Calls(t)' = Calls(t)
<1>1. \A t : Found(t)' = Found(t) /\ Calls(t)' = Calls(t)
  BY SteadyFound, SteadyCalls
<1>2. Agenda' = Agenda
  BY DEF Agenda, ForEach, EveryFile, Files
<1>3. \A d, n : Chained(d, n)' = Chained(d, n)
  BY <1>1, <1>2 DEF Chained, Elements
<1>4. \A t : Due(t)' = Due(t)
  BY <1>3 DEF Due
<1> QED
  BY <1>1, <1>3, <1>4 DEF Parsed, IsFile, loaded

LEMMA GoingOn == Going /\ BlocksNext => Going'
<1> SUFFICES ASSUME Going, BlocksNext  PROVE Going'
  OBVIOUS
<1>1. /\ todo # <<>>
      /\ todo' = Calls(Task) \o Tail(todo) \/ (Calls(Task) = <<>> /\ todo' = Tail(todo))
      /\ reports' = reports \cup Found(Task)
      /\ UNCHANGED <<loaded, file, others>>
  BY StepCarries
<1>2. IsList(Tail(todo)) /\ Elements(todo) = {Task} \cup Elements(Tail(todo))
  BY <1>1, TailOfList DEF Going, Task
<1>3. Due(Task) /\ Fitting(Task)
  BY <1>2, DueFits DEF Going
<1>4. IsList(Calls(Task))
  BY <1>3, CallsFit DEF Going
<1>5. IsList(todo') /\ Elements(todo') = Elements(Calls(Task)) \cup Elements(Tail(todo))
  <2>1. CASE todo' = Calls(Task) \o Tail(todo)
    BY <2>1, <1>2, <1>4, ElementsOfJoin
  <2>2. CASE Calls(Task) = <<>> /\ todo' = Tail(todo)
    BY <2>2, <1>2, NoList
  <2> QED
    BY <2>1, <2>2, <1>1
<1>6. \A t \in Elements(todo') : Due(t)
  BY <1>2, <1>3, <1>5, CallsAreDue DEF Going
<1>7. \A r \in reports' : \E t : Due(t) /\ r \in Found(t)
  BY <1>1, <1>3 DEF Going
<1>8. ASSUME NEW n \in Nat \ {0}, NEW d, Chained(d, n)
      PROVE  Found(d[n]) \subseteq reports' \/ \E k \in 1..n : d[k] \in Elements(todo')
  <2>1. CASE Found(d[n]) \subseteq reports
    BY <2>1, <1>1
  <2>2. CASE \E k \in 1..n : d[k] \in Elements(todo)
    <3>1. PICK k \in 1..n : d[k] \in Elements(todo)
      BY <2>2
    <3>2. CASE d[k] \in Elements(Tail(todo))
      BY <3>1, <3>2, <1>5
    <3>3. CASE d[k] = Task /\ k = n
      BY <3>3, <1>1
    <3>4. CASE d[k] = Task /\ k # n
      <4>1. k \in 1..(n - 1) /\ k + 1 \in 1..n
        BY <3>4
      <4>2. d[k + 1] \in Elements(Calls(Task))
        BY <4>1, <3>4, <1>8 DEF Chained
      <4> QED
        BY <4>1, <4>2, <1>5
    <3> QED
      BY <3>1, <3>2, <3>3, <3>4, <1>2
  <2> QED
    BY <2>1, <2>2, <1>8 DEF Going, Covered
<1>9. /\ Parsed'
      /\ \A d, n : Chained(d, n)' = Chained(d, n)
      /\ \A t : Due(t)' = Due(t)
      /\ \A t : Found(t)' = Found(t)
  BY <1>1, SteadyDue DEF Going
<1>10. IsList(todo)' /\ Elements(todo)' = Elements(todo')
  BY <1>5 DEF IsList, Elements
<1>11. Covered'
  BY <1>8, <1>9, <1>10 DEF Covered
<1> QED
  BY <1>6, <1>7, <1>9, <1>10, <1>11 DEF Going

LEMMA GoesOn == BlocksSpec => []Going
<1>1. Going /\ UNCHANGED blocks => Going'
  <2> SUFFICES ASSUME Going, UNCHANGED blocks  PROVE Going'
    OBVIOUS
  <2>1. UNCHANGED <<loaded, file, others>> /\ UNCHANGED <<todo, reports>>
    BY DEF blocks, naming
  <2>2. /\ Parsed' = Parsed
        /\ \A d, n : Chained(d, n)' = Chained(d, n)
        /\ \A t : Due(t)' = Due(t)
        /\ \A t : Found(t)' = Found(t)
    BY <2>1, SteadyDue
  <2>3. IsList(todo)' = IsList(todo) /\ Elements(todo)' = Elements(todo)
    BY <2>1 DEF IsList, Elements
  <2>4. Covered' = Covered
    BY <2>1, <2>2, <2>3 DEF Covered
  <2> QED
    BY <2>1, <2>2, <2>3, <2>4 DEF Going
<1>2. Going /\ [BlocksNext]_blocks => Going'
  BY <1>1, GoingOn
<1> QED
  BY <1>2, GoingStarts, PTL DEF BlocksSpec

\* Once every call has returned, what is reported is what the tasks find
\* that the agenda leads to: nothing is reported twice over or from
\* elsewhere, and nothing is dropped on the way.
DueReported == Done => \A r : r \in reports <=> \E t : Due(t) /\ r \in Found(t)

LEMMA DoneReports ==
  ASSUME Going, Done
  PROVE  /\ Parsed
         /\ \A r : r \in reports <=> \E t : Due(t) /\ r \in Found(t)
<1>1. Elements(todo) = {}
  BY NoList DEF Done
<1>2. ASSUME NEW t, Due(t)  PROVE Found(t) \subseteq reports
  <2>0. PICK n \in Nat \ {0} : \E d : Chained(d, n) /\ d[n] = t
    BY <1>2 DEF Due
  <2>1. PICK d : Chained(d, n) /\ d[n] = t
    BY <2>0
  <2> QED
    BY <2>1, <1>1 DEF Going, Covered
<1> QED
  BY <1>2 DEF Going

\* The whole of fold_all: its reports are exactly those of the calls that
\* follow from the program, in whatever order the calls are made.
THEOREM ReportsAreDue == BlocksSpec => []DueReported
<1>1. Going => DueReported
  BY DoneReports DEF DueReported
<1> QED
  BY <1>1, GoesOn, PTL

-----------------------------------------------------------------------------
(* Codes and places *)

CodesOf(pass) ==
  CASE pass = "annotations" ->
         {"UnknownAnnotation", "AnnotationArgument", "AnnotationMisapplied", "AnnotationConflict"}
    [] pass = "top" -> {"UnknownKey"}
    [] pass = "block" -> {"UnknownKey", "DuplicateKey"}
    [] pass = "close" -> {"KeyMissing", "ExclusiveMissing", "ExclusiveGroup"}
    [] pass = "value" -> {"TypeMismatch", "RefUnresolved", "TemplateBrackets"}
    [] pass = "instance" -> {"SchemaInvalid", "UnknownKey", "PropDefRedundant", "PropDefTypeMismatch"}
    [] pass \in {"types", "type"} -> {"SchemaInvalid"}
    [] pass = "placement" -> {"PlacementConflict"}
    [] pass = "properties" -> {"PropUnknown"}
    [] OTHER -> {}

LEMMA ScalarCodes ==
  \A v, type, at : \A r \in CheckScalar(v, type, at) : r.code \in CodesOf("value") /\ r.at = at
BY DEF CheckScalar, CheckReference, Mismatch, Note, CodesOf

LEMMA ValueCodesFound ==
  \A t : \A r \in ValueFound(t) :
    /\ r.code \in CodesOf("value")
    /\ r.at = t.at \/ \E i \in DOMAIN t.value.values \cup DOMAIN t.value.body : r.at = Append(t.at, i)
<1> TAKE t
<1> DEFINE Fine(r) == /\ r.code \in CodesOf("value")
                      /\ \/ r.at = t.at
                         \/ \E i \in DOMAIN t.value.values \cup DOMAIN t.value.body : r.at = Append(t.at, i)
<1>1. \A r \in Mismatch(t.at) : Fine(r)
  BY DEF Mismatch, Note, CodesOf
<1>2. \A r \in PlainReports(t.value, SlotType(t), t.at) : Fine(r)
  BY <1>1, ScalarCodes DEF PlainReports
<1>3. \A i, r : r = Note("TypeMismatch", Append(t.at, i)) => r.code \in CodesOf("value") /\ r.at = Append(t.at, i)
  BY DEF Note, CodesOf
<1>4. \A r \in CollectionReports(t.value, SlotType(t), t.at) : Fine(r)
  <2>1. \A i \in DOMAIN t.value.values : \A element :
           \A r \in EntryReports(t.value.values[i], element, Append(t.at, i)) :
              r.code \in CodesOf("value") /\ r.at = Append(t.at, i)
    <3> TAKE i \in DOMAIN t.value.values
    <3> TAKE element
    <3> TAKE r \in EntryReports(t.value.values[i], element, Append(t.at, i))
    <3>1. PICK v, type, at : r \in CheckScalar(v, type, at) /\ at = Append(t.at, i)
      BY DEF EntryReports
    <3>2. r.code \in CodesOf("value") /\ r.at = at
      BY <3>1, ScalarCodes
    <3> QED
      BY <3>1, <3>2
  <2> TAKE r \in CollectionReports(t.value, SlotType(t), t.at)
  <2>2. \/ r \in Mismatch(t.at)
        \/ \E i \in DOMAIN t.value.values : r \in EntryReports(t.value.values[i], Element(SlotType(t)), Append(t.at, i))
        \/ \E i \in DOMAIN t.value.values : r = Note("TypeMismatch", Append(t.at, i))
    BY DEF CollectionReports
  <2> QED
    BY <2>1, <2>2, <1>1, <1>3
<1>5. \A r \in RecordReports(t.value, SlotType(t), t.at) : Fine(r)
  BY <1>1, <1>3 DEF RecordReports
<1> QED
  BY <1>1, <1>2, <1>4, <1>5 DEF ValueFound

LEMMA GroupCodes ==
  ASSUME NEW block, NEW form, NEW group, NEW at, NEW n \in GroupReports(block, form, group, at)
  PROVE  n.code \in {"ExclusiveMissing", "ExclusiveGroup"}
<1> DEFINE present == {k \in Members(form, group) : With(block, form.keys[k].name) # {}}
           place(k) == Least(With(block, form.keys[k].name))
           first == Least(present)
           second == Least(present \ {first})
<1>1. n \in CASE present = {} -> IF \E k \in Members(form, group) : form.keys[k].required
                                THEN {Note("ExclusiveMissing", at)} ELSE {}
            [] present = {first} -> {}
            [] OTHER -> IF Meet(block.body[place(first)], block.body[place(second)])
                        THEN {Note("ExclusiveGroup", Append(at, place(second)))} ELSE {}
  BY DEF GroupReports
<1> HIDE DEF present, place, first, second
<1>2. n = Note("ExclusiveMissing", at) \/ n = Note("ExclusiveGroup", Append(at, place(second)))
  BY <1>1
<1> QED
  BY <1>2 DEF Note

LEMMA FoundCodes ==
  \A t : \A r \in Found(t) : r.code \in CodesOf(t.do)
<1> TAKE t
<1> SUFFICES ASSUME NEW r \in Found(t)  PROVE r.code \in CodesOf(t.do)
  OBVIOUS
<1>1. CASE t.do = "annotations"
  <2>1. r \in CheckValueAnnotations(t.statement.value, t.top, t.at)
    BY <1>1 DEF Found, VisitReports
  <2>2. \A a, at : \A n \in CheckArguments(a, at) : n.code = "AnnotationArgument"
    BY DEF CheckArguments, BadArgument, UnknownFrontends, Note
  <2>3. \/ \E i : r \in CheckArguments(t.statement.value.notes[i], Append(t.at, i))
        \/ \E i : \/ r = Note("UnknownAnnotation", Append(t.at, i))
                  \/ r = Note("AnnotationMisapplied", Append(t.at, i))
                  \/ r = Note("AnnotationConflict", Append(t.at, i))
    BY <2>1 DEF CheckValueAnnotations
  <2> QED
    BY <1>1, <2>2, <2>3 DEF Note, CodesOf
<1>2. CASE t.do = "top"
  BY <1>2 DEF Found, TopReports, Note, CodesOf
<1>3. CASE t.do = "block"
  BY <1>3 DEF Found, BlockReports, Note, CodesOf
<1>4. CASE t.do = "close"
  <2>1. \A block, form, group, at : \A n \in GroupReports(block, form, group, at) :
           n.code \in {"ExclusiveMissing", "ExclusiveGroup"}
    BY GroupCodes
  <2>2. r \in CloseReports(t.block, forms[t.form], t.at)
    BY <1>4 DEF Found
  <2>3. \/ r = Note("KeyMissing", t.at)
        \/ \E g \in GroupsOf(forms[t.form]) : r \in GroupReports(t.block, forms[t.form], g, t.at)
    BY <2>2 DEF CloseReports
  <2> QED
    BY <1>4, <2>1, <2>3 DEF Note, CodesOf
<1>5. CASE t.do = "value"
  BY <1>5, ValueCodesFound DEF Found
<1>6. CASE t.do = "instance"
  <2>1. r \in PropDefReports(t.block, t.at) \cup CheckLocalPropDefs(LocalPropDefs(t.block), t.class, t.at)
    BY <1>6 DEF Found, InstanceReports
  <2>2. CASE r \in PropDefReports(t.block, t.at)
    <3>1. \E at : r = Note("SchemaInvalid", at) \/ r = Note("UnknownKey", at)
      BY <2>2 DEF PropDefReports
    <3> QED
      BY <1>6, <3>1 DEF Note, CodesOf
  <2>3. CASE r \in CheckLocalPropDefs(LocalPropDefs(t.block), t.class, t.at)
    <3>1. \E at : r = Note("PropDefRedundant", at) \/ r = Note("PropDefTypeMismatch", at)
      BY <2>3 DEF CheckLocalPropDefs
    <3> QED
      BY <1>6, <3>1 DEF Note, CodesOf
  <2> QED
    BY <2>1, <2>2, <2>3
<1>7. CASE t.do \in {"types", "type"}
  BY <1>7 DEF Found, TypesReports, Note, CodesOf
<1>8. CASE t.do = "placement"
  BY <1>8 DEF Found, PlacementReports, Note, CodesOf
<1>9. CASE t.do = "properties"
  BY <1>9 DEF Found, UnknownProperties, Note, CodesOf
<1>10. CASE t.do \notin {"annotations", "top", "block", "close", "value", "instance", "types", "type",
                         "placement", "properties"}
  BY <1>10 DEF Found
<1> QED
  BY <1>1, <1>2, <1>3, <1>4, <1>5, <1>6, <1>7, <1>8, <1>9, <1>10

\* The tasks of a pass over the statements are the calls it starts with.
LEMMA PassIsDue ==
  ASSUME Parsed, NEW pass \in {"annotations", "top", "placement", "properties"}, NEW i \in DOMAIN file
  PROVE  Due([do |-> pass, at |-> <<i>>, statement |-> file[i], top |-> TRUE])
<1>1. [do |-> pass, at |-> <<i>>, statement |-> file[i], top |-> TRUE] \in Elements(ForEach(pass))
  BY DEF Elements, ForEach
<1> QED
  BY <1>1, AgendaIs, AgendaIsDue

LEMMA OfAStatement ==
  ASSUME Parsed, NEW t, Due(t), t.do \in OfStatements
  PROVE  \E i \in DOMAIN file : t = [do |-> t.do, at |-> <<i>>, statement |-> file[i], top |-> TRUE]
<1>1. t \in Elements(ForEach(t.do))
  BY DueFits DEF Fitting
<1> QED
  BY <1>1 DEF Elements, ForEach

-----------------------------------------------------------------------------
(* Keys of objects *)

LEMMA HasIsDeclared ==
  ASSUME NEW c \in Declared, NEW name
  PROVE  Has(c, name) <=> FindDeclared(c, name) # Nothing
<1>1. DOMAIN Lineage(c) = 0..(MaxDepth - 1)
  BY LineageUnfolds DEF Law
<1>2. Inherited(c, name) # Nothing <=>
        \E d \in 0..(MaxDepth - 1), a \in Declared : Lineage(c)[d] = a /\ HereOrByTrait(a, name) # Nothing
  BY InheritedSomewhere
<1> QED
  BY <1>1, <1>2 DEF Has, DescendsFrom, FindDeclared

\* The declarations in a block of the file stand in an order.
LEMMA EarliestExists ==
  ASSUME NEW P \in SUBSET (Nat \X Nat), P # {}
  PROVE  \E p \in P : \A q \in P : Earlier(p, q)
<1> DEFINE I == {p[1] : p \in P}
<1>1. PICK i \in I : \A k \in I : i <= k
  <2>1. I \in SUBSET Nat /\ I # {}
    OBVIOUS
  <2> HIDE DEF I
  <2> QED
    BY <2>1, NatLeast
<1> DEFINE J == {p[2] : p \in {p \in P : p[1] = i}}
<1>2. PICK j \in J : \A k \in J : j <= k
  <2>1. J \in SUBSET Nat /\ J # {}
    BY <1>1
  <2> HIDE DEF J
  <2> QED
    BY <2>1, NatLeast
<1>3. PICK p \in P : p[1] = i /\ p[2] = j
  BY <1>2
<1>4. \A q \in P : Earlier(p, q)
  BY <1>1, <1>2, <1>3 DEF Earlier
<1> QED
  BY <1>3, <1>4

LEMMA OwnDeclarations ==
  ASSUME IsFile(file), NEW b \in Written, b.is = "block", NEW name
  PROVE  LET own == {d \in LocalPropDefs(b) : d.name = name}
         IN  own # {} => \E d \in own : \A e \in own : Earlier(d.place, e.place)
<1> DEFINE own == {d \in LocalPropDefs(b) : d.name = name}
           P == {d.place : d \in own}
<1> SUFFICES ASSUME own # {}  PROVE \E d \in own : \A e \in own : Earlier(d.place, e.place)
  OBVIOUS
<1>1. IsList(b.body) /\ \A i \in DOMAIN b.body : b.body[i].value \in Written \cup {Nothing}
  BY InBlock
<1>2. ASSUME NEW i \in With(b, "prop_def"), IsBlock(b.body[i].value)
      PROVE  i \in Nat /\ DOMAIN b.body[i].value.body \subseteq Nat
  <2>1. i \in DOMAIN b.body /\ b.body[i].value \in Written /\ b.body[i].value.is = "block"
    BY <1>1, <1>2 DEF With, IsBlock
  <2>2. IsList(b.body[i].value.body)
    BY <2>1, InBlock
  <2> QED
    BY <2>1, <2>2, <1>1, ListHas
<1>3. PropPlaces(b) \subseteq Nat \X Nat
  BY <1>2 DEF PropPlaces
<1>4. P \in SUBSET (Nat \X Nat) /\ P # {}
  BY <1>3 DEF LocalPropDefs
<1>5. PICK p \in P : \A q \in P : Earlier(p, q)
  <2> HIDE DEF P
  <2> QED
    BY <1>4, EarliestExists
<1> QED
  BY <1>5

\* What a key of an object resolves to: its own declaration or its class's.
LEMMA ResolvedWhere ==
  ASSUME IsFile(file), NEW b \in Written, b.is = "block", NEW name, NEW c
  PROVE  ResolveProperty(name, LocalPropDefs(b), c) # Nothing <=>
           name \in OwnNames(b) \/ FindDeclared(c, name) # Nothing
<1> DEFINE own == {d \in LocalPropDefs(b) : d.name = name}
<1>1. own # {} <=> name \in OwnNames(b)
  BY DEF OwnNames
<1>2. CASE own = {}
  BY <1>1, <1>2 DEF ResolveProperty
<1>3. CASE own # {}
  <2> DEFINE first == CHOOSE d \in own : \A e \in own : Earlier(d.place, e.place)
  <2>1. \E d \in own : \A e \in own : Earlier(d.place, e.place)
    BY <1>3, OwnDeclarations
  <2>2. first \in own
    <3> HIDE DEF own
    <3> QED
      BY <2>1
  <2>3. first.type # Nothing
    <3> HIDE DEF first
    <3> QED
      BY <2>2 DEF LocalPropDefs
  <2>4. ResolveProperty(name, LocalPropDefs(b), c) = first.type
    BY <1>3 DEF ResolveProperty
  <2> QED
    BY <2>3, <2>4, <1>1, <1>3
<1> QED
  BY <1>2, <1>3

\* A key of an object that nothing gives it and that means nothing by itself
\* is reported, and none is that its own declarations or its class give it,
\* whatever the classes, the traits and the declarations are:
\* check_instance_properties looks a key up as check_instantiation does.
\* (What both leave out, the traits an object mixes in itself, is why the
\* property, unlike the statement proved first, is no equivalence.)
THEOREM KeysAreAnswered == BlocksSpec => []EveryKeyAnswered
<1>1. ASSUME Going  PROVE EveryKeyAnswered
  <2> SUFFICES ASSUME Done, NEW i \in DOMAIN file, Instantiates(i), NEW j \in DOMAIN file[i].value.body
               PROVE  LET b == file[i].value
                          name == b.body[j].key
                      IN  Note("PropUnknown", <<i, j>>) \in reports <=>
                             /\ name \notin OwnNames(b) /\ ~Has(ReadObjectClass(file[i]), name)
                             /\ name \notin Structural \cup Relations
    BY Zenon DEF EveryKeyAnswered
  <2> DEFINE b == file[i].value
             c == ReadObjectClass(file[i])
             name == b.body[j].key
             task(k) == [do |-> "properties", at |-> <<k>>, statement |-> file[k], top |-> TRUE]
             note == Note("PropUnknown", <<i, j>>)
  <2>1. Parsed /\ \A r : r \in reports <=> \E t : Due(t) /\ r \in Found(t)
    BY <1>1, DoneReports
  <2>2. b \in Written /\ b.is = "block" /\ c \in Declared
    BY StatementsAreWritten, NothingAssumption DEF Instantiates, Instantiated, IsBlock, ReadObjectClass
  <2>3. \A k \in DOMAIN file : Due(task(k))
    BY <2>1, PassIsDue
  <2>4. note \in reports <=> note \in Found(task(i))
    <3>1. ASSUME note \in reports  PROVE note \in Found(task(i))
      <4>1. PICK t : Due(t) /\ note \in Found(t)
        BY <3>1, <2>1
      <4>2. t.do = "properties"
        BY <4>1, FoundCodes DEF CodesOf, Note
      <4>3. PICK k \in DOMAIN file : t = task(k)
        BY <4>1, <4>2, <2>1, OfAStatement DEF OfStatements
      <4>4. note \in UnknownProperties(file[k].value, ReadObjectClass(file[k]), <<k>>)
        BY <4>1, <4>3 DEF Found
      <4>5. k = i
        <5>1. PICK l : note = Note("PropUnknown", Append(<<k>>, l))
          BY <4>4 DEF UnknownProperties
        <5>2. <<i, j>> = <<k, l>>
          BY <5>1 DEF Note
        <5> QED
          BY <5>2
      <4> QED
        BY <4>1, <4>3, <4>5
    <3> QED
      BY <3>1, <2>1, <2>3
  <2>5. Found(task(i)) = UnknownProperties(b, c, <<i>>)
    BY DEF Found, Instantiates
  <2>6. note \in UnknownProperties(b, c, <<i>>) <=>
          name \notin Structural \cup Relations /\ ResolveProperty(name, LocalPropDefs(b), c) = Nothing
    <3>1. \A l : Append(<<i>>, l) = <<i, l>>
      BY AppendToOne
    <3>2. \A l : note = Note("PropUnknown", Append(<<i>>, l)) <=> l = j
      BY <3>1 DEF Note
    <3> HIDE DEF note
    <3> QED
      BY <3>2 DEF UnknownProperties
  <2>7. ResolveProperty(name, LocalPropDefs(b), c) # Nothing <=>
          name \in OwnNames(b) \/ FindDeclared(c, name) # Nothing
    BY <2>1, <2>2, ResolvedWhere DEF Parsed
  <2>8. Has(c, name) <=> FindDeclared(c, name) # Nothing
    BY <2>2, HasIsDeclared
  <2> QED
    BY <2>4, <2>5, <2>6, <2>7, <2>8
<1> QED
  BY <1>1, GoesOn, PTL

-----------------------------------------------------------------------------
(* Annotations in the file *)

LEMMA UnderAppended ==
  ASSUME NEW at \in Seq(Nat), NEW k \in Nat
  PROVE  Len(Append(at, k)) >= Len(at) /\ SubSeq(Append(at, k), 1, Len(at)) = at
<1>1. PICK b : b = Append(at, k)
  OBVIOUS
<1>2. b \in Seq(Nat) /\ Len(b) = Len(at) + 1 /\ Len(at) \in Nat /\ \A i \in 1..Len(at) : b[i] = at[i]
  BY <1>1
<1>3. PICK c : c = SubSeq(b, 1, Len(at))
  OBVIOUS
<1>4. c \in Seq(Nat) /\ Len(c) = Len(at) /\ \A i \in 1..Len(at) : c[i] = at[i]
  BY <1>2, <1>3
<1>5. c = at
  BY <1>4
<1> QED
  BY <1>1, <1>2, <1>3, <1>5

LEMMA PositionsFinite ==
  ASSUME NEW n \in Nat, NEW S \in SUBSET (1..n)
  PROVE  IsFiniteSet(S)
<1>1. 1 \in Int /\ n \in Int
  OBVIOUS
<1>2. IsFiniteSet(1..n)
  BY <1>1, FS_Interval, Zenon
<1> QED
  BY <1>2, FS_Subset, Zenon

LEMMA AtMostOne ==
  ASSUME NEW S, IsFiniteSet(S), ~(Cardinality(S) > 1)
  PROVE  \A i, j \in S : i = j
<1> SUFFICES ASSUME NEW i \in S, NEW j \in S, i # j  PROVE FALSE
  OBVIOUS
<1> DEFINE one == {i}
           two == one \cup {j}
<1>1. IsFiniteSet(one) /\ Cardinality(one) = 1 /\ j \notin one
  BY FS_Singleton
<1>3. two \in SUBSET S
  OBVIOUS
<1> HIDE DEF one
<1>2. Cardinality(two) = 2
  <2>1. Cardinality(one \cup {j}) = IF j \in one THEN Cardinality(one) ELSE Cardinality(one) + 1
    BY <1>1, FS_AddElement, Zenon
  <2> QED
    BY <1>1, <2>1
<1> HIDE DEF two
<1>4. Cardinality(two) <= Cardinality(S)
  BY <1>3, FS_Subset
<1>5. Cardinality(S) \in Nat
  BY FS_CardinalityType
<1> QED
  BY <1>2, <1>4, <1>5

\* The annotations of a statement's value, and of those in a block, are
\* checked.
LEMMA AnnotatedIsDue ==
  ASSUME Parsed, NEW a \in Annotated
  PROVE  /\ a.value \in Written /\ a.at \in Seq(Nat)
         /\ \E t : Due(t) /\ t.do = "annotations" /\ t.at = a.at /\ t.statement.value = a.value
<1> DEFINE task(i) == [do |-> "annotations", at |-> <<i>>, statement |-> file[i], top |-> TRUE]
<1>1. PICK i \in DOMAIN file :
         /\ file[i].value # Nothing
         /\ \/ a = [at |-> <<i>>, value |-> file[i].value]
            \/ /\ IsBlock(file[i].value)
               /\ \E j \in DOMAIN file[i].value.body :
                     /\ file[i].value.body[j].value # Nothing
                     /\ a = [at |-> <<i, j>>, value |-> file[i].value.body[j].value]
  BY DEF Annotated
<1>2. Due(task(i)) /\ i \in Nat /\ file[i].value \in Written
  BY <1>1, PassIsDue, StatementsAreWritten, ListHas DEF Parsed, IsFile
<1>3. CASE a = [at |-> <<i>>, value |-> file[i].value]
  <2>1. task(i).do = "annotations" /\ task(i).at = a.at /\ task(i).statement.value = a.value
    BY <1>3
  <2>2. a.value \in Written /\ a.at \in Seq(Nat)
    BY <1>2, <1>3
  <2> HIDE DEF task
  <2> QED
    BY <1>2, <2>1, <2>2
<1>4. CASE /\ IsBlock(file[i].value)
           /\ \E j \in DOMAIN file[i].value.body :
                 /\ file[i].value.body[j].value # Nothing
                 /\ a = [at |-> <<i, j>>, value |-> file[i].value.body[j].value]
  <2> DEFINE v == file[i].value
             call(j) == [do |-> "annotations", at |-> Append(<<i>>, j), statement |-> v.body[j], top |-> FALSE]
  <2>1. PICK j \in DOMAIN v.body : v.body[j].value # Nothing /\ a = [at |-> <<i, j>>, value |-> v.body[j].value]
    BY <1>4
  <2>2. IsList(v.body) /\ v.body[j].value \in Written /\ j \in Nat
    BY <1>2, <1>4, <2>1, InBlock, ListHas DEF Parsed, IsBlock
  <2>3. Calls(task(i)) = [k \in DOMAIN v.body |-> call(k)]
    BY <1>4 DEF Calls, VisitCalls
  <2>4. call(j) \in Elements(Calls(task(i)))
    BY <2>1, <2>3 DEF Elements
  <2>5. Due(call(j))
    <3> HIDE DEF call, task
    <3> QED
      BY <1>2, <2>4, CallsAreDue
  <2>6. call(j).do = "annotations" /\ call(j).at = a.at /\ call(j).statement.value = a.value
    <3>1. Append(<<i>>, j) = <<i, j>>
      BY AppendToOne
    <3> QED
      BY <3>1, <2>1
  <2>7. a.value \in Written /\ a.at \in Seq(Nat)
    BY <1>2, <2>1, <2>2
  <2> HIDE DEF call
  <2> QED
    BY <2>5, <2>6, <2>7
<1> QED
  BY <1>1, <1>3, <1>4

LEMMA ReorderingIs ==
  ASSUME IsFile(file), NEW v \in Written, NEW notes \in Reorderings(v.notes)
  PROVE  \E order : Reordered(v, [v EXCEPT !.notes = notes], Len(v.notes), order)
<1> DEFINE n == Len(v.notes)
           w == [v EXCEPT !.notes = notes]
<1>1. IsValue(v)
  BY WrittenAre
<1>2. n \in Nat /\ DOMAIN v.notes = 1..n
  BY <1>1, ListHas DEF IsValue
<1>3. PICK order \in Bijection(DOMAIN v.notes, DOMAIN v.notes) : notes = [i \in DOMAIN v.notes |-> v.notes[order[i]]]
  BY DEF Reorderings
<1>4. /\ order \in [1..n -> 1..n]
      /\ \A i, j \in 1..n : order[i] = order[j] => i = j
      /\ \A j \in 1..n : \E i \in 1..n : order[i] = j
  BY <1>2, <1>3 DEF Bijection, Injection, Surjection, IsInjective
<1>5. w.notes = notes /\ w.is = v.is /\ (v.is = "block" => w.body = v.body /\ w.values = v.values)
  BY <1>1 DEF IsValue
<1>6. DOMAIN notes = 1..n /\ \A i \in 1..n : notes[i] = v.notes[order[i]]
  BY <1>2, <1>3
<1>7. Reordered(v, w, n, order)
  <2> HIDE DEF w, n
  <2> QED
    BY <1>2, <1>4, <1>5, <1>6 DEF Reordered, NotesOf
<1> QED
  BY <1>7

\* Annotations of the file that no conflict is reported of mean one
\* combination in whatever order they are written (spec 5.4): the visitor
\* comes to each of them, and what it lets through is unambiguous.
THEOREM OneCombinationHolds == BlocksSpec => []OneCombination
<1>1. ASSUME Going  PROVE OneCombination
  <2> SUFFICES ASSUME Done, NEW a \in Annotated,
                      Coded({"AnnotationConflict"}, a.at) = {},
                      ~(Cardinality({i \in DOMAIN a.value.notes : a.value.notes[i].name = "priority"}) > 1),
                      NEW combine, NEW notes \in Reorderings(a.value.notes)
               PROVE  CombinationOf([a.value EXCEPT !.notes = notes], combine) = CombinationOf(a.value, combine)
    BY DEF OneCombination
  <2> DEFINE v == a.value
             n == Len(v.notes)
             priorities == {i \in DOMAIN v.notes : v.notes[i].name = "priority"}
  <2>1. Parsed /\ \A r : r \in reports <=> \E t : Due(t) /\ r \in Found(t)
    BY <1>1, DoneReports
  <2>2. v \in Written /\ a.at \in Seq(Nat)
    BY <2>1, AnnotatedIsDue
  <2>3. PICK t : Due(t) /\ t.do = "annotations" /\ t.at = a.at /\ t.statement.value = v
    BY <2>1, AnnotatedIsDue
  <2>4. IsValue(v) /\ v # Nothing
    BY <2>1, <2>2, WrittenAre DEF Parsed
  <2>5. n \in Nat /\ DOMAIN v.notes = 1..n
    BY <2>4, ListHas DEF IsValue
  <2>6. NoConflict(v, t.top, a.at)
    <3> SUFFICES ASSUME NEW note \in CheckValueAnnotations(v, t.top, a.at), note.code = "AnnotationConflict"
                 PROVE  FALSE
      BY DEF NoConflict
    <3>1. note \in Found(t)
      BY <2>3, <2>4 DEF Found, VisitReports
    <3>2. note \in reports
      BY <2>1, <2>3, <3>1
    <3>3. \A x, at : \A y \in CheckArguments(x, at) : y.code = "AnnotationArgument"
      BY DEF CheckArguments, BadArgument, UnknownFrontends, Note
    <3>4. \A x, at : \A y \in CheckArguments(x, at) : y # note
      BY <3>3
    <3>5. \E i \in DOMAIN v.notes : note.at = Append(a.at, i)
      <4> HIDE DEF v
      <4>1. \/ \E i \in DOMAIN v.notes : note \in CheckArguments(v.notes[i], Append(a.at, i))
            \/ \E i \in DOMAIN v.notes : \/ note = Note("UnknownAnnotation", Append(a.at, i))
                                         \/ note = Note("AnnotationMisapplied", Append(a.at, i))
                                         \/ note = Note("AnnotationConflict", Append(a.at, i))
        BY DEF CheckValueAnnotations
      <4> QED
        BY <3>4, <4>1 DEF Note
    <3>6. PICK i \in Nat : note.at = Append(a.at, i)
      BY <3>5, <2>5
    <3>7. note \in Under(a.at)
      BY <3>2, <3>6, <2>2, UnderAppended DEF Under
    <3> QED
      BY <3>7 DEF Coded
  <2>7. PICK order : Reordered(v, [v EXCEPT !.notes = notes], n, order)
    BY <2>1, <2>2, ReorderingIs DEF Parsed
  <2>8. \A i, j \in 1..n : v.notes[i].name = "priority" /\ v.notes[j].name = "priority" => i = j
    <3>1. priorities \in SUBSET (1..n)
      BY <2>5
    <3>2. IsFiniteSet(priorities)
      <4> HIDE DEF priorities
      <4> QED
        BY <2>5, <3>1, PositionsFinite
    <3>3. \A i, j \in priorities : i = j
      BY <3>2, AtMostOne
    <3> QED
      BY <3>3, <2>5
  <2>9. PICK w : w = [v EXCEPT !.notes = notes]
    OBVIOUS
  <2> HIDE DEF v, n
  <2>10. Reordered(v, w, n, order)
    BY <2>7, <2>9
  <2>11. CombinationOf(w, combine) = CombinationOf(v, combine)
    BY <2>5, <2>6, <2>8, <2>10, OrderNeverCombines
  <2> QED
    BY <2>9, <2>11 DEF v
<1> QED
  BY <1>1, GoesOn, PTL

-----------------------------------------------------------------------------
(* Placement *)

LEMMA LeastIs ==
  ASSUME NEW S \in SUBSET Nat, S # {}
  PROVE  Least(S) \in S /\ \A j \in S : Least(S) <= j
<1>1. \E i \in S : \A j \in S : i <= j
  BY NatLeast
<1> QED
  BY <1>1 DEF Least

LEMMA CountsOfFew ==
  ASSUME NEW S, IsFiniteSet(S)
  PROVE  /\ Cardinality(S) \in Nat
         /\ Cardinality(S) = 0 <=> S = {}
         /\ Cardinality(S) = 1 <=> \E x : S = {x}
         /\ Cardinality(S) <= 1 <=> \A i, j \in S : i = j
<1>1. Cardinality(S) \in Nat
  BY FS_CardinalityType
<1>2. Cardinality(S) = 0 <=> S = {}
  BY FS_EmptySet
<1>3. Cardinality(S) = 1 <=> \E x : S = {x}
  BY FS_Singleton
<1>4. ASSUME \A i, j \in S : i = j  PROVE S = {} \/ \E x : S = {x}
  BY <1>4
<1>5. ~(Cardinality(S) > 1) => \A i, j \in S : i = j
  BY AtMostOne
<1> QED
  BY <1>1, <1>2, <1>3, <1>4, <1>5

\* A conflict is reported exactly where the keywords and the long form do
\* not come to one placement at most.
LEMMA ConflictIs ==
  ASSUME NEW b, NEW at, DOMAIN b.body \subseteq Nat
  PROVE  /\ PlacementReports(b, at) = {} <=>
              (Sugar(b) = {} \/ LongForm(b) = {}) /\ \A i, j \in Sugar(b) : i = j
         /\ \A r \in PlacementReports(b, at) :
              r.code = "PlacementConflict" /\ \E k \in Nat : r.at = Append(at, k)
<1> DEFINE S == Sugar(b)
           note(k) == Note("PlacementConflict", Append(at, k))
           seconds == {i \in S : i # Least(S) /\ \A j \in S : j < i => j = Least(S)}
<1>1. S \in SUBSET Nat
  BY DEF Sugar
<1>2. PlacementReports(b, at) =
        IF S # {} /\ LongForm(b) # {} THEN {note(Least(S))} ELSE {note(i) : i \in seconds}
  BY DEF PlacementReports
<1>3. \A k : note(k).code = "PlacementConflict" /\ note(k).at = Append(at, k)
  BY DEF Note
<1>4. S # {} => Least(S) \in S /\ \A j \in S : Least(S) <= j
  <2> HIDE DEF S
  <2> QED
    BY <1>1, LeastIs
<1>5. seconds = {} <=> \A i, j \in S : i = j
  <2>1. ASSUME NEW i \in S, NEW j \in S, i # j  PROVE seconds # {}
    <3> DEFINE R == {k \in S : k # Least(S)}
    <3>1. R \in SUBSET Nat /\ R # {}
      BY <2>1, <1>1
    <3>2. Least(R) \in R /\ \A k \in R : Least(R) <= k
      <4> HIDE DEF R
      <4> QED
        BY <3>1, LeastIs
    <3>3. Least(R) \in seconds
      <4> SUFFICES ASSUME NEW k \in S, k < Least(R)  PROVE k = Least(S)
        BY <3>2
      <4>1. k \in Nat /\ Least(R) \in Nat /\ (k \in R => Least(R) <= k)
        BY <3>1, <3>2, <1>1
      <4> QED
        BY <4>1
    <3> QED
      BY <3>3
  <2>2. ASSUME \A i, j \in S : i = j, NEW k \in seconds  PROVE FALSE
    BY <2>2, <1>4
  <2> QED
    BY <2>1, <2>2
<1> HIDE DEF note, seconds
<1>6. seconds \subseteq S
  BY DEF seconds
<1> HIDE DEF S
<1>7. PlacementReports(b, at) = {} <=> (S = {} \/ LongForm(b) = {}) /\ \A i, j \in S : i = j
  <2>1. CASE S # {} /\ LongForm(b) # {}
    BY <2>1, <1>2
  <2>2. CASE ~(S # {} /\ LongForm(b) # {})
    BY <2>2, <1>2, <1>5
  <2> QED
    BY <2>1, <2>2
<1>8. \A r \in PlacementReports(b, at) : \E k \in Nat : r = note(k)
  BY <1>1, <1>2, <1>4, <1>6
<1> QED
  BY <1>3, <1>7, <1>8 DEF S

\* What is read where there is one placement is that placement.
LEMMA ReadsThePlacement ==
  ASSUME NEW b, DOMAIN b.body \subseteq Nat, Sugar(b) = {} \/ LongForm(b) = {},
         Sugar(b) # {} \/ LongForm(b) # {}, \A i, j \in Sugar(b) : i = j
  PROVE  {ReadPlacement(b)} =
           {[relation |-> b.body[j].key, holder |-> Identifier(b.body[j].value)] : j \in Sugar(b)} \cup
           (IF LongForm(b) = {} THEN {}
            ELSE {[relation |-> Identifier(ValueOf(b, "relation")), holder |-> Identifier(ValueOf(b, "holder"))]})
<1> DEFINE S == Sugar(b)
           read(j) == [relation |-> b.body[j].key, holder |-> Identifier(b.body[j].value)]
           long == [relation |-> Identifier(ValueOf(b, "relation")), holder |-> Identifier(ValueOf(b, "holder"))]
<1>1. PlacementReports(b, <<>>) = {}
  BY ConflictIs
<1>2. ReadPlacement(b) = IF S # {} THEN read(Least(S)) ELSE long
  BY <1>1 DEF ReadPlacement
<1>3. S \in SUBSET Nat
  BY DEF Sugar
<1> HIDE DEF S, read, long
<1>4. S # {} => S = {Least(S)}
  BY <1>3, LeastIs DEF S
<1>5. {ReadPlacement(b)} = {read(j) : j \in S} \cup (IF LongForm(b) = {} THEN {} ELSE {long})
  <2>1. CASE S # {}
    <3>1. {read(j) : j \in S} = {read(Least(S))} /\ LongForm(b) = {}
      BY <2>1, <1>4 DEF S
    <3> QED
      BY <3>1, <2>1, <1>2
  <2>2. CASE S = {}
    <3>1. LongForm(b) # {}
      BY <2>2 DEF S
    <3> QED
      BY <2>2, <3>1, <1>2
  <2> QED
    BY <2>1, <2>2
<1> QED
  BY <1>5 DEF S, read, long

\* An object is silent about its placement exactly when it has one at most,
\* and then that one is what is read (spec 8.5): the keywords, however many
\* relations there are, and the long form are counted together.
THEOREM OnePlacementHolds == BlocksSpec => []OnePlacement
<1>1. ASSUME Going  PROVE OnePlacement
  <2> DEFINE task(k) == [do |-> "placement", at |-> <<k>>, statement |-> file[k], top |-> TRUE]
  <2>1. Parsed /\ (Done => \A r : r \in reports <=> \E t : Due(t) /\ r \in Found(t))
    BY <1>1, DoneReports DEF Going
  <2>2. \A k \in DOMAIN file : k \in Nat /\ Due(task(k))
    BY <2>1, PassIsDue, ListHas DEF Parsed, IsFile
  <2>3. \A k \in DOMAIN file : Instantiates(k) =>
          DOMAIN file[k].value.body \subseteq Nat /\ Found(task(k)) = PlacementReports(file[k].value, <<k>>)
    <3> TAKE k \in DOMAIN file
    <3> HAVE Instantiates(k)
    <3>1. file[k].value \in Written /\ file[k].value.is = "block"
      BY StatementsAreWritten DEF Instantiates, Instantiated, IsBlock
    <3>2. IsList(file[k].value.body)
      BY <3>1, <2>1, InBlock DEF Parsed
    <3>3. Found(task(k)) = PlacementReports(file[k].value, <<k>>)
      BY DEF Found, Instantiates
    <3> QED
      BY <3>2, <3>3, ListHas
  <2>4. ASSUME NEW k \in DOMAIN file, Instantiates(k), NEW r \in PlacementReports(file[k].value, <<k>>)
        PROVE  r.code = "PlacementConflict" /\ \E l \in Nat : r.at = Append(<<k>>, l)
    <3>1. PICK b, at : b = file[k].value /\ at = <<k>>
      OBVIOUS
    <3>2. DOMAIN b.body \subseteq Nat /\ r \in PlacementReports(b, at)
      BY <2>3, <2>4, <3>1
    <3>3. r.code = "PlacementConflict" /\ \E l \in Nat : r.at = Append(at, l)
      BY <3>2, ConflictIs
    <3> QED
      BY <3>1, <3>3
  <2>5. \A k \in DOMAIN file : <<k>> \in Seq(Nat)
    <3> TAKE k \in DOMAIN file
    <3>1. k \in Nat
      BY <2>2
    <3> QED
      BY <3>1
  <2>6. ASSUME Done, NEW i \in DOMAIN file, Instantiates(i)
        PROVE  Coded({"PlacementConflict"}, <<i>>) = {} <=> PlacementReports(file[i].value, <<i>>) = {}
    <3>1. ASSUME NEW r \in PlacementReports(file[i].value, <<i>>)
          PROVE  r \in Coded({"PlacementConflict"}, <<i>>)
      <4>1. r \in reports
        BY <2>1, <2>2, <2>3, <2>6, <3>1
      <4>2. r.code = "PlacementConflict" /\ \E k \in Nat : r.at = Append(<<i>>, k)
        BY <2>4, <2>6, <3>1
      <4>3. <<i>> \in Seq(Nat)
        BY <2>5
      <4>4. r \in Under(<<i>>)
        BY <4>1, <4>2, <4>3, UnderAppended DEF Under
      <4> QED
        BY <4>2, <4>4 DEF Coded
    <3>2. ASSUME NEW r \in Coded({"PlacementConflict"}, <<i>>)
          PROVE  r \in PlacementReports(file[i].value, <<i>>)
      <4>1. r \in reports /\ r.code = "PlacementConflict" /\ SubSeq(r.at, 1, Len(<<i>>)) = <<i>>
        BY <3>2 DEF Coded, Under
      <4>2. PICK t : Due(t) /\ r \in Found(t)
        BY <4>1, <2>1, <2>6
      <4>3. t.do = "placement"
        BY <4>1, <4>2, FoundCodes DEF CodesOf
      <4>4. PICK k \in DOMAIN file : t = task(k)
        BY <4>2, <4>3, <2>1, OfAStatement DEF OfStatements
      <4>5. Instantiates(k)
        BY <4>2, <4>4 DEF Found, Instantiates
      <4>6. r \in PlacementReports(file[k].value, <<k>>)
        <5> HIDE DEF task
        <5> QED
          BY <4>2, <4>4, <4>5, <2>3
      <4>7. \E l \in Nat : r.at = Append(<<k>>, l)
        BY <4>5, <4>6, <2>4
      <4>8. <<k>> \in Seq(Nat)
        BY <2>5
      <4>9. SubSeq(r.at, 1, Len(<<k>>)) = <<k>>
        BY <4>7, <4>8, UnderAppended
      <4>10. <<k>> = <<i>>
        BY <4>1, <4>9
      <4> QED
        BY <4>6, <4>10
    <3> QED
      BY <3>1, <3>2
  <2>7. ASSUME Done, NEW i \in DOMAIN file, Instantiates(i)
        PROVE  LET b == file[i].value
                   sugar == {[relation |-> b.body[j].key, holder |-> Identifier(b.body[j].value)] : j \in Sugar(b)}
                   long == IF LongForm(b) = {} THEN {}
                           ELSE {[relation |-> Identifier(ValueOf(b, "relation")),
                                  holder |-> Identifier(ValueOf(b, "holder"))]}
                   times == Cardinality(Sugar(b)) + Cardinality(long)
               IN  /\ Coded({"PlacementConflict"}, <<i>>) = {} <=> times <= 1
                   /\ times = 1 => {ReadPlacement(b)} = sugar \cup long
    <3> DEFINE b == file[i].value
               sugar == {[relation |-> b.body[j].key, holder |-> Identifier(b.body[j].value)] : j \in Sugar(b)}
               record == [relation |-> Identifier(ValueOf(b, "relation")), holder |-> Identifier(ValueOf(b, "holder"))]
               long == IF LongForm(b) = {} THEN {} ELSE {record}
    <3>1. Coded({"PlacementConflict"}, <<i>>) = {} <=>
            (Sugar(b) = {} \/ LongForm(b) = {}) /\ \A k, j \in Sugar(b) : k = j
      BY <2>3, <2>6, <2>7, ConflictIs
    <3>2. Sugar(b) \subseteq DOMAIN b.body /\ DOMAIN b.body \subseteq Nat
      BY <2>3, <2>7 DEF Sugar
    <3>3. IsFiniteSet(Sugar(b))
      <4>1. b \in Written /\ b.is = "block"
        BY <2>7, StatementsAreWritten DEF Instantiates, Instantiated, IsBlock
      <4>2. IsList(b.body)
        BY <4>1, <2>1, InBlock DEF Parsed
      <4> HIDE DEF b
      <4>3. Len(b.body) \in Nat /\ Sugar(b) \in SUBSET (1..Len(b.body))
        BY <4>2, <3>2, ListHas
      <4> QED
        BY <4>3, PositionsFinite
    <3> HIDE DEF b, record
    <3>4. /\ Cardinality(long) = IF LongForm(b) = {} THEN 0 ELSE 1
      BY FS_EmptySet, FS_Singleton
    <3>5. /\ Cardinality(Sugar(b)) \in Nat
          /\ Cardinality(Sugar(b)) = 0 <=> Sugar(b) = {}
          /\ Cardinality(Sugar(b)) <= 1 <=> \A k, j \in Sugar(b) : k = j
      BY <3>3, CountsOfFew
    <3>6. Cardinality(Sugar(b)) + Cardinality(long) <= 1 <=>
            (Sugar(b) = {} \/ LongForm(b) = {}) /\ \A k, j \in Sugar(b) : k = j
      BY <3>4, <3>5
    <3>7. ASSUME Cardinality(Sugar(b)) + Cardinality(long) = 1
          PROVE  {ReadPlacement(b)} = sugar \cup long
      <4>1. Sugar(b) # {} \/ LongForm(b) # {}
        BY <3>4, <3>5, <3>7
      <4>2. (Sugar(b) = {} \/ LongForm(b) = {}) /\ \A k, j \in Sugar(b) : k = j
        BY <3>4, <3>5, <3>6, <3>7
      <4> QED
        BY <4>1, <4>2, <3>2, ReadsThePlacement DEF record
    <3> QED
      BY <3>1, <3>6, <3>7 DEF b, record
  <2> QED
    BY <2>7 DEF OnePlacement
<1> QED
  BY <1>1, GoesOn, PTL

-----------------------------------------------------------------------------
(* Declared types *)

\* check_type has come to it.
Checked(type) == \E t : Due(t) /\ t.do = "type" /\ type \in t.types

Approved == Note("SchemaInvalid", Registry) \notin reports

LEMMA CheckedTypes ==
  ASSUME NEW types, IsList(TypeTask(types)), \A c \in Elements(TypeTask(types)) : Due(c),
         NEW type \in types
  PROVE  Checked(type)
<1> DEFINE c == [do |-> "type", at |-> Registry, types |-> types]
<1>1. TypeTask(types) = <<c>>
  BY DEF TypeTask
<1>2. c.do = "type" /\ c.types = types
  OBVIOUS
<1> HIDE DEF c
<1>3. c \in Elements(<<c>>)
  BY LoneList
<1>4. Due(c)
  BY <1>1, <1>3
<1> QED
  BY <1>2, <1>4 DEF Checked

LEMMA DeclaredAreChecked ==
  ASSUME Parsed, NEW type \in DeclaredTypes
  PROVE  Checked(type)
<1>1. Due(TypesTask)
  BY AgendaIs, AgendaIsDue
<1>2. Calls(TypesTask) = TypeTask(DeclaredTypes)
  BY DEF Calls, TypesTask
<1>3. \A c \in Elements(TypeTask(DeclaredTypes)) : Due(c)
  BY <1>1, <1>2, CallsAreDue
<1>4. IsList(TypeTask(DeclaredTypes))
  BY DeclaredAreKnown, TypesFit
<1> QED
  BY <1>3, <1>4, CheckedTypes

\* What check_type finds nothing wrong with says something, and what it
\* goes on to has been checked as well.
LEMMA CheckedSays ==
  ASSUME Going, Done, Approved, NEW type, Checked(type)
  PROVE  /\ IsList(type.args)
         /\ Says(Resolve(type))
         /\ Resolve(type).name \notin Naming => \A i \in DOMAIN Resolve(type).args : Checked(Resolve(type).args[i])
<1>1. PICK t : Due(t) /\ t.do = "type" /\ type \in t.types
  BY DEF Checked
<1>2. Parsed /\ \A r : r \in reports <=> \E u : Due(u) /\ r \in Found(u)
  BY DoneReports
<1>3. t.types \in SUBSET KnownTypes
  BY <1>1, <1>2, DueFits DEF Fitting
<1>4. IsList(type.args)
  BY <1>1, <1>2, <1>3, KnownAre
<1>5. ~TypeReported(type)
  <2>1. Found(t) = TypesReports(t.types)
    BY <1>1 DEF Found
  <2>2. Note("SchemaInvalid", Registry) \notin TypesReports(t.types)
    BY <1>1, <1>2, <2>1 DEF Approved
  <2> QED
    BY <1>1, <2>2 DEF TypesReports
<1>6. Says(Resolve(type))
  BY <1>5 DEF TypeReported, Says, Naming
<1>7. ASSUME Resolve(type).name \notin Naming, NEW i \in DOMAIN Resolve(type).args
      PROVE  Checked(Resolve(type).args[i])
  <2>1. TypeArguments(type) = Resolve(type).args
    BY <1>5, <1>7 DEF TypeArguments, Naming
  <2>2. Resolve(type).args[i] \in TypesBelow(t.types)
    BY <1>1, <1>7, <2>1 DEF TypesBelow
  <2>3. Calls(t) = TypeTask(TypesBelow(t.types))
    BY <1>1 DEF Calls
  <2>4. \A c \in Elements(TypeTask(TypesBelow(t.types))) : Due(c)
    BY <1>1, <2>3, CallsAreDue
  <2>5. TypesBelow(t.types) \in SUBSET KnownTypes
    BY <1>2, <1>3, BelowAreKnown
  <2>6. IsList(TypeTask(TypesBelow(t.types)))
    BY <2>5, TypesFit
  <2> QED
    BY <2>2, <2>4, <2>6, CheckedTypes
<1> QED
  BY <1>4, <1>6, <1>7

\* A type that says something, and whose arguments do.
Sound(type) ==
  /\ IsList(type.args) /\ Says(type)
  /\ type.name \notin Naming => \A i \in DOMAIN type.args : Checked(type.args[i])

LEMMA InFullIsResolved == \A type : InFull(type) = Resolve(type)
BY DEF InFull, Resolve

LEMMA CheckedIsSound ==
  ASSUME Going, Done, Approved, NEW type, Checked(type)
  PROVE  Sound(InFull(type))
<1>1. /\ IsList(type.args)
      /\ Says(Resolve(type))
      /\ Resolve(type).name \notin Naming => \A i \in DOMAIN Resolve(type).args : Checked(Resolve(type).args[i])
  BY CheckedSays
<1>2. IsList(Resolve(type).args)
  BY <1>1, LoneList DEF Resolve, Type
<1> QED
  BY <1>1, <1>2, InFullIsResolved DEF Sound

LEMMA NamesOneIsSound ==
  ASSUME NEW name \in Naming, NEW arg, NamesSomething(Type(name, <<arg>>))
  PROVE  InFull(Type(name, <<arg>>)) = Type(name, <<arg>>) /\ Sound(Type(name, <<arg>>))
<1>1. Type(name, <<arg>>).name = name /\ Type(name, <<arg>>).args = <<arg>> /\ <<arg>> # <<>> /\ Len(<<arg>>) = 1
  BY DEF Type
<1>2. Arity(name) = 1 /\ name \in Builtins
  BY DEF Naming, Arity, Atoms, Builtins
<1>3. IsList(<<arg>>)
  BY LoneList
<1> QED
  BY <1>1, <1>2, <1>3 DEF InFull, Sound, Says

\* Of a class's property by any way it comes to it, the type is declared.
LEMMA FoundIsDeclared ==
  ASSUME Parsed, NEW c \in Declared, NEW name, FindDeclared(c, name) # Nothing
  PROVE  FindDeclared(c, name) \in DeclaredTypes
<1>0. name \in Names /\ FindDeclared(c, name) = Inherited(c, name)
  BY DEF FindDeclared
<1>1. DOMAIN Lineage(c) = 0..(MaxDepth - 1)
  BY LineageUnfolds DEF Law
<1> DEFINE having == {d \in DOMAIN Lineage(c) : /\ Lineage(c)[d] # Nothing
                                                /\ HereOrByTrait(Lineage(c)[d], name) # Nothing}
           first == CHOOSE d \in having : \A e \in having : d <= e
<1>2. having # {} /\ Inherited(c, name) = HereOrByTrait(Lineage(c)[first], name)
  BY <1>0 DEF Inherited
<1>3. first \in having
  <2>1. having \in SUBSET Nat
    BY <1>1
  <2>2. \E d \in having : \A e \in having : d <= e
    <3> HIDE DEF having
    <3> QED
      BY <2>1, <1>2, NatLeast
  <2> HIDE DEF having
  <2> QED
    BY <2>2
<1>4. PICK a : a = Lineage(c)[first]
  OBVIOUS
<1>5. a \in Declared
  <2>1. first \in 0..(MaxDepth - 1) /\ a # Nothing
    BY <1>1, <1>3, <1>4
  <2> HIDE DEF first
  <2> QED
    BY <2>1, <1>4, LineageDeclared
<1>6. HereOrByTrait(a, name) # Nothing /\ FindDeclared(c, name) = HereOrByTrait(a, name)
  BY <1>0, <1>2, <1>4
<1>7. CASE class[a].properties[name] # Nothing
  <2>1. HereOrByTrait(a, name) \in PropertiesOf(class[a].properties)
    BY <1>0, <1>7 DEF HereOrByTrait, PropertiesOf
  <2> QED
    BY <2>1, <1>5, <1>6 DEF DeclaredTypes
<1>8. CASE class[a].properties[name] = Nothing
  <2> DEFINE list == class[a].traits
             declaring == {i \in DOMAIN list : list[i] \in DeclaredTraits /\ trait[list[i]][name] # Nothing}
             earliest == CHOOSE i \in declaring : \A j \in declaring : i <= j
  <2>1. declaring # {} /\ HereOrByTrait(a, name) = trait[list[earliest]][name]
    BY <1>6, <1>8 DEF HereOrByTrait, FromTraits
  <2>2. IsList(list)
    BY <1>5 DEF Parsed, IsRegistry, Declared
  <2>3. declaring \in SUBSET Nat
    BY <2>2, ListHas
  <2>4. earliest \in declaring
    <3> HIDE DEF declaring
    <3>1. \E i \in declaring : \A j \in declaring : i <= j
      BY <2>1, <2>3, NatLeast
    <3> QED
      BY <3>1
  <2>5. PICK t : t = list[earliest]
    OBVIOUS
  <2>6. t \in DeclaredTraits
    BY <2>4, <2>5
  <2>7. HereOrByTrait(a, name) = trait[t][name]
    BY <2>1, <2>5
  <2>8. trait[t][name] \in PropertiesOf(trait[t])
    BY <2>7, <1>0, <1>6 DEF PropertiesOf
  <2> QED
    BY <2>6, <2>7, <2>8, <1>6 DEF DeclaredTypes
<1> QED
  BY <1>7, <1>8

LEMMA KeyIsDeclared ==
  ASSUME Parsed, NEW id \in DOMAIN forms, NEW name, HasKey(forms[id], name),
         FindKey(forms[id], name).type_of = Nothing
  PROVE  FindKey(forms[id], name).type \in DeclaredTypes
<1> DEFINE named == KeysNamed(forms[id], name)
<1>1. IsList(forms[id].keys)
  BY DEF Parsed, IsRegistry
<1>2. named \in SUBSET Nat /\ named # {} /\ named \subseteq DOMAIN forms[id].keys
  BY <1>1, ListHas DEF KeysNamed, HasKey
<1>3. Least(named) \in named
  <2> HIDE DEF named
  <2> QED
    BY <1>2, LeastIs
<1>4. PICK k : k = Least(named)
  OBVIOUS
<1>5. k \in DOMAIN forms[id].keys /\ FindKey(forms[id], name) = forms[id].keys[k]
  BY <1>2, <1>3, <1>4 DEF FindKey
<1> QED
  BY <1>5 DEF DeclaredTypes

Judges(slot) == slot.given \/ Sound(slot.type)

LEMMA JudgesBelow ==
  ASSUME Going, Done, Approved, NEW slot, Judges(slot), NEW below \in Inside(slot)
  PROVE  Judges(below)
<1> DEFINE v == slot.value
           t == slot.type
           under(i, w, type) == Slot(Append(slot.at, i), w, type, slot.given)
<1>0. Parsed
  BY DoneReports
<1>1. CASE v.values # <<>>
  <2>1. t.name \in {"list", "set", "flags"} /\ Element(t) # Nothing
    BY <1>1 DEF Inside
  <2>2. PICK i \in DOMAIN v.values : below = Entry(under(i, v.values[i], Element(t)))
    BY <1>1, <2>1 DEF Inside
  <2>3. below.given = slot.given /\ below.type = InFull(Element(t))
    BY <2>2 DEF Entry, Slot
  <2>4. ASSUME ~slot.given  PROVE Sound(InFull(Element(t)))
    <3>1. Sound(t)
      BY <2>4 DEF Judges
    <3>2. t.args # <<>>
      BY <2>1 DEF Element
    <3>3. CASE t.name = "flags"
      <4>1. Element(t) = Type("enum", <<t.args[1]>>)
        BY <3>2, <3>3 DEF Element
      <4>2. NamesSomething(t)
        BY <3>1, <3>3 DEF Sound, Says, Naming
      <4>3. NamesSomething(Type("enum", <<t.args[1]>>))
        BY <4>2, <3>3 DEF NamesSomething, Type
      <4>4. "enum" \in Naming
        BY DEF Naming
      <4> QED
        BY <4>1, <4>3, <4>4, NamesOneIsSound
    <3>4. CASE t.name # "flags"
      <4>1. Element(t) = t.args[1] /\ t.name \notin Naming
        BY <2>1, <3>2, <3>4 DEF Element, Naming
      <4>2. Len(t.args) = 1
        BY <2>1, <3>1, <3>4 DEF Sound, Says, Arity, Atoms
      <4>3. 1 \in DOMAIN t.args
        BY <3>1, <4>2, ListHas DEF Sound
      <4>4. Checked(t.args[1])
        BY <3>1, <4>1, <4>3 DEF Sound
      <4> QED
        BY <4>1, <4>4, CheckedIsSound
    <3> QED
      BY <3>3, <3>4
  <2> QED
    BY <2>3, <2>4 DEF Judges
<1>2. CASE v.values = <<>> /\ t.name = "map" /\ Len(t.args) = 2
  <2>1. PICK i \in DOMAIN v.body : below = under(i, v.body[i].value, t.args[2])
    BY <1>2 DEF Inside
  <2>2. below.given = slot.given /\ below.type = InFull(t.args[2])
    BY <2>1 DEF Slot
  <2>3. ASSUME ~slot.given  PROVE Sound(InFull(t.args[2]))
    <3>1. Sound(t)
      BY <2>3 DEF Judges
    <3>2. 2 \in DOMAIN t.args /\ t.name \notin Naming
      BY <3>1, <1>2, ListHas DEF Sound, Naming
    <3> QED
      BY <3>1, <3>2, CheckedIsSound DEF Sound
  <2> QED
    BY <2>2, <2>3 DEF Judges
<1>3. CASE v.values = <<>> /\ ~(t.name = "map" /\ Len(t.args) = 2)
  <2> DEFINE id == t.args[1].name
             key(i) == FindKey(forms[id], v.body[i].key)
  <2>1. /\ id \in DOMAIN forms
        /\ \E i \in TypedIn(v, forms[id]) :
              below = Slot(Append(slot.at, i), v.body[i].value, Expected(v, key(i)), key(i).type_of # Nothing)
    BY <1>3, Zenon DEF Inside
  <2>2. PICK i \in TypedIn(v, forms[id]) :
              below = Slot(Append(slot.at, i), v.body[i].value, Expected(v, key(i)), key(i).type_of # Nothing)
    BY <2>1
  <2>3. below.given = (key(i).type_of # Nothing) /\ below.type = InFull(Expected(v, key(i)))
    BY <2>2 DEF Slot
  <2>4. ASSUME key(i).type_of = Nothing  PROVE Sound(InFull(Expected(v, key(i))))
    <3>1. HasKey(forms[id], v.body[i].key)
      BY <2>2 DEF TypedIn
    <3>2. key(i).type \in DeclaredTypes
      BY <3>1, <2>1, <2>4, <1>0, KeyIsDeclared
    <3>3. Expected(v, key(i)) = key(i).type
      BY <2>4 DEF Expected
    <3> QED
      BY <3>2, <3>3, <1>0, DeclaredAreChecked, CheckedIsSound
  <2> QED
    BY <2>3, <2>4 DEF Judges
<1> QED
  BY <1>1, <1>2, <1>3

LEMMA JudgesAllBelow ==
  ASSUME Going, Done, Approved, NEW start, Judges(start), NEW slot \in Reached(start)
  PROVE  Judges(slot)
<1> DEFINE T == {n \in 0..Nesting : \E s \in Level(start, Inside)[n] : ~Judges(s)}
<1>1. T = {}
  <2> SUFFICES ASSUME T # {}  PROVE FALSE
    OBVIOUS
  <2>0. T \in SUBSET Nat
    BY NestingAssumption
  <2>1. PICK m \in T : \A k \in T : m <= k
    BY <2>0, NatLeast
  <2>2. m # 0
    <3>1. Level(start, Inside)[0] = {start}
      BY LevelsOfSlots
    <3>2. 0 \notin T
      BY <3>1
    <3> QED
      BY <3>2
  <2>3. m - 1 \in 0..Nesting /\ m - 1 \notin T
    BY <2>1, <2>2, NestingAssumption
  <2>4. Level(start, Inside)[m] = UNION {Inside(x) : x \in Level(start, Inside)[m - 1]}
    BY <2>1, <2>2, LevelsOfSlots
  <2>5. \A x \in Level(start, Inside)[m - 1] : Judges(x)
    BY <2>3
  <2>6. \A s \in Level(start, Inside)[m] : Judges(s)
    BY <2>4, <2>5, JudgesBelow
  <2> QED
    BY <2>1, <2>6
<1>2. PICK n \in 0..Nesting : slot \in Level(start, Inside)[n]
  BY DEF Reached, ReachedFrom
<1> QED
  BY <1>1, <1>2

\* Where no declared type is reported, every value that stands for one is
\* judged by a type that says something, for all registries, files and
\* depths: check_value passes over what check_type has reported only.
THEOREM DeclaredTypesDoJudge == BlocksSpec => []DeclaredTypesJudge
<1>1. ASSUME Going  PROVE DeclaredTypesJudge
  <2> SUFFICES ASSUME Done, Approved, NEW i \in DOMAIN file, NEW slot \in SlotsOf(i)
               PROVE  slot.given \/ Says(slot.type)
    BY DEF DeclaredTypesJudge, Approved
  <2>0. Parsed
    BY <1>1, DoneReports
  <2>1. PICK start \in OfTheForm(i) \cup OfObject(i) : slot \in Reached(start)
    BY DEF SlotsOf
  <2>2. ASSUME start \in OfTheForm(i)  PROVE Judges(start)
    <3> DEFINE t == Type("block", <<Plain(file[i].key)>>)
    <3>1. file[i].key \in DOMAIN forms /\ start = Slot(<<i>>, file[i].value, t, FALSE)
      BY <2>2 DEF OfTheForm
    <3>2. NamesSomething(t) /\ "block" \in Naming
      BY <3>1 DEF NamesSomething, Type, Plain, Naming
    <3>3. Sound(InFull(t))
      BY <3>2, NamesOneIsSound
    <3>4. start.type = InFull(t)
      BY <3>1 DEF Slot
    <3> QED
      BY <3>3, <3>4 DEF Judges
  <2>3. ASSUME start \in OfObject(i)  PROVE Judges(start)
    <3> DEFINE b == file[i].value
               c == ReadObjectClass(file[i])
               type(j) == ResolveProperty(b.body[j].key, LocalPropDefs(b), c)
    <3>1. /\ Instantiates(i)
          /\ \E j \in DOMAIN b.body : /\ type(j) # Nothing
                                      /\ start = Slot(<<i, j>>, b.body[j].value, type(j), b.body[j].key \in OwnNames(b))
      BY <2>3 DEF OfObject
    <3>2. PICK j \in DOMAIN b.body :
             type(j) # Nothing /\ start = Slot(<<i, j>>, b.body[j].value, type(j), b.body[j].key \in OwnNames(b))
      BY <3>1
    <3>3. start.given = (b.body[j].key \in OwnNames(b)) /\ start.type = InFull(type(j))
      BY <3>2 DEF Slot
    <3>4. ASSUME b.body[j].key \notin OwnNames(b)  PROVE Sound(InFull(type(j)))
      <4>1. type(j) = FindDeclared(c, b.body[j].key)
        BY <3>4 DEF ResolveProperty, OwnNames
      <4>2. c \in Declared
        BY <3>1, NothingAssumption DEF Instantiates, Instantiated, ReadObjectClass
      <4>3. type(j) \in DeclaredTypes
        BY <4>1, <4>2, <3>2, <2>0, FoundIsDeclared
      <4> QED
        BY <4>3, <2>0, <1>1, DeclaredAreChecked, CheckedIsSound
    <3> QED
      BY <3>3, <3>4 DEF Judges
  <2>4. Judges(start)
    BY <2>1, <2>2, <2>3
  <2>5. Judges(slot)
    BY <2>1, <2>4, <1>1, JudgesAllBelow
  <2> QED
    BY <2>5 DEF Judges, Sound
<1> QED
  BY <1>1, GoesOn, PTL

-----------------------------------------------------------------------------
(* Places: what is found and called at one place is at every other *)

LEMMA NoStep == \A a \in Seq(Nat) : a \o <<>> = a
OBVIOUS

LEMMA OneStep ==
  ASSUME NEW a \in Seq(Nat), NEW k \in Nat
  PROVE  Append(a, k) = a \o <<k>> /\ <<k>> \in Seq(Nat) /\ Append(a, k) \in Seq(Nat)
<1>1. PICK b : b = Append(a, k)
  OBVIOUS
<1>2. PICK c : c = a \o <<k>>
  OBVIOUS
<1>3. b \in Seq(Nat) /\ c \in Seq(Nat) /\ Len(b) = Len(a) + 1 /\ Len(c) = Len(a) + 1
  BY <1>1, <1>2
<1>4. \A i \in 1..(Len(a) + 1) : b[i] = c[i]
  BY <1>1, <1>2
<1>5. b = c
  BY <1>3, <1>4
<1> QED
  BY <1>1, <1>2, <1>3, <1>5

LEMMA TwoSteps ==
  ASSUME NEW p \in Nat \X Nat
  PROVE  p \in Seq(Nat)
<1>1. PICK i \in Nat, j \in Nat : p = <<i, j>>
  OBVIOUS
<1> QED
  BY <1>1

LEMMA StepsCompose ==
  ASSUME NEW a \in Seq(Nat), NEW p \in Seq(Nat), NEW s \in Seq(Nat)
  PROVE  p \o s \in Seq(Nat) /\ a \o p \in Seq(Nat) /\ (a \o p) \o s = a \o (p \o s)
<1>1. PICK b : b = (a \o p) \o s
  OBVIOUS
<1>2. PICK c : c = a \o (p \o s)
  OBVIOUS
<1>3. a \o p \in Seq(Nat) /\ p \o s \in Seq(Nat) /\ Len(a \o p) = Len(a) + Len(p) /\ Len(p \o s) = Len(p) + Len(s)
  OBVIOUS
<1>4. b \in Seq(Nat) /\ c \in Seq(Nat) /\ Len(b) = Len(a) + Len(p) + Len(s) /\ Len(c) = Len(a) + Len(p) + Len(s)
  BY <1>1, <1>2, <1>3
<1>5. ASSUME NEW i \in 1..(Len(a) + Len(p) + Len(s))
      PROVE  b[i] = c[i]
  <2>1. CASE i <= Len(a)
    BY <2>1, <1>1, <1>2, <1>3
  <2>2. CASE Len(a) < i /\ i <= Len(a) + Len(p)
    <3>1. b[i] = (a \o p)[i] /\ (a \o p)[i] = p[i - Len(a)]
      BY <2>2, <1>1, <1>3
    <3>2. c[i] = (p \o s)[i - Len(a)] /\ i - Len(a) \in 1..Len(p)
      BY <2>2, <1>2, <1>3
    <3> QED
      BY <3>1, <3>2
  <2>3. CASE Len(a) + Len(p) < i
    <3>1. b[i] = s[i - (Len(a) + Len(p))]
      BY <2>3, <1>1, <1>3
    <3>2. c[i] = (p \o s)[i - Len(a)] /\ i - Len(a) \in (Len(p) + 1)..(Len(p) + Len(s))
      BY <2>3, <1>2, <1>3
    <3>3. (p \o s)[i - Len(a)] = s[(i - Len(a)) - Len(p)]
      BY <3>2
    <3>4. i - (Len(a) + Len(p)) = (i - Len(a)) - Len(p)
      OBVIOUS
    <3> QED
      BY <3>1, <3>2, <3>3, <3>4
  <2> QED
    BY <2>1, <2>2, <2>3
<1>6. b = c
  BY <1>4, <1>5
<1> QED
  BY <1>1, <1>2, <1>3, <1>6

\* The same, for a place to be taken further without looking at its parts.
Further(a, p, s) == (a \o p) \o s = a \o (p \o s)
LEMMA StepsGoFurther == \A a, p, s \in Seq(Nat) : Further(a, p, s)
BY StepsCompose DEF Further

\* Whatever is in one set of reports below `a` is in another below `b`.
Moves(r, Y, a, b) == \E s \in Seq(Nat) : r.at = a \o s /\ Note(r.code, b \o s) \in Y
Shifts(X, Y, a, b) == \A r \in X : Moves(r, Y, a, b)

LEMMA NothingShifts == \A Y, a, b : Shifts({}, Y, a, b)
BY DEF Shifts

LEMMA ShiftsTogether ==
  ASSUME NEW X1, NEW X2, NEW Y1, NEW Y2, NEW a, NEW b, Shifts(X1, Y1, a, b), Shifts(X2, Y2, a, b)
  PROVE  Shifts(X1 \cup X2, Y1 \cup Y2, a, b)
BY DEF Shifts, Moves

LEMMA OneMoves ==
  ASSUME NEW a, NEW b, NEW s \in Seq(Nat), NEW x, NEW y, x = a \o s, y = b \o s,
         NEW code, NEW Y, Note(code, y) \in Y
  PROVE  Moves(Note(code, x), Y, a, b)
<1>1. Note(code, x).at = x /\ Note(code, x).code = code
  BY DEF Note
<1>2. Note(code, b \o s) \in Y
  OBVIOUS
<1> QED
  BY <1>1, <1>2 DEF Moves

LEMMA HereShifts ==
  ASSUME NEW a \in Seq(Nat), NEW b \in Seq(Nat), NEW code
  PROVE  Shifts({Note(code, a)}, {Note(code, b)}, a, b)
<1>1. <<>> \in Seq(Nat) /\ a = a \o <<>> /\ b = b \o <<>>
  BY NoStep
<1>2. Moves(Note(code, a), {Note(code, b)}, a, b)
  BY <1>1, OneMoves
<1> QED
  BY <1>2 DEF Shifts

LEMMA StepShifts ==
  ASSUME NEW a \in Seq(Nat), NEW b \in Seq(Nat), NEW code, NEW I \in SUBSET Nat
  PROVE  Shifts({Note(code, Append(a, i)) : i \in I}, {Note(code, Append(b, i)) : i \in I}, a, b)
<1> DEFINE Y == {Note(code, Append(b, i)) : i \in I}
<1> SUFFICES ASSUME NEW i \in I
             PROVE  Moves(Note(code, Append(a, i)), Y, a, b)
  BY DEF Shifts
<1>1. Append(a, i) = a \o <<i>> /\ Append(b, i) = b \o <<i>> /\ <<i>> \in Seq(Nat)
  BY OneStep
<1>2. Note(code, Append(b, i)) \in Y
  OBVIOUS
<1> HIDE DEF Y
<1> QED
  BY <1>1, <1>2, OneMoves

LEMMA PlaceShifts ==
  ASSUME NEW a \in Seq(Nat), NEW b \in Seq(Nat), NEW code, NEW P \in SUBSET Seq(Nat)
  PROVE  Shifts({Note(code, a \o p) : p \in P}, {Note(code, b \o p) : p \in P}, a, b)
<1> DEFINE Y == {Note(code, b \o p) : p \in P}
<1> SUFFICES ASSUME NEW p \in P
             PROVE  Moves(Note(code, a \o p), Y, a, b)
  BY DEF Shifts
<1>1. Note(code, b \o p) \in Y /\ p \in Seq(Nat)
  OBVIOUS
<1> HIDE DEF Y
<1> QED
  BY <1>1, OneMoves

\* What is below a step below a place is below the place.
LEMMA DeeperShifts ==
  ASSUME NEW a \in Seq(Nat), NEW b \in Seq(Nat), NEW p \in Seq(Nat), NEW X, NEW Y,
         Shifts(X, Y, a \o p, b \o p)
  PROVE  Shifts(X, Y, a, b)
<1> SUFFICES ASSUME NEW r \in X
             PROVE  \E s \in Seq(Nat) : r.at = a \o s /\ Note(r.code, b \o s) \in Y
  BY DEF Shifts, Moves
<1>1. PICK s \in Seq(Nat) : r.at = (a \o p) \o s /\ Note(r.code, (b \o p) \o s) \in Y
  BY DEF Shifts, Moves
<1>2. p \o s \in Seq(Nat) /\ (a \o p) \o s = a \o (p \o s)
  <2>1. p \o s \in Seq(Nat)
    OBVIOUS
  <2>2. Further(a, p, s)
    BY StepsGoFurther
  <2> QED
    BY <2>1, <2>2 DEF Further
<1>3. (b \o p) \o s = b \o (p \o s)
  <2>1. Further(b, p, s)
    BY StepsGoFurther
  <2> QED
    BY <2>1 DEF Further
<1>4. r.at = a \o (p \o s) /\ Note(r.code, b \o (p \o s)) \in Y
  BY <1>1, <1>2, <1>3
<1> QED
  BY <1>2, <1>4

LEMMA ArgumentsShift ==
  ASSUME NEW x, IsList(x.args), NEW a \in Seq(Nat), NEW b \in Seq(Nat)
  PROVE  Shifts(CheckArguments(x, a), CheckArguments(x, b), a, b)
<1>0. DOMAIN x.args \subseteq Nat
  BY ListHas
<1>1. Shifts({BadArgument(a)}, {BadArgument(b)}, a, b)
  BY HereShifts DEF BadArgument
<1>2. Shifts(UnknownFrontends(x.args, a), UnknownFrontends(x.args, b), a, b)
  <2> DEFINE J == {j \in DOMAIN x.args : x.args[j].text \notin Frontends}
  <2>1. J \in SUBSET Nat
    BY <1>0
  <2>2. \A at : UnknownFrontends(x.args, at) = {Note("AnnotationArgument", Append(at, j)) : j \in J}
    BY DEF UnknownFrontends, BadArgument
  <2> HIDE DEF J
  <2>3. Shifts({Note("AnnotationArgument", Append(a, j)) : j \in J},
               {Note("AnnotationArgument", Append(b, j)) : j \in J}, a, b)
    BY <2>1, StepShifts
  <2> QED
    BY <2>2, <2>3
<1>3. Shifts({BadArgument(Append(a, 1))}, {BadArgument(Append(b, 1))}, a, b)
  <2>1. {1} \in SUBSET Nat
    OBVIOUS
  <2>2. Shifts({Note("AnnotationArgument", Append(a, i)) : i \in {1}}, {Note("AnnotationArgument", Append(b, i)) : i \in {1}}, a, b)
    BY <2>1, StepShifts
  <2>3. \A at : {Note("AnnotationArgument", Append(at, i)) : i \in {1}} = {BadArgument(Append(at, 1))}
    BY DEF BadArgument
  <2> QED
    BY <2>2, <2>3
<1>4. Shifts({}, {}, a, b)
  BY NothingShifts
<1> QED
  BY <1>1, <1>2, <1>3, <1>4 DEF CheckArguments

LEMMA AnnotationsShift ==
  ASSUME NEW v, IsList(v.notes), \A i \in DOMAIN v.notes : IsList(v.notes[i].args),
         NEW top, NEW a \in Seq(Nat), NEW b \in Seq(Nat)
  PROVE  Shifts(CheckValueAnnotations(v, top, a), CheckValueAnnotations(v, top, b), a, b)
<1> DEFINE named == {i \in DOMAIN v.notes : v.notes[i].name # ""}
           known == {i \in named : v.notes[i].name \in Kinds}
           combining == {i \in known : v.notes[i].name \in Combining}
           misapplied == {i \in known : \/ v.notes[i].name = "replaces" /\ ~top
                                        \/ Shape(v) \notin Applies(v.notes[i].name)}
           conflicting == {i \in combining : Conflicting(i, combining)}
           unknown == named \ known
           notes(code, I, at) == {Note(code, Append(at, i)) : i \in I}
           arguments(at) == UNION {CheckArguments(v.notes[i], Append(at, i)) : i \in known}
<1>0. DOMAIN v.notes \subseteq Nat
  BY ListHas
<1>1. unknown \in SUBSET Nat /\ misapplied \in SUBSET Nat /\ conflicting \in SUBSET Nat /\ known \in SUBSET DOMAIN v.notes
  BY <1>0
<1>2. \A at : CheckValueAnnotations(v, top, at) =
          (notes("UnknownAnnotation", unknown, at) \cup arguments(at))
            \cup (notes("AnnotationMisapplied", misapplied, at) \cup notes("AnnotationConflict", conflicting, at))
  BY DEF CheckValueAnnotations
<1> HIDE DEF known, unknown, misapplied, conflicting
<1>3. \A code : \A I \in SUBSET Nat : Shifts(notes(code, I, a), notes(code, I, b), a, b)
  BY StepShifts
<1>4. Shifts(arguments(a), arguments(b), a, b)
  <2> SUFFICES ASSUME NEW i \in known, NEW r \in CheckArguments(v.notes[i], Append(a, i))
               PROVE  Moves(r, arguments(b), a, b)
    BY DEF Shifts
  <2>1. i \in Nat /\ IsList(v.notes[i].args)
    BY <1>0, <1>1
  <2>2. /\ Append(a, i) = a \o <<i>> /\ Append(b, i) = b \o <<i>> /\ <<i>> \in Seq(Nat)
        /\ Append(a, i) \in Seq(Nat) /\ Append(b, i) \in Seq(Nat)
    BY <2>1, OneStep
  <2>3. Shifts(CheckArguments(v.notes[i], Append(a, i)), CheckArguments(v.notes[i], Append(b, i)), Append(a, i), Append(b, i))
    BY <2>1, <2>2, ArgumentsShift
  <2>4. PICK X : X = CheckArguments(v.notes[i], Append(a, i))
    OBVIOUS
  <2>5. PICK Y : Y = CheckArguments(v.notes[i], Append(b, i))
    OBVIOUS
  <2>6. Shifts(X, Y, a \o <<i>>, b \o <<i>>)
    BY <2>2, <2>3, <2>4, <2>5
  <2>7. Shifts(X, Y, a, b)
    BY <2>2, <2>6, DeeperShifts
  <2>8. Y \subseteq arguments(b)
    BY <2>5
  <2> QED
    BY <2>4, <2>7, <2>8 DEF Shifts, Moves
<1> HIDE DEF notes, arguments
<1>5. /\ Shifts(notes("UnknownAnnotation", unknown, a), notes("UnknownAnnotation", unknown, b), a, b)
      /\ Shifts(notes("AnnotationMisapplied", misapplied, a), notes("AnnotationMisapplied", misapplied, b), a, b)
      /\ Shifts(notes("AnnotationConflict", conflicting, a), notes("AnnotationConflict", conflicting, b), a, b)
  BY <1>1, <1>3
<1>6. Shifts(notes("UnknownAnnotation", unknown, a) \cup arguments(a),
             notes("UnknownAnnotation", unknown, b) \cup arguments(b), a, b)
  BY <1>4, <1>5, ShiftsTogether
<1>7. Shifts(notes("AnnotationMisapplied", misapplied, a) \cup notes("AnnotationConflict", conflicting, a),
             notes("AnnotationMisapplied", misapplied, b) \cup notes("AnnotationConflict", conflicting, b), a, b)
  BY <1>5, ShiftsTogether
<1> QED
  BY <1>2, <1>6, <1>7, ShiftsTogether

LEMMA ScalarShifts ==
  ASSUME NEW v, NEW type, NEW a \in Seq(Nat), NEW b \in Seq(Nat)
  PROVE  Shifts(CheckScalar(v, type, a), CheckScalar(v, type, b), a, b)
<1>1. \A r \in CheckScalar(v, type, a) : r = Note(r.code, a) /\ Note(r.code, b) \in CheckScalar(v, type, b)
  BY DEF CheckScalar, CheckReference, Mismatch, Note
<1> SUFFICES ASSUME NEW r \in CheckScalar(v, type, a)
             PROVE  Moves(r, CheckScalar(v, type, b), a, b)
  BY DEF Shifts
<1>2. PICK Y : Y = CheckScalar(v, type, b)
  OBVIOUS
<1>3. r = Note(r.code, a) /\ Note(r.code, b) \in Y /\ <<>> \in Seq(Nat) /\ a = a \o <<>> /\ b = b \o <<>>
  BY <1>1, <1>2, NoStep
<1>4. Moves(Note(r.code, a), Y, a, b)
  BY <1>3, OneMoves
<1> QED
  BY <1>2, <1>3, <1>4

LEMMA MismatchShifts ==
  ASSUME NEW a \in Seq(Nat), NEW b \in Seq(Nat)
  PROVE  Shifts(Mismatch(a), Mismatch(b), a, b)
BY HereShifts DEF Mismatch

EntriesReports(v, element, at) == UNION {EntryReports(v.values[i], element, Append(at, i)) : i \in DOMAIN v.values}

LEMMA EntriesShift ==
  ASSUME NEW v, IsList(v.values), NEW element, NEW a \in Seq(Nat), NEW b \in Seq(Nat)
  PROVE  Shifts(EntriesReports(v, element, a), EntriesReports(v, element, b), a, b)
<1> SUFFICES ASSUME NEW i \in DOMAIN v.values, NEW r \in EntryReports(v.values[i], element, Append(a, i))
             PROVE  Moves(r, EntriesReports(v, element, b), a, b)
  BY DEF Shifts, EntriesReports
<1>1. i \in Nat
  BY ListHas
<1>2. /\ Append(a, i) = a \o <<i>> /\ Append(b, i) = b \o <<i>> /\ <<i>> \in Seq(Nat)
      /\ Append(a, i) \in Seq(Nat) /\ Append(b, i) \in Seq(Nat)
  BY <1>1, OneStep
<1>3. PICK X : X = EntryReports(v.values[i], element, Append(a, i))
  OBVIOUS
<1>4. PICK Y : Y = EntryReports(v.values[i], element, Append(b, i))
  OBVIOUS
<1>5. Shifts(X, Y, Append(a, i), Append(b, i))
  <2>1. CASE element = Nothing
    BY <2>1, <1>3, NothingShifts DEF EntryReports
  <2>2. CASE element # Nothing
    <3>1. X = CheckScalar(v.values[i], Resolve(element), Append(a, i)) /\ Y = CheckScalar(v.values[i], Resolve(element), Append(b, i))
      BY <2>2, <1>3, <1>4 DEF EntryReports
    <3>2. Shifts(CheckScalar(v.values[i], Resolve(element), Append(a, i)),
                 CheckScalar(v.values[i], Resolve(element), Append(b, i)), Append(a, i), Append(b, i))
      BY <1>2, ScalarShifts
    <3> QED
      BY <3>1, <3>2
  <2> QED
    BY <2>1, <2>2
<1>6. Shifts(X, Y, a \o <<i>>, b \o <<i>>)
  BY <1>2, <1>5
<1>7. Shifts(X, Y, a, b)
  BY <1>2, <1>6, DeeperShifts
<1>8. Y \subseteq EntriesReports(v, element, b)
  BY <1>4 DEF EntriesReports
<1> QED
  BY <1>3, <1>7, <1>8 DEF Shifts, Moves

LEMMA CollectionShifts ==
  ASSUME NEW v, IsList(v.values), NEW type, NEW a \in Seq(Nat), NEW b \in Seq(Nat)
  PROVE  Shifts(CollectionReports(v, type, a), CollectionReports(v, type, b), a, b)
<1> DEFINE again == {i \in DOMAIN v.values : type.name = "set" /\ Repeated(v.values, i)}
           records == type.name = "list" /\ Element(type) # Nothing /\ Resolve(Element(type)).name \in BlockTypes
           entries(at) == EntriesReports(v, Element(type), at)
           repeats(at) == {Note("TypeMismatch", Append(at, i)) : i \in again}
<1>1. again \in SUBSET Nat
  BY ListHas
<1>2. \A at : CollectionReports(v, type, at) =
                 IF IsRecord(v) THEN IF records THEN {} ELSE Mismatch(at) ELSE entries(at) \cup repeats(at)
  BY DEF CollectionReports, EntriesReports
<1>3. Shifts(entries(a), entries(b), a, b)
  BY EntriesShift
<1> HIDE DEF again, records
<1>4. Shifts(repeats(a), repeats(b), a, b)
  BY <1>1, StepShifts
<1> HIDE DEF entries, repeats
<1>5. Shifts(entries(a) \cup repeats(a), entries(b) \cup repeats(b), a, b)
  BY <1>3, <1>4, ShiftsTogether
<1> QED
  BY <1>2, <1>5, MismatchShifts, NothingShifts

LEMMA RecordShifts ==
  ASSUME NEW v, IsList(v.body), NEW type, NEW a \in Seq(Nat), NEW b \in Seq(Nat)
  PROVE  Shifts(RecordReports(v, type, a), RecordReports(v, type, b), a, b)
<1> DEFINE key == Resolve(type.args[1])
           unknown == {i \in DOMAIN v.body : /\ key.name = "enum" /\ key.args # <<>>
                                             /\ key.args[1].name \in DOMAIN enums
                                             /\ v.body[i].key \notin enums[key.args[1].name]}
           notes(at) == {Note("TypeMismatch", Append(at, i)) : i \in unknown}
<1>1. unknown \in SUBSET Nat
  BY ListHas
<1>2. \A at : RecordReports(v, type, at) =
                 IF ~IsRecord(v) THEN Mismatch(at) ELSE IF IsMap(type) THEN notes(at) ELSE {}
  BY DEF RecordReports
<1> HIDE DEF unknown
<1>3. Shifts(notes(a), notes(b), a, b)
  BY <1>1, StepShifts
<1> HIDE DEF notes
<1>4. CASE ~IsRecord(v)
  BY <1>2, <1>4, MismatchShifts
<1>5. CASE IsRecord(v) /\ IsMap(type)
  BY <1>2, <1>3, <1>5
<1>6. CASE IsRecord(v) /\ ~IsMap(type)
  BY <1>2, <1>6, NothingShifts
<1> QED
  BY <1>4, <1>5, <1>6

LEMMA BlockShifts ==
  ASSUME NEW block, IsList(block.body), NEW form, NEW a \in Seq(Nat), NEW b \in Seq(Nat)
  PROVE  Shifts(BlockReports(block, form, a), BlockReports(block, form, b), a, b)
<1> DEFINE unknown == {i \in DOMAIN block.body : ~form.open /\ ~HasKey(form, block.body[i].key)}
           notes(code, I, at) == {Note(code, Append(at, i)) : i \in I}
<1>1. unknown \in SUBSET Nat
  BY ListHas
<1>2. Duplicates(block.body, form) \in SUBSET Nat
  BY ListHas DEF Duplicates
<1>3. \A at : BlockReports(block, form, at) =
                 notes("UnknownKey", unknown, at) \cup notes("DuplicateKey", Duplicates(block.body, form), at)
  BY DEF BlockReports
<1> HIDE DEF unknown
<1>4. \A code : \A I \in SUBSET Nat : Shifts(notes(code, I, a), notes(code, I, b), a, b)
  BY StepShifts
<1> HIDE DEF notes
<1>5. /\ Shifts(notes("UnknownKey", unknown, a), notes("UnknownKey", unknown, b), a, b)
      /\ Shifts(notes("DuplicateKey", Duplicates(block.body, form), a),
                notes("DuplicateKey", Duplicates(block.body, form), b), a, b)
  BY <1>1, <1>2, <1>4
<1> QED
  BY <1>3, <1>5, ShiftsTogether

\* The second member of a group that is written stands at a statement of it.
LEMMA SecondMember ==
  ASSUME NEW block, IsList(block.body), NEW form, IsList(form.keys), NEW group,
         NEW present, present = {k \in Members(form, group) : With(block, form.keys[k].name) # {}},
         present # {}, present # {Least(present)}
  PROVE  LET second == Least(present \ {Least(present)})
         IN  /\ second \in DOMAIN form.keys
             /\ Least(With(block, form.keys[second].name)) \in With(block, form.keys[second].name)
<1>1. present \in SUBSET Nat /\ present \subseteq DOMAIN form.keys
  BY ListHas DEF Members
<1>2. PICK first : first = Least(present)
  OBVIOUS
<1>3. first \in present
  BY <1>1, <1>2, LeastIs
<1>9. present \ {first} # {} /\ present \ {first} \in SUBSET Nat
  BY <1>1, <1>2, <1>3
<1>4. PICK second : second = Least(present \ {first})
  OBVIOUS
<1>5. second \in present
  BY <1>9, <1>4, LeastIs
<1>6. PICK written : written = With(block, form.keys[second].name)
  OBVIOUS
<1>7. written # {} /\ written \in SUBSET Nat
  BY <1>5, <1>6, ListHas DEF With
<1>8. Least(written) \in written
  BY <1>7, LeastIs
<1> QED
  BY <1>1, <1>2, <1>4, <1>5, <1>6, <1>8

LEMMA GroupShifts ==
  ASSUME NEW block, IsList(block.body), NEW form, IsList(form.keys), NEW group, NEW a \in Seq(Nat), NEW b \in Seq(Nat)
  PROVE  Shifts(GroupReports(block, form, group, a), GroupReports(block, form, group, b), a, b)
<1> DEFINE present == {k \in Members(form, group) : With(block, form.keys[k].name) # {}}
           place(k) == Least(With(block, form.keys[k].name))
           first == Least(present)
           second == Least(present \ {first})
           missed == \E k \in Members(form, group) : form.keys[k].required
           met == Meet(block.body[place(first)], block.body[place(second)])
<1>1. \A at : GroupReports(block, form, group, at) =
                 CASE present = {} -> IF missed THEN {Note("ExclusiveMissing", at)} ELSE {}
                   [] present = {first} -> {}
                   [] OTHER -> IF met THEN {Note("ExclusiveGroup", Append(at, place(second)))} ELSE {}
  BY DEF GroupReports
<1>2. present # {} /\ present # {first} => place(second) \in Nat
  <2> SUFFICES ASSUME present # {}, present # {first}  PROVE place(second) \in Nat
    OBVIOUS
  <2>1. PICK p : p = present
    OBVIOUS
  <2>2. p = {k \in Members(form, group) : With(block, form.keys[k].name) # {}} /\ p # {} /\ p # {Least(p)}
    BY <2>1
  <2>3. place(Least(p \ {Least(p)})) \in With(block, form.keys[Least(p \ {Least(p)})].name)
    BY <2>2, SecondMember
  <2>4. PICK n : n = Least(p \ {Least(p)})
    OBVIOUS
  <2>5. place(n) \in Nat
    BY <2>3, <2>4, ListHas DEF With
  <2> QED
    BY <2>1, <2>4, <2>5
<1> HIDE DEF present, first, place, second, missed, met
<1>3. Shifts({Note("ExclusiveMissing", a)}, {Note("ExclusiveMissing", b)}, a, b)
  BY HereShifts
<1>4. \A k \in Nat : Shifts({Note("ExclusiveGroup", Append(a, k))}, {Note("ExclusiveGroup", Append(b, k))}, a, b)
  <2> TAKE k \in Nat
  <2>1. {k} \in SUBSET Nat
    OBVIOUS
  <2>2. Shifts({Note("ExclusiveGroup", Append(a, i)) : i \in {k}}, {Note("ExclusiveGroup", Append(b, i)) : i \in {k}}, a, b)
    BY <2>1, StepShifts
  <2>3. \A at : {Note("ExclusiveGroup", Append(at, i)) : i \in {k}} = {Note("ExclusiveGroup", Append(at, k))}
    OBVIOUS
  <2> QED
    BY <2>2, <2>3
<1>5. CASE present = {}
  BY <1>1, <1>3, <1>5, NothingShifts
<1>6. CASE present # {} /\ present = {first}
  BY <1>1, <1>6, NothingShifts
<1>7. CASE present # {} /\ present # {first}
  <2>1. \A at : GroupReports(block, form, group, at) = IF met THEN {Note("ExclusiveGroup", Append(at, place(second)))} ELSE {}
    BY <1>1, <1>7
  <2>2. PICK k \in Nat : k = place(second)
    BY <1>2, <1>7
  <2> QED
    BY <2>1, <2>2, <1>4, NothingShifts
<1> QED
  BY <1>5, <1>6, <1>7

LEMMA CloseShifts ==
  ASSUME NEW block, IsList(block.body), NEW form, IsList(form.keys), NEW a \in Seq(Nat), NEW b \in Seq(Nat)
  PROVE  Shifts(CloseReports(block, form, a), CloseReports(block, form, b), a, b)
<1> DEFINE missing == {k \in DOMAIN form.keys : /\ form.keys[k].required /\ form.keys[k].group = Nothing
                                                /\ With(block, form.keys[k].name) = {}}
           notes(at) == {Note("KeyMissing", at) : k \in missing}
           groups(at) == UNION {GroupReports(block, form, g, at) : g \in GroupsOf(form)}
<1>1. \A at : CloseReports(block, form, at) = notes(at) \cup groups(at)
  BY DEF CloseReports
<1> HIDE DEF missing
<1>2. Shifts(notes(a), notes(b), a, b)
  <2>1. missing = {} => notes(a) = {}
    OBVIOUS
  <2>2. missing # {} => notes(a) = {Note("KeyMissing", a)} /\ notes(b) = {Note("KeyMissing", b)}
    OBVIOUS
  <2>3. Shifts({Note("KeyMissing", a)}, {Note("KeyMissing", b)}, a, b)
    BY HereShifts
  <2> HIDE DEF notes
  <2> QED
    BY <2>1, <2>2, <2>3, NothingShifts
<1>3. Shifts(groups(a), groups(b), a, b)
  <2> SUFFICES ASSUME NEW g \in GroupsOf(form), NEW r \in GroupReports(block, form, g, a)
               PROVE  Moves(r, groups(b), a, b)
    BY DEF Shifts
  <2>1. Moves(r, GroupReports(block, form, g, b), a, b)
    BY GroupShifts DEF Shifts
  <2>2. GroupReports(block, form, g, b) \subseteq groups(b)
    OBVIOUS
  <2> HIDE DEF groups
  <2> QED
    BY <2>1, <2>2 DEF Moves
<1> HIDE DEF notes, groups
<1> QED
  BY <1>1, <1>2, <1>3, ShiftsTogether

\* The places of the declarations in a block of the file.
LEMMA PropPlacesArePlaces ==
  ASSUME IsFile(file), NEW b \in Written, b.is = "block"
  PROVE  /\ PropPlaces(b) \in SUBSET Seq(Nat)
         /\ \A p \in PropPlaces(b) : /\ PropAt(b, p).value \in Written
                                     /\ IsBlock(PropAt(b, p).value) => DOMAIN PropAt(b, p).value.body \subseteq Nat
<1>1. IsList(b.body) /\ \A i \in DOMAIN b.body : b.body[i].value \in Written \cup {Nothing}
  BY InBlock
<1> SUFFICES ASSUME NEW p \in PropPlaces(b)
             PROVE  /\ p \in Seq(Nat) /\ PropAt(b, p).value \in Written
                    /\ IsBlock(PropAt(b, p).value) => DOMAIN PropAt(b, p).value.body \subseteq Nat
  OBVIOUS
<1>2. PICK i \in With(b, "prop_def") : /\ IsBlock(b.body[i].value)
                                       /\ \E j \in DOMAIN b.body[i].value.body : p = <<i, j>> /\ b.body[i].value.body[j].value # Nothing
  BY DEF PropPlaces
<1>3. PICK j \in DOMAIN b.body[i].value.body : p = <<i, j>> /\ b.body[i].value.body[j].value # Nothing
  BY <1>2
<1>4. i \in DOMAIN b.body /\ i \in Nat /\ b.body[i].value \in Written /\ b.body[i].value.is = "block"
  BY <1>1, <1>2, ListHas DEF With, IsBlock
<1>5. IsList(b.body[i].value.body) /\ b.body[i].value.body[j].value \in Written
  BY <1>3, <1>4, InBlock
<1>6. j \in Nat /\ p \in Seq(Nat)
  BY <1>3, <1>4, <1>5, ListHas
<1>7. PropAt(b, p).value \in Written
  BY <1>3, <1>5 DEF PropAt
<1>8. PICK w : w = PropAt(b, p).value
  OBVIOUS
<1>9. ASSUME IsBlock(w)  PROVE DOMAIN w.body \subseteq Nat
  <2>1. IsList(w.body)
    BY <1>7, <1>8, <1>9, InBlock DEF IsBlock
  <2> QED
    BY <2>1, ListHas
<1> QED
  BY <1>6, <1>7, <1>8, <1>9

MarkedAt(P, K, code, at) == UNION {{Note(code, Append(at \o p, k)) : k \in K[p]} : p \in P}

LEMMA MarkersShift ==
  ASSUME NEW P \in SUBSET Seq(Nat), NEW K, \A p \in P : K[p] \in SUBSET Nat, NEW code,
         NEW a \in Seq(Nat), NEW b \in Seq(Nat)
  PROVE  Shifts(MarkedAt(P, K, code, a), MarkedAt(P, K, code, b), a, b)
<1> DEFINE Y == MarkedAt(P, K, code, b)
<1> SUFFICES ASSUME NEW p \in P, NEW k \in K[p]
             PROVE  Moves(Note(code, Append(a \o p, k)), Y, a, b)
  BY DEF Shifts, MarkedAt
<1>1. k \in Nat /\ p \in Seq(Nat)
  OBVIOUS
<1>2. a \o p \in Seq(Nat) /\ b \o p \in Seq(Nat) /\ <<k>> \in Seq(Nat)
  BY <1>1
<1>3. Append(a \o p, k) = (a \o p) \o <<k>> /\ Append(b \o p, k) = (b \o p) \o <<k>>
  BY <1>1, <1>2, OneStep
<1>4. (a \o p) \o <<k>> = a \o (p \o <<k>>) /\ (b \o p) \o <<k>> = b \o (p \o <<k>>) /\ p \o <<k>> \in Seq(Nat)
  <2>1. PICK s : s = <<k>>
    OBVIOUS
  <2>2. s \in Seq(Nat)
    BY <1>2, <2>1
  <2>3. p \o s \in Seq(Nat)
    BY <1>1, <2>2
  <2>4. Further(a, p, s) /\ Further(b, p, s)
    BY <1>1, <2>2, StepsGoFurther
  <2> QED
    BY <2>1, <2>3, <2>4 DEF Further
<1>5. Note(code, Append(b \o p, k)) \in Y
  BY DEF MarkedAt
<1>6. PICK s \in Seq(Nat) : s = p \o <<k>>
  BY <1>4
<1>7. Append(a \o p, k) = a \o s /\ Append(b \o p, k) = b \o s
  BY <1>3, <1>4, <1>6
<1> HIDE DEF Y
<1> QED
  BY <1>5, <1>7, OneMoves

LEMMA PropDefsShift ==
  ASSUME IsFile(file), NEW block \in Written, block.is = "block", NEW a \in Seq(Nat), NEW b \in Seq(Nat)
  PROVE  Shifts(PropDefReports(block, a), PropDefReports(block, b), a, b)
<1> DEFINE bare == {i \in With(block, "prop_def") : ~IsBlock(block.body[i].value)}
           untyped == {p \in PropPlaces(block) : PropType(PropAt(block, p).value) = Nothing}
           marked == {p \in PropPlaces(block) : IsBlock(PropAt(block, p).value) /\ "prop_marker" \in DOMAIN forms}
           strange == [p \in marked |-> {k \in DOMAIN PropAt(block, p).value.body :
                                           ~HasKey(forms["prop_marker"], PropAt(block, p).value.body[k].key)}]
           bares(at) == {Note("SchemaInvalid", Append(at, i)) : i \in bare}
           untypeds(at) == {Note("SchemaInvalid", at \o p) : p \in untyped}
           markers(at) == MarkedAt(marked, strange, "UnknownKey", at)
<1>1. IsList(block.body)
  BY InBlock
<1>2. bare \in SUBSET Nat
  BY <1>1, ListHas DEF With
<1>3. untyped \in SUBSET Seq(Nat) /\ marked \in SUBSET Seq(Nat) /\ \A p \in marked : strange[p] \in SUBSET Nat
  BY PropPlacesArePlaces
<1>4. \A at : PropDefReports(block, at) = (bares(at) \cup untypeds(at)) \cup markers(at)
  BY DEF PropDefReports, MarkedAt
<1> HIDE DEF bare, untyped, marked, strange
<1>5. Shifts(bares(a), bares(b), a, b)
  BY <1>2, StepShifts
<1>6. Shifts(untypeds(a), untypeds(b), a, b)
  BY <1>3, PlaceShifts
<1>7. Shifts(markers(a), markers(b), a, b)
  BY <1>3, MarkersShift
<1> HIDE DEF bares, untypeds, markers
<1>8. Shifts(bares(a) \cup untypeds(a), bares(b) \cup untypeds(b), a, b)
  BY <1>5, <1>6, ShiftsTogether
<1> QED
  BY <1>4, <1>7, <1>8, ShiftsTogether

LEMMA RedeclaredShift ==
  ASSUME IsFile(file), NEW block \in Written, block.is = "block", NEW c, NEW a \in Seq(Nat), NEW b \in Seq(Nat)
  PROVE  Shifts(CheckLocalPropDefs(LocalPropDefs(block), c, a), CheckLocalPropDefs(LocalPropDefs(block), c, b), a, b)
<1> DEFINE Y == CheckLocalPropDefs(LocalPropDefs(block), c, b)
<1> SUFFICES ASSUME NEW r \in CheckLocalPropDefs(LocalPropDefs(block), c, a)
             PROVE  Moves(r, Y, a, b)
  BY DEF Shifts
<1>1. PICK d \in LocalPropDefs(block) :
         /\ FindDeclared(c, d.name) # Nothing
         /\ r = Note(IF FindDeclared(c, d.name) = d.type THEN "PropDefRedundant" ELSE "PropDefTypeMismatch", a \o d.place)
  BY DEF CheckLocalPropDefs
<1>2. PICK code : code = IF FindDeclared(c, d.name) = d.type THEN "PropDefRedundant" ELSE "PropDefTypeMismatch"
  OBVIOUS
<1>3. d.place \in PropPlaces(block)
  BY DEF LocalPropDefs
<1>4. d.place \in Seq(Nat)
  BY <1>3, PropPlacesArePlaces
<1>5. Note(code, b \o d.place) \in Y
  BY <1>1, <1>2 DEF CheckLocalPropDefs
<1> HIDE DEF Y
<1>6. Moves(Note(code, a \o d.place), Y, a, b)
  BY <1>4, <1>5, OneMoves
<1> QED
  BY <1>1, <1>2, <1>6

LEMMA PlacementShifts ==
  ASSUME NEW block, IsList(block.body), NEW a \in Seq(Nat), NEW b \in Seq(Nat)
  PROVE  Shifts(PlacementReports(block, a), PlacementReports(block, b), a, b)
<1> DEFINE sugar == Sugar(block)
           both == sugar # {} /\ LongForm(block) # {}
           second == {i \in sugar : i # Least(sugar) /\ \A j \in sugar : j < i => j = Least(sugar)}
           I == IF both THEN {Least(sugar)} ELSE second
<1>1. sugar \in SUBSET Nat
  BY ListHas DEF Sugar
<1>2. I \in SUBSET Nat
  <2>1. both => Least(sugar) \in sugar
    <3> HIDE DEF sugar
    <3> QED
      BY <1>1, LeastIs
  <2> QED
    BY <1>1, <2>1
<1>3. \A at : PlacementReports(block, at) = {Note("PlacementConflict", Append(at, i)) : i \in I}
  BY DEF PlacementReports
<1> HIDE DEF I
<1>4. Shifts({Note("PlacementConflict", Append(a, i)) : i \in I}, {Note("PlacementConflict", Append(b, i)) : i \in I}, a, b)
  BY <1>2, StepShifts
<1> QED
  BY <1>3, <1>4

LEMMA UnknownShift ==
  ASSUME NEW block, IsList(block.body), NEW c, NEW a \in Seq(Nat), NEW b \in Seq(Nat)
  PROVE  Shifts(UnknownProperties(block, c, a), UnknownProperties(block, c, b), a, b)
<1> DEFINE I == {i \in DOMAIN block.body : /\ block.body[i].key \notin Structural \cup Relations
                                           /\ ResolveProperty(block.body[i].key, LocalPropDefs(block), c) = Nothing}
<1>1. I \in SUBSET Nat
  BY ListHas
<1>2. \A at : UnknownProperties(block, c, at) = {Note("PropUnknown", Append(at, i)) : i \in I}
  BY DEF UnknownProperties
<1> HIDE DEF I
<1>3. Shifts({Note("PropUnknown", Append(a, i)) : i \in I}, {Note("PropUnknown", Append(b, i)) : i \in I}, a, b)
  BY <1>1, StepShifts
<1> QED
  BY <1>2, <1>3

-----------------------------------------------------------------------------
(* Tasks that are alike but for their place *)

Alike(t, u) ==
  /\ t.do \in {"annotations", "block", "close", "value", "instance", "placement", "properties"} /\ u.do = t.do
  /\ t.do = "annotations" => t.statement.value = u.statement.value /\ t.top = u.top
  /\ t.do \in {"block", "close"} => t.block = u.block /\ t.form = u.form
  /\ t.do = "value" => t.value = u.value /\ t.type = u.type
  /\ t.do = "instance" => t.block = u.block /\ t.class = u.class
  /\ t.do \in {"placement", "properties"} =>
        /\ t.statement.value = u.statement.value
        /\ ReadObjectClass(t.statement) = ReadObjectClass(u.statement)

LEMMA ValuesShift ==
  ASSUME IsFile(file), NEW t, NEW u, Alike(t, u), t.do = "value", Fitting(t), t.at \in Seq(Nat), u.at \in Seq(Nat)
  PROVE  Shifts(ValueFound(t), ValueFound(u), t.at, u.at)
<1> DEFINE v == t.value
           type == SlotType(t)
<1>1. u.value = v /\ SlotType(u) = type /\ v \in Written
  BY DEF Alike, SlotType, Fitting
<1>2. CASE Unjudged(v, type)
  BY <1>2, NothingShifts DEF ValueFound
<1>3. CASE ~Unjudged(v, type) /\ type.name \notin BlockTypes
  <2>1. ValueFound(t) = PlainReports(v, type, t.at) /\ ValueFound(u) = PlainReports(v, type, u.at)
    BY <1>1, <1>3 DEF ValueFound
  <2>2. Shifts(PlainReports(v, type, t.at), PlainReports(v, type, u.at), t.at, u.at)
    BY ScalarShifts, MismatchShifts, NothingShifts DEF PlainReports
  <2> QED
    BY <2>1, <2>2
<1>4. CASE ~Unjudged(v, type) /\ type.name \in BlockTypes /\ ~Filled(v)
  <2>1. /\ ValueFound(t) = IF IsBlock(v) THEN {} ELSE Mismatch(t.at)
        /\ ValueFound(u) = IF IsBlock(v) THEN {} ELSE Mismatch(u.at)
    BY <1>1, <1>4 DEF ValueFound
  <2> QED
    BY <2>1, MismatchShifts, NothingShifts
<1>5. CASE ~Unjudged(v, type) /\ type.name \in BlockTypes /\ Filled(v)
  <2>1. IsList(v.body) /\ IsList(v.values)
    BY <1>1, <1>5, InBlock DEF Filled, IsBlock
  <2>2. CASE type.name \in Collections
    <3>1. ValueFound(t) = CollectionReports(v, type, t.at) /\ ValueFound(u) = CollectionReports(v, type, u.at)
      BY <1>1, <1>5, <2>2 DEF ValueFound
    <3> QED
      BY <2>1, <3>1, CollectionShifts
  <2>3. CASE type.name \notin Collections
    <3>1. ValueFound(t) = RecordReports(v, type, t.at) /\ ValueFound(u) = RecordReports(v, type, u.at)
      BY <1>1, <1>5, <2>3 DEF ValueFound
    <3> QED
      BY <2>1, <3>1, RecordShifts
  <2> QED
    BY <2>2, <2>3
<1> QED
  BY <1>2, <1>3, <1>4, <1>5

\* Alike tasks find alike.
LEMMA FoundAlike ==
  ASSUME Parsed, NEW t, NEW u, Alike(t, u), Fitting(t), t.at \in Seq(Nat), u.at \in Seq(Nat)
  PROVE  Shifts(Found(t), Found(u), t.at, u.at)
<1>0. IsFile(file)
  BY DEF Parsed
<1>1. CASE t.do = "annotations"
  <2> DEFINE v == t.statement.value
  <2>1. /\ Found(t) = IF v = Nothing THEN {} ELSE CheckValueAnnotations(v, t.top, t.at)
        /\ Found(u) = IF v = Nothing THEN {} ELSE CheckValueAnnotations(v, t.top, u.at)
    BY <1>1 DEF Found, Alike, VisitReports
  <2>2. CASE v = Nothing
    BY <2>1, <2>2, NothingShifts
  <2>3. CASE v # Nothing
    <3>1. v \in Written
      BY <1>1, <2>3 DEF Fitting
    <3>2. IsList(v.notes) /\ \A i \in DOMAIN v.notes : IsList(v.notes[i].args)
      BY <3>1, <1>0, WrittenAre DEF IsValue
    <3>3. Shifts(CheckValueAnnotations(v, t.top, t.at), CheckValueAnnotations(v, t.top, u.at), t.at, u.at)
      BY <3>2, AnnotationsShift
    <3> QED
      BY <2>1, <2>3, <3>3
  <2> QED
    BY <2>2, <2>3
<1>2. CASE t.do = "block"
  <2>1. IsList(t.block.body)
    BY <1>0, <1>2, InBlock DEF Fitting
  <2>2. Found(t) = BlockReports(t.block, forms[t.form], t.at) /\ Found(u) = BlockReports(t.block, forms[t.form], u.at)
    BY <1>2 DEF Found, Alike
  <2> QED
    BY <2>1, <2>2, BlockShifts
<1>3. CASE t.do = "close"
  <2>1. IsList(t.block.body) /\ IsList(forms[t.form].keys)
    BY <1>0, <1>3, InBlock DEF Fitting, Parsed, IsRegistry
  <2>2. Found(t) = CloseReports(t.block, forms[t.form], t.at) /\ Found(u) = CloseReports(t.block, forms[t.form], u.at)
    BY <1>3 DEF Found, Alike
  <2> QED
    BY <2>1, <2>2, CloseShifts
<1>4. CASE t.do = "value"
  BY <1>0, <1>4, ValuesShift DEF Found, Alike
<1>5. CASE t.do = "instance"
  <2> DEFINE own == LocalPropDefs(t.block)
  <2>1. t.block \in Written /\ t.block.is = "block"
    BY <1>5 DEF Fitting
  <2>2. /\ Found(t) = PropDefReports(t.block, t.at) \cup CheckLocalPropDefs(own, t.class, t.at)
        /\ Found(u) = PropDefReports(t.block, u.at) \cup CheckLocalPropDefs(own, t.class, u.at)
    BY <1>5 DEF Found, Alike, InstanceReports
  <2>3. Shifts(PropDefReports(t.block, t.at), PropDefReports(t.block, u.at), t.at, u.at)
    BY <1>0, <2>1, PropDefsShift
  <2>4. Shifts(CheckLocalPropDefs(own, t.class, t.at), CheckLocalPropDefs(own, t.class, u.at), t.at, u.at)
    BY <1>0, <2>1, RedeclaredShift
  <2> QED
    BY <2>2, <2>3, <2>4, ShiftsTogether
<1>6. CASE t.do \in {"placement", "properties"}
  <2>1. u.do = t.do /\ u.statement.value = t.statement.value /\ ReadObjectClass(u.statement) = ReadObjectClass(t.statement)
    BY <1>6 DEF Alike
  <2>2. Instantiated(u.statement) <=> Instantiated(t.statement)
    BY <2>1 DEF Instantiated
  <2>3. CASE ~Instantiated(t.statement)
    <3>1. Found(t) = {}
      BY <1>6, <2>3 DEF Found
    <3> QED
      BY <3>1, NothingShifts
  <2>4. CASE Instantiated(t.statement)
    <3> DEFINE v == t.statement.value
               c == ReadObjectClass(t.statement)
    <3>1. v \in Written /\ v.is = "block"
      BY <1>6, <2>4 DEF Fitting, Instantiated, IsBlock
    <3>2. IsList(v.body)
      BY <1>0, <3>1, InBlock
    <3>3. CASE t.do = "placement"
      <4>1. Found(t) = PlacementReports(v, t.at) /\ Found(u) = PlacementReports(v, u.at)
        BY <2>1, <2>2, <2>4, <3>3 DEF Found
      <4> QED
        BY <3>2, <4>1, PlacementShifts
    <3>4. CASE t.do = "properties"
      <4>1. Found(t) = UnknownProperties(v, c, t.at) /\ Found(u) = UnknownProperties(v, c, u.at)
        BY <2>1, <2>2, <2>4, <3>4 DEF Found
      <4> QED
        BY <3>2, <4>1, UnknownShift
    <3> QED
      BY <1>6, <3>3, <3>4
  <2> QED
    BY <2>3, <2>4
<1> QED
  BY <1>1, <1>2, <1>3, <1>4, <1>5, <1>6 DEF Alike

\* Whatever is called at `a` is called alike at `b`.
Follow(C, D, a, b) ==
  \A c \in Elements(C) : \E s \in Seq(Nat) : \E d \in Elements(D) : c.at = a \o s /\ d.at = b \o s /\ Alike(c, d)

LEMMA NothingFollows == \A D, a, b : Follow(<<>>, D, a, b)
BY NoList DEF Follow

LEMMA OneFollows ==
  ASSUME NEW a \in Seq(Nat), NEW b \in Seq(Nat), NEW c, NEW d, c.at = a, d.at = b, Alike(c, d)
  PROVE  Follow(<<c>>, <<d>>, a, b)
<1>1. Elements(<<c>>) = {c} /\ d \in Elements(<<d>>)
  BY LoneList
<1>2. <<>> \in Seq(Nat) /\ c.at = a \o <<>> /\ d.at = b \o <<>>
  BY NoStep
<1> QED
  BY <1>1, <1>2 DEF Follow

LEMMA FollowTogether ==
  ASSUME NEW C1, NEW C2, NEW D1, NEW D2, IsList(C1), IsList(C2), IsList(D1), IsList(D2), NEW a, NEW b,
         Follow(C1, D1, a, b), Follow(C2, D2, a, b)
  PROVE  Follow(C1 \o C2, D1 \o D2, a, b)
<1>1. Elements(C1 \o C2) = Elements(C1) \cup Elements(C2) /\ Elements(D1 \o D2) = Elements(D1) \cup Elements(D2)
  BY ElementsOfJoin
<1> QED
  BY <1>1 DEF Follow

LEMMA VisitFollows ==
  ASSUME IsFile(file), NEW t, NEW u, Alike(t, u), t.do = "annotations", Fitting(t), t.at \in Seq(Nat), u.at \in Seq(Nat)
  PROVE  Follow(VisitCalls(t), VisitCalls(u), t.at, u.at)
<1> DEFINE v == t.statement.value
           call(at, i) == [do |-> "annotations", at |-> Append(at, i), statement |-> v.body[i], top |-> FALSE]
<1>0. u.statement.value = v
  BY DEF Alike
<1>1. CASE ~IsBlock(v)
  BY <1>1, NothingFollows DEF VisitCalls
<1>2. CASE IsBlock(v)
  <2>1. IsList(v.body)
    BY <1>2, InBlock DEF IsBlock, Fitting
  <2>2. VisitCalls(t) = [i \in DOMAIN v.body |-> call(t.at, i)] /\ VisitCalls(u) = [i \in DOMAIN v.body |-> call(u.at, i)]
    BY <1>0, <1>2 DEF VisitCalls
  <2> SUFFICES ASSUME NEW c \in Elements(VisitCalls(t))
               PROVE  \E s \in Seq(Nat) : \E d \in Elements(VisitCalls(u)) : c.at = t.at \o s /\ d.at = u.at \o s /\ Alike(c, d)
    BY DEF Follow
  <2>3. PICK i \in DOMAIN v.body : c = call(t.at, i)
    BY <2>2 DEF Elements
  <2>4. PICK d : d = call(u.at, i)
    OBVIOUS
  <2>5. d \in Elements(VisitCalls(u))
    BY <2>2, <2>3, <2>4 DEF Elements
  <2>6. i \in Nat
    BY <2>1, <2>3, ListHas
  <2>7. <<i>> \in Seq(Nat) /\ Append(t.at, i) = t.at \o <<i>> /\ Append(u.at, i) = u.at \o <<i>>
    BY <2>6, OneStep
  <2>8. Alike(c, d)
    BY <2>3, <2>4 DEF Alike
  <2>9. c.at = t.at \o <<i>> /\ d.at = u.at \o <<i>>
    BY <2>3, <2>4, <2>7
  <2> QED
    BY <2>5, <2>7, <2>8, <2>9
<1> QED
  BY <1>1, <1>2

LEMMA ValuesFollow ==
  ASSUME IsFile(file), NEW v \in Written, v.is = "block",
         NEW types, DOMAIN types \subseteq {i \in DOMAIN v.body : v.body[i].value # Nothing},
         NEW a \in Seq(Nat), NEW b \in Seq(Nat)
  PROVE  Follow(ValueTasks(v, types, a), ValueTasks(v, types, b), a, b)
<1>1. IsList(v.body)
  BY InBlock
<1>2. \A at : Elements(ValueTasks(v, types, at)) = {ValueTask(v.body[k].value, types[k], Append(at, k)) : k \in DOMAIN types}
  BY <1>1, ValueTasksAre
<1> SUFFICES ASSUME NEW c \in Elements(ValueTasks(v, types, a))
             PROVE  \E s \in Seq(Nat) : \E d \in Elements(ValueTasks(v, types, b)) :
                       c.at = a \o s /\ d.at = b \o s /\ Alike(c, d)
  BY DEF Follow
<1>3. PICK k \in DOMAIN types : c = ValueTask(v.body[k].value, types[k], Append(a, k))
  BY <1>2
<1>4. PICK d : d = ValueTask(v.body[k].value, types[k], Append(b, k))
  OBVIOUS
<1>5. d \in Elements(ValueTasks(v, types, b))
  BY <1>2, <1>4
<1>6. k \in Nat
  BY <1>1, ListHas
<1>7. <<k>> \in Seq(Nat) /\ Append(a, k) = a \o <<k>> /\ Append(b, k) = b \o <<k>>
  BY <1>6, OneStep
<1>8. c.at = a \o <<k>> /\ d.at = b \o <<k>> /\ Alike(c, d)
  BY <1>3, <1>4, <1>7 DEF ValueTask, Alike
<1> QED
  BY <1>3, <1>5, <1>7, <1>8

LEMMA BlockFollows ==
  ASSUME Parsed, NEW t, NEW u, Alike(t, u), t.do = "block", Fitting(t), t.at \in Seq(Nat), u.at \in Seq(Nat)
  PROVE  Follow(BlockCalls(t), BlockCalls(u), t.at, u.at)
<1> DEFINE types == [i \in TypedIn(t.block, forms[t.form]) |-> Expected(t.block, FindKey(forms[t.form], t.block.body[i].key))]
           values(at) == ValueTasks(t.block, types, at)
           close(at) == [do |-> "close", at |-> at, block |-> t.block, form |-> t.form]
<1>0. IsFile(file) /\ t.block \in Written /\ t.block.is = "block" /\ u.block = t.block /\ u.form = t.form
  BY DEF Parsed, Alike, Fitting
<1>1. DOMAIN types \subseteq {i \in DOMAIN t.block.body : t.block.body[i].value # Nothing}
  BY DEF TypedIn
<1>2. BlockCalls(t) = Append(values(t.at), close(t.at)) /\ BlockCalls(u) = Append(values(u.at), close(u.at))
  BY <1>0 DEF BlockCalls
<1>3. Alike(close(t.at), close(u.at)) /\ close(t.at).at = t.at /\ close(u.at).at = u.at
  BY DEF Alike
<1> HIDE DEF types, close
<1>4. \A at : IsList(values(at))
  BY <1>0, <1>1, CallsOfValues
<1>5. Follow(values(t.at), values(u.at), t.at, u.at)
  BY <1>0, <1>1, ValuesFollow
<1> HIDE DEF values
<1>6. IsList(<<close(t.at)>>) /\ IsList(<<close(u.at)>>)
  BY LoneList
<1>7. BlockCalls(t) = values(t.at) \o <<close(t.at)>> /\ BlockCalls(u) = values(u.at) \o <<close(u.at)>>
  BY <1>2, <1>4, AppendIsJoin
<1>8. Follow(<<close(t.at)>>, <<close(u.at)>>, t.at, u.at)
  BY <1>3, OneFollows
<1>9. Follow(values(t.at) \o <<close(t.at)>>, values(u.at) \o <<close(u.at)>>, t.at, u.at)
  BY <1>4, <1>5, <1>6, <1>8, FollowTogether
<1> QED
  BY <1>7, <1>9

LEMMA RecordFollows ==
  ASSUME IsFile(file), NEW v \in Written, v.is = "block", NEW type, NEW a \in Seq(Nat), NEW b \in Seq(Nat)
  PROVE  Follow(RecordCalls(v, type, a), RecordCalls(v, type, b), a, b)
<1>1. CASE IsRecord(v) /\ IsMap(type)
  <2> DEFINE types == [i \in {i \in DOMAIN v.body : v.body[i].value # Nothing} |-> type.args[2]]
  <2>1. DOMAIN types = {i \in DOMAIN v.body : v.body[i].value # Nothing}
    OBVIOUS
  <2>2. \A at : RecordCalls(v, type, at) = ValueTasks(v, types, at)
    BY <1>1 DEF RecordCalls
  <2> HIDE DEF types
  <2>3. Follow(ValueTasks(v, types, a), ValueTasks(v, types, b), a, b)
    BY <2>1, ValuesFollow
  <2> QED
    BY <2>2, <2>3
<1>2. CASE IsRecord(v) /\ ~IsMap(type) /\ OfForm(type) /\ type.args[1].name \in DOMAIN forms
  <2> DEFINE c(at) == [do |-> "block", at |-> at, block |-> v, form |-> type.args[1].name]
  <2>1. RecordCalls(v, type, a) = <<c(a)>> /\ RecordCalls(v, type, b) = <<c(b)>>
    BY <1>2 DEF RecordCalls
  <2>2. Alike(c(a), c(b)) /\ c(a).at = a /\ c(b).at = b
    BY DEF Alike
  <2> HIDE DEF c
  <2>3. Follow(<<c(a)>>, <<c(b)>>, a, b)
    BY <2>2, OneFollows
  <2> QED
    BY <2>1, <2>3
<1>3. CASE ~IsRecord(v) \/ (~IsMap(type) /\ ~(OfForm(type) /\ type.args[1].name \in DOMAIN forms))
  <2>1. RecordCalls(v, type, a) = <<>>
    BY <1>3 DEF RecordCalls
  <2> QED
    BY <2>1, NothingFollows
<1> QED
  BY <1>1, <1>2, <1>3

LEMMA InstanceFollows ==
  ASSUME IsFile(file), NEW v \in Written, v.is = "block", NEW c, NEW a \in Seq(Nat), NEW b \in Seq(Nat)
  PROVE  Follow(InstanceCalls(v, c, a), InstanceCalls(v, c, b), a, b)
<1> DEFINE type(i) == ResolveProperty(v.body[i].key, LocalPropDefs(v), c)
           types == [i \in {i \in DOMAIN v.body : v.body[i].value # Nothing /\ type(i) # Nothing} |-> type(i)]
<1>1. DOMAIN types \subseteq {i \in DOMAIN v.body : v.body[i].value # Nothing}
  OBVIOUS
<1>2. \A at : InstanceCalls(v, c, at) = ValueTasks(v, types, at)
  BY DEF InstanceCalls
<1> HIDE DEF types
<1>3. Follow(ValueTasks(v, types, a), ValueTasks(v, types, b), a, b)
  BY <1>1, ValuesFollow
<1> QED
  BY <1>2, <1>3

\* Alike tasks call alike.
LEMMA CallsAlike ==
  ASSUME Parsed, NEW t, NEW u, Alike(t, u), Fitting(t), t.at \in Seq(Nat), u.at \in Seq(Nat)
  PROVE  Follow(Calls(t), Calls(u), t.at, u.at)
<1>0. IsFile(file)
  BY DEF Parsed
<1>1. CASE t.do = "annotations"
  BY <1>0, <1>1, VisitFollows DEF Calls, Alike
<1>2. CASE t.do = "block"
  BY <1>2, BlockFollows DEF Calls, Alike
<1>3. CASE t.do = "value"
  <2>1. u.do = "value" /\ u.value = t.value /\ SlotType(u) = SlotType(t) /\ (Records(u) <=> Records(t))
    BY <1>3 DEF Alike, SlotType, Records, Judging
  <2>2. CASE ~Records(t)
    BY <1>3, <2>2, NothingFollows DEF Calls
  <2>3. CASE Records(t)
    <3>1. t.value \in Written /\ t.value.is = "block"
      BY <1>3, <2>3 DEF Records, Filled, IsBlock, Fitting
    <3>2. Calls(t) = RecordCalls(t.value, SlotType(t), t.at) /\ Calls(u) = RecordCalls(t.value, SlotType(t), u.at)
      BY <1>3, <2>1, <2>3 DEF Calls
    <3> QED
      BY <1>0, <3>1, <3>2, RecordFollows
  <2> QED
    BY <2>2, <2>3
<1>4. CASE t.do = "instance"
  <2>1. t.block \in Written /\ t.block.is = "block" /\ u.block = t.block /\ u.class = t.class /\ u.do = "instance"
    BY <1>4 DEF Fitting, Alike
  <2>2. Calls(t) = InstanceCalls(t.block, t.class, t.at) /\ Calls(u) = InstanceCalls(t.block, t.class, u.at)
    BY <1>4, <2>1 DEF Calls
  <2> QED
    BY <1>0, <2>1, <2>2, InstanceFollows
<1>5. CASE t.do \in {"close", "placement", "properties"}
  BY <1>5, NothingFollows DEF Calls
<1> QED
  BY <1>1, <1>2, <1>3, <1>4, <1>5 DEF Alike

-----------------------------------------------------------------------------
(* Places of what is due *)

\* What is due is at a place in a statement of the file, or it is a check of
\* types, at the place that stands for the registry.
Rooted(t) == \E m \in Nat, p \in Seq(Nat) : t.at = <<m>> \o p
Placed(t) ==
  \/ t \in IndexTasks
  \/ /\ Rooted(t)
     /\ t.do \in {"types", "type"} => t.at = Registry
     /\ t.do \in {"annotations", "top", "block", "close", "value", "instance", "types", "type", "placement", "properties"}

LEMMA RootOfPlace ==
  ASSUME NEW m \in Nat, NEW p \in Seq(Nat)
  PROVE  /\ <<m>> \o p \in Seq(Nat) /\ (<<m>> \o p)[1] = m
         /\ \A n \in Nat, q \in Seq(Nat) : <<m>> \o p = <<n>> \o q => m = n /\ p = q
<1>0. \A n \in Nat, q \in Seq(Nat) :
        /\ <<n>> \o q \in Seq(Nat) /\ Len(<<n>> \o q) = Len(q) + 1 /\ (<<n>> \o q)[1] = n
        /\ \A k \in 1..Len(q) : (<<n>> \o q)[k + 1] = q[k]
  <2> TAKE n \in Nat, q \in Seq(Nat)
  <2>1. <<n>> \in Seq(Nat) /\ Len(<<n>>) = 1
    OBVIOUS
  <2>2. \A k \in 1..Len(q) : k + 1 > 1 /\ (k + 1) - 1 = k /\ k + 1 \in 1..(1 + Len(q))
    OBVIOUS
  <2> QED
    BY <2>1, <2>2
<1>1. ASSUME NEW n \in Nat, NEW q \in Seq(Nat), <<m>> \o p = <<n>> \o q
      PROVE  m = n /\ p = q
  <2>1. m = n /\ Len(p) = Len(q)
    <3>1. Len(p) \in Nat /\ Len(q) \in Nat
      OBVIOUS
    <3> QED
      BY <1>0, <1>1, <3>1
  <2>2. \A k \in 1..Len(p) : p[k] = q[k]
    BY <1>0, <1>1, <2>1
  <2> QED
    BY <2>1, <2>2
<1> QED
  BY <1>0, <1>1

\* A place in the statement at i.
StandsAt(place, i, p) == place = <<i>> \o p

LEMMA StepBelowRoot ==
  ASSUME NEW m \in Nat, NEW p \in Seq(Nat), NEW s \in Seq(Nat), NEW n \in Nat, NEW q \in Seq(Nat), NEW a, NEW c,
         StandsAt(a, m, p), c = a \o s, StandsAt(c, n, q)
  PROVE  n = m /\ q = p \o s
<1>1. <<m>> \in Seq(Nat)
  OBVIOUS
<1>2. (<<m>> \o p) \o s = <<m>> \o (p \o s) /\ p \o s \in Seq(Nat)
  BY <1>1, StepsCompose
<1>3. PICK u \in Seq(Nat) : u = p \o s
  BY <1>2
<1>4. \A x \in Nat, y \in Seq(Nat) : <<m>> \o u = <<x>> \o y => m = x /\ u = y
  BY RootOfPlace, Zenon
<1>5. <<m>> \o u = <<n>> \o q
  BY <1>2, <1>3 DEF StandsAt
<1> QED
  BY <1>3, <1>4, <1>5, Zenon

LEMMA StatementPlace ==
  ASSUME NEW i \in Nat
  PROVE  <<i>> = <<i>> \o <<>> /\ <<>> \in Seq(Nat) /\ <<i>> \in Seq(Nat)
<1>1. <<i>> \in Seq(Nat)
  OBVIOUS
<1> QED
  BY <1>1, NoStep

\* Calls stay below the place of what calls them, and so does what is found.
LEMMA CallsBelow ==
  ASSUME Parsed, NEW t, Fitting(t), Placed(t), t \notin IndexTasks, NEW c \in Elements(Calls(t))
  PROVE  \E s \in Seq(Nat) : c.at = t.at \o s
<1>0. t.at \in Seq(Nat)
  BY RootOfPlace DEF Placed, Rooted
<1>1. <<>> \in Seq(Nat) /\ t.at = t.at \o <<>>
  BY <1>0, NoStep
<1>2. CASE t.do = "top"
  <2> DEFINE s == t.statement
             b == [do |-> "block", at |-> t.at, block |-> s.value, form |-> s.key]
             more == IF s.key = "object" THEN Instance(s, t.at) ELSE <<>>
  <2>1. \A x \in Elements(Instance(s, t.at)) : x.at = t.at
    BY LoneList, NoList DEF Instance
  <2>2. IsList(Instance(s, t.at))
    BY LoneList, NoList DEF Instance
  <2>3. CASE s.key \notin DOMAIN forms
    BY <1>1, <1>2, <2>1, <2>3 DEF Calls, TopCalls
  <2>4. CASE s.key \in DOMAIN forms /\ (~forms[s.key].top_level \/ ~IsBlock(s.value))
    BY <1>2, <2>4, NoList DEF Calls, TopCalls
  <2>5. CASE s.key \in DOMAIN forms /\ forms[s.key].top_level /\ IsBlock(s.value)
    <3>1. Calls(t) = <<b>> \o more
      BY <1>2, <2>5 DEF Calls, TopCalls
    <3>2. IsList(more) /\ \A x \in Elements(more) : x.at = t.at
      BY <2>1, <2>2, NoList
    <3>3. IsList(<<b>>) /\ Elements(<<b>>) = {b} /\ b.at = t.at
      BY LoneList
    <3> HIDE DEF b, more
    <3>4. Elements(<<b>> \o more) = Elements(<<b>>) \cup Elements(more)
      BY <3>2, <3>3, ElementsOfJoin
    <3> QED
      BY <1>1, <3>1, <3>2, <3>3, <3>4
  <2> QED
    BY <2>3, <2>4, <2>5
<1>3. CASE t.do \in {"types", "type"}
  <2>1. t.at = Registry
    BY <1>3 DEF Placed
  <2>2. \A types : \A x \in Elements(TypeTask(types)) : x.at = Registry
    BY LoneList, NoList DEF TypeTask
  <2> QED
    BY <1>1, <1>3, <2>1, <2>2 DEF Calls
<1>4. CASE t.do \notin {"top", "types", "type"}
  <2>1. Alike(t, t)
    BY <1>4 DEF Placed, Alike
  <2>2. Follow(Calls(t), Calls(t), t.at, t.at)
    BY <1>0, <2>1, CallsAlike
  <2> QED
    BY <2>2 DEF Follow
<1> QED
  BY <1>2, <1>3, <1>4

LEMMA FoundBelow ==
  ASSUME Parsed, NEW t, Fitting(t), Placed(t), t \notin IndexTasks, NEW r \in Found(t)
  PROVE  \E s \in Seq(Nat) : r.at = t.at \o s
<1>0. t.at \in Seq(Nat)
  BY RootOfPlace DEF Placed, Rooted
<1>1. <<>> \in Seq(Nat) /\ t.at = t.at \o <<>>
  BY <1>0, NoStep
<1>2. CASE t.do = "top"
  <2>1. r.at = t.at
    BY <1>2 DEF Found, TopReports, Note
  <2> QED
    BY <1>1, <2>1
<1>3. CASE t.do \in {"types", "type"}
  <2>1. r.at = Registry /\ t.at = Registry
    BY <1>3 DEF Found, TypesReports, Note, Placed
  <2> QED
    BY <1>1, <2>1
<1>4. CASE t.do \notin {"top", "types", "type"}
  <2>1. Alike(t, t)
    BY <1>4 DEF Placed, Alike
  <2>2. Shifts(Found(t), Found(t), t.at, t.at)
    BY <1>0, <2>1, FoundAlike
  <2> QED
    BY <2>2 DEF Shifts, Moves
<1> QED
  BY <1>2, <1>3, <1>4

LEMMA CallsArePlaced ==
  ASSUME Parsed, NEW t, Fitting(t), Placed(t), NEW c \in Elements(Calls(t))
  PROVE  Placed(c) /\ t \notin IndexTasks
<1>1. t \notin IndexTasks
  <2> SUFFICES ASSUME t \in IndexTasks  PROVE FALSE
    OBVIOUS
  <2>1. t.do \in {"add_uses", "globals", "add_texts", "texts"}
    BY DEF IndexTasks, Elements, EveryFile
  <2>2. Calls(t) = <<>>
    BY <2>1 DEF Calls
  <2> QED
    BY <2>2, NoList
<1>2. PICK s \in Seq(Nat) : c.at = t.at \o s
  BY <1>1, CallsBelow
<1>3. PICK m \in Nat, p \in Seq(Nat) : t.at = <<m>> \o p
  BY <1>1 DEF Placed, Rooted
<1>4. Rooted(c)
  <2>1. <<m>> \in Seq(Nat)
    OBVIOUS
  <2>2. c.at = <<m>> \o (p \o s) /\ p \o s \in Seq(Nat)
    BY <2>1, <1>2, <1>3, StepsCompose
  <2> QED
    BY <2>2 DEF Rooted
<1>5. CASE t.do = "top"
  <2> DEFINE s1 == t.statement
             b == [do |-> "block", at |-> t.at, block |-> s1.value, form |-> s1.key]
             more == IF s1.key = "object" THEN Instance(s1, t.at) ELSE <<>>
  <2>1. \A x \in Elements(Instance(s1, t.at)) : x.do = "instance"
    BY LoneList, NoList DEF Instance
  <2>2. IsList(more) /\ \A x \in Elements(more) : x.do = "instance"
    BY <2>1, LoneList, NoList DEF Instance
  <2>3. IsList(<<b>>) /\ Elements(<<b>>) = {b} /\ b.do = "block"
    BY LoneList
  <2>4. Calls(t) = Instance(s1, t.at) \/ Calls(t) = <<>> \/ Calls(t) = <<b>> \o more
    BY <1>5 DEF Calls, TopCalls
  <2> HIDE DEF b, more
  <2>5. Elements(<<b>> \o more) = Elements(<<b>>) \cup Elements(more)
    BY <2>2, <2>3, ElementsOfJoin
  <2>6. c.do \in {"block", "instance"}
    BY <2>1, <2>2, <2>3, <2>4, <2>5, NoList
  <2> QED
    BY <2>6, <1>1, <1>4 DEF Placed
<1>6. CASE t.do \in {"types", "type"}
  <2>1. \A types : \A x \in Elements(TypeTask(types)) : x.at = Registry /\ x.do = "type"
    BY LoneList, NoList DEF TypeTask
  <2>2. c.at = Registry /\ c.do = "type"
    BY <1>6, <2>1 DEF Calls
  <2> QED
    BY <2>2, <1>1, <1>4 DEF Placed
<1>7. CASE t.do \notin {"top", "types", "type"}
  <2>0. t.at \in Seq(Nat)
    <3>1. PICK n \in Nat, r \in Seq(Nat) : t.at = <<n>> \o r
      BY <1>1 DEF Placed, Rooted
    <3>2. <<n>> \o r \in Seq(Nat)
      BY RootOfPlace
    <3> QED
      BY <3>1, <3>2
  <2>1. Alike(t, t)
    BY <1>1, <1>7 DEF Placed, Alike
  <2>2. Follow(Calls(t), Calls(t), t.at, t.at)
    BY <2>0, <2>1, CallsAlike
  <2>3. \E d : Alike(c, d)
    BY <2>2 DEF Follow
  <2>4. c.do \in {"annotations", "block", "close", "value", "instance", "placement", "properties"}
    BY <2>3 DEF Alike
  <2> QED
    BY <2>4, <1>1, <1>4 DEF Placed
<1> QED
  BY <1>1, <1>5, <1>6, <1>7

LEMMA AgendaIsPlaced ==
  ASSUME Parsed
  PROVE  \A t \in Elements(Agenda) : Placed(t)
<1>1. ASSUME NEW pass \in {"annotations", "top", "placement", "properties"}, NEW t \in Elements(ForEach(pass))
      PROVE  Placed(t)
  <2>1. PICK i \in DOMAIN file : t = [do |-> pass, at |-> <<i>>, statement |-> file[i], top |-> TRUE]
    BY DEF Elements, ForEach
  <2>2. i \in Nat
    BY <2>1, ListHas DEF Parsed, IsFile
  <2>3. t.at = <<i>> /\ t.do = pass
    BY <2>1
  <2>4. Rooted(t)
    BY <2>2, <2>3, StatementPlace DEF Rooted
  <2> QED
    BY <2>3, <2>4, <1>1 DEF Placed
<1>2. Placed(TypesTask)
  <2>1. TypesTask.at = <<0>> /\ <<0>> = Registry /\ TypesTask.do = "types" /\ 0 \in Nat
    BY DEF TypesTask, Registry
  <2>2. Rooted(TypesTask)
    BY <2>1, StatementPlace DEF Rooted
  <2> QED
    BY <2>1, <2>2 DEF Placed
<1>3. \A t \in IndexTasks : Placed(t)
  BY DEF Placed
<1> QED
  BY <1>1, <1>2, <1>3, AgendaIs

LEMMA LinkIsDue ==
  ASSUME NEW n \in Nat \ {0}, NEW d, Chained(d, n), NEW k \in 1..n
  PROVE  Due(d[k])
<1>1. Chained(d, k)
  BY DEF Chained
<1> QED
  BY <1>1 DEF Due

LEMMA DueIsPlaced ==
  ASSUME Parsed, NEW t, Due(t)
  PROVE  Placed(t)
<1>0. PICK n \in Nat \ {0} : \E d : Chained(d, n) /\ d[n] = t
  BY DEF Due
<1>1. PICK d : Chained(d, n) /\ d[n] = t
  BY <1>0
<1> DEFINE S == {k \in 1..n : Placed(d[k])}
<1>2. 1 \in S
  BY <1>1, AgendaIsPlaced DEF Chained
<1>3. ASSUME NEW k \in 1..(n - 1), k \in S  PROVE k + 1 \in S
  <2>1. k \in 1..n /\ k + 1 \in 1..n
    OBVIOUS
  <2>2. Fitting(d[k])
    BY <1>1, <2>1, LinkIsDue, DueFits
  <2>3. d[k + 1] \in Elements(Calls(d[k])) /\ Placed(d[k])
    BY <1>1, <1>3 DEF Chained
  <2> QED
    BY <2>1, <2>2, <2>3, CallsArePlaced
<1>4. n \in S
  <2> HIDE DEF S
  <2> QED
    BY <1>2, <1>3, AlongAChain
<1> QED
  BY <1>1, <1>4

-----------------------------------------------------------------------------
(* Two spellings of an object *)

Spelled(i, j) ==
  /\ i \in DOMAIN file /\ j \in DOMAIN file
  /\ file[i].key \in Declared \ DOMAIN forms /\ file[j].key = "object"
  /\ file[i].value = file[j].value /\ IsBlock(file[i].value)
  /\ ReadObjectClass(file[j]) = file[i].key

TopOf(k) == [do |-> "top", at |-> <<k>>, statement |-> file[k], top |-> TRUE]
InstanceOf(k, c) == [do |-> "instance", at |-> <<k>>, block |-> file[k].value, class |-> c]
BlockOf(k) == [do |-> "block", at |-> <<k>>, block |-> file[k].value, form |-> file[k].key]

\* A task at the same place of another statement that is due and alike.
Twin(t, k, p) == \E u : Due(u) /\ Alike(t, u) /\ u.at = <<k>> \o p

LEMMA SpelledIs ==
  ASSUME Parsed, NEW i, NEW j, Spelled(i, j)
  PROVE  /\ i \in Nat \ {0} /\ j \in Nat \ {0}
         /\ file[i].key # Nothing /\ ReadObjectClass(file[i]) = file[i].key
         /\ Instantiated(file[i]) /\ Instantiated(file[j])
<1>1. DOMAIN file = 1..Len(file) /\ Len(file) \in Nat
  BY ListHas DEF Parsed, IsFile
<1>2. file[i].key # Nothing
  BY NothingAssumption DEF Spelled, Declared
<1>3. ReadObjectClass(file[i]) = file[i].key
  <2>1. CASE file[i].key = "object"
    BY <2>1 DEF Spelled, ReadObjectClass
  <2>2. CASE file[i].key # "object"
    BY <2>2 DEF Spelled, ReadObjectClass
  <2> QED
    BY <2>1, <2>2
<1> QED
  BY <1>1, <1>2, <1>3 DEF Spelled, Instantiated

LEMMA SpelledTops ==
  ASSUME Parsed, NEW i, NEW j, Spelled(i, j)
  PROVE  /\ Found(TopOf(i)) = {} /\ Found(TopOf(j)) = {}
         /\ Elements(Calls(TopOf(i))) = {InstanceOf(i, file[i].key)}
         /\ InstanceOf(j, file[i].key) \in Elements(Calls(TopOf(j)))
         /\ \A c \in Elements(Calls(TopOf(j))) :
               \/ c = InstanceOf(j, file[i].key)
               \/ "object" \in DOMAIN forms /\ c = BlockOf(j)
<1>0. /\ file[i].key # Nothing /\ ReadObjectClass(file[i]) = file[i].key
      /\ Instantiated(file[i]) /\ Instantiated(file[j])
  BY SpelledIs
<1>1. \A k : /\ Found(TopOf(k)) = TopReports(file[k], <<k>>)
             /\ Calls(TopOf(k)) = TopCalls(file[k], <<k>>)
  BY DEF Found, Calls, TopOf
<1>2. /\ Instance(file[i], <<i>>) = <<InstanceOf(i, file[i].key)>>
      /\ Instance(file[j], <<j>>) = <<InstanceOf(j, file[i].key)>>
  BY <1>0 DEF Instance, InstanceOf, Spelled
<1>3. \A x : IsList(<<x>>) /\ Elements(<<x>>) = {x}
  BY LoneList
<1>4. Found(TopOf(i)) = {} /\ Elements(Calls(TopOf(i))) = {InstanceOf(i, file[i].key)}
  BY <1>0, <1>1, <1>2, <1>3 DEF Spelled, TopReports, TopCalls
<1>5. CASE "object" \notin DOMAIN forms
  <2>1. Found(TopOf(j)) = {} /\ Elements(Calls(TopOf(j))) = {InstanceOf(j, file[i].key)}
    BY <1>0, <1>1, <1>2, <1>3, <1>5 DEF Spelled, TopReports, TopCalls
  <2> QED
    BY <1>4, <2>1
<1>6. CASE "object" \in DOMAIN forms
  <2>1. forms["object"].top_level
    BY <1>6 DEF Parsed, IsRegistry
  <2>2. Found(TopOf(j)) = {}
    BY <1>1, <1>6, <2>1 DEF Spelled, TopReports
  <2>3. TopCalls(file[j], <<j>>) = <<BlockOf(j)>> \o <<InstanceOf(j, file[i].key)>>
    BY <1>2, <1>6, <2>1 DEF Spelled, TopCalls, BlockOf
  <2>4. Elements(Calls(TopOf(j))) = {BlockOf(j)} \cup {InstanceOf(j, file[i].key)}
    <3>1. PICK x, y : x = <<BlockOf(j)>> /\ y = <<InstanceOf(j, file[i].key)>>
      OBVIOUS
    <3>2. IsList(x) /\ IsList(y) /\ Elements(x) = {BlockOf(j)} /\ Elements(y) = {InstanceOf(j, file[i].key)}
      BY <1>3, <3>1
    <3>3. Elements(x \o y) = Elements(x) \cup Elements(y)
      BY <3>2, ElementsOfJoin
    <3>4. Calls(TopOf(j)) = x \o y
      BY <1>1, <2>3, <3>1
    <3> QED
      BY <3>2, <3>3, <3>4
  <2> QED
    BY <1>4, <1>6, <2>2, <2>4
<1> QED
  BY <1>5, <1>6

\* What a task with a twin calls has a twin.
LEMMA TwinsCallTwins ==
  ASSUME Parsed, NEW i \in Nat, NEW k \in Nat, NEW t, Due(t), NEW p \in Seq(Nat), t.at = <<i>> \o p, Twin(t, k, p),
         NEW c \in Elements(Calls(t)), NEW q \in Seq(Nat), c.at = <<i>> \o q
  PROVE  Twin(c, k, q)
<1>1. PICK u : Due(u) /\ Alike(t, u) /\ u.at = <<k>> \o p
  BY DEF Twin
<1>2. t.at \in Seq(Nat) /\ u.at \in Seq(Nat)
  BY <1>1, RootOfPlace
<1>3. Follow(Calls(t), Calls(u), t.at, u.at)
  BY <1>1, <1>2, DueFits, CallsAlike
<1>4. PICK s \in Seq(Nat) : \E d \in Elements(Calls(u)) : c.at = t.at \o s /\ d.at = u.at \o s /\ Alike(c, d)
  BY <1>3 DEF Follow
<1>5. PICK d \in Elements(Calls(u)) : c.at = t.at \o s /\ d.at = u.at \o s /\ Alike(c, d)
  BY <1>4
<1>6. <<i>> \o q = (<<i>> \o p) \o s
  BY <1>5
<1>7. q = p \o s
  <2>0. <<i>> \in Seq(Nat)
    OBVIOUS
  <2>1. PICK a \in Seq(Nat) : a = <<i>>
    BY <2>0
  <2>2. (a \o p) \o s = a \o (p \o s) /\ p \o s \in Seq(Nat)
    BY <2>1, StepsCompose
  <2>3. PICK x \in Seq(Nat) : x = p \o s
    BY <2>2
  <2>4. <<i>> \o x = <<i>> \o q
    BY <1>6, <2>1, <2>2, <2>3
  <2>5. \A m \in Nat, y \in Seq(Nat) : <<i>> \o x = <<m>> \o y => i = m /\ x = y
    BY RootOfPlace, Zenon
  <2> QED
    BY <2>3, <2>4, <2>5, Zenon
<1>8. <<k>> \in Seq(Nat)
  OBVIOUS
<1>9. d.at = <<k>> \o q
  BY <1>1, <1>5, <1>7, <1>8, StepsCompose
<1> QED
  BY <1>1, <1>5, <1>9, CallsAreDue DEF Twin

\* What a task of a pass over the statements is, at a statement.
LEMMA AgendaAt ==
  ASSUME Parsed, NEW t \in Elements(Agenda), t \notin IndexTasks, NEW i \in Nat \ {0}, NEW p \in Seq(Nat), t.at = <<i>> \o p
  PROVE  /\ i \in DOMAIN file /\ p = <<>>
         /\ t.do \in {"annotations", "top", "placement", "properties"}
         /\ t = [do |-> t.do, at |-> <<i>>, statement |-> file[i], top |-> TRUE]
<1>1. t # TypesTask
  <2> SUFFICES ASSUME t = TypesTask  PROVE FALSE
    OBVIOUS
  <2>1. t.at = <<0>> /\ 0 \in Nat
    BY DEF TypesTask, Registry
  <2>2. (<<i>> \o p)[1] = i
    BY RootOfPlace
  <2> QED
    BY <2>1, <2>2
<1>2. PICK pass \in {"annotations", "top", "placement", "properties"} : t \in Elements(ForEach(pass))
  BY <1>1, AgendaIs
<1>3. PICK k \in DOMAIN file : t = [do |-> pass, at |-> <<k>>, statement |-> file[k], top |-> TRUE]
  BY <1>2 DEF Elements, ForEach
<1>4. k \in Nat
  BY ListHas DEF Parsed, IsFile
<1>5. <<i>> \o p = <<k>> \o <<>> /\ <<>> \in Seq(Nat)
  BY <1>3, <1>4, StatementPlace
<1>6. \A x \in Nat, y \in Seq(Nat) : <<i>> \o p = <<x>> \o y => i = x /\ p = y
  BY RootOfPlace, Zenon
<1>7. i = k /\ p = <<>>
  BY <1>4, <1>5, <1>6, Zenon
<1> QED
  BY <1>2, <1>3, <1>7

LEMMA AgendaHasTwins ==
  ASSUME Parsed, NEW t \in Elements(Agenda), t \notin IndexTasks, NEW i \in Nat \ {0}, NEW p \in Seq(Nat), t.at = <<i>> \o p,
         NEW k \in DOMAIN file, t.do # "top",
         file[k].value = file[i].value, ReadObjectClass(file[k]) = ReadObjectClass(file[i])
  PROVE  Twin(t, k, p)
<1>1. /\ i \in DOMAIN file /\ p = <<>>
      /\ t.do \in {"annotations", "top", "placement", "properties"}
      /\ t = [do |-> t.do, at |-> <<i>>, statement |-> file[i], top |-> TRUE]
  BY AgendaAt
<1>2. PICK u : u = [do |-> t.do, at |-> <<k>>, statement |-> file[k], top |-> TRUE]
  OBVIOUS
<1>3. Due(u)
  BY <1>1, <1>2, PassIsDue
<1>4. k \in Nat
  BY ListHas DEF Parsed, IsFile
<1>5. u.at = <<k>> \o p
  BY <1>1, <1>2, <1>4, StatementPlace
<1>6. t.statement = file[i] /\ t.top = TRUE /\ u.statement = file[k] /\ u.top = TRUE /\ u.do = t.do
  BY <1>1, <1>2
<1>7. Alike(t, u)
  BY <1>1, <1>6 DEF Alike
<1> QED
  BY <1>3, <1>5, <1>7 DEF Twin

\* What calls a task in the statement at i stands there itself.
CallsWithin(t, i, q) ==
  t \notin IndexTasks /\ \E p \in Seq(Nat), s \in Seq(Nat) : StandsAt(t.at, i, p) /\ q = p \o s

LEMMA CalledWithin ==
  ASSUME Parsed, NEW t, Due(t), NEW c \in Elements(Calls(t)), NEW i \in Nat, NEW q \in Seq(Nat), StandsAt(c.at, i, q)
  PROVE  CallsWithin(t, i, q)
<1>1. Fitting(t) /\ Placed(t)
  BY DueFits, DueIsPlaced
<1>2. t \notin IndexTasks
  BY <1>1, CallsArePlaced
<1>3. PICK s \in Seq(Nat) : c.at = t.at \o s
  BY <1>1, <1>2, CallsBelow
<1>4. PICK m \in Nat, p \in Seq(Nat) : StandsAt(t.at, m, p)
  BY <1>1, <1>2 DEF Placed, Rooted, StandsAt
<1>6. i = m /\ q = p \o s
  BY <1>3, <1>4, StepBelowRoot, Zenon
<1> QED
  BY <1>2, <1>4, <1>6 DEF CallsWithin

\* All that is called for the short spelling is called for the long one.
ShortFollows(t, i, j) ==
  t \notin IndexTasks => \A p \in Seq(Nat) : StandsAt(t.at, i, p) => t = TopOf(i) \/ Twin(t, j, p)

LEMMA InstancesAreTwins ==
  ASSUME Parsed, NEW i, NEW j, Spelled(i, j)
  PROVE  /\ Alike(InstanceOf(i, file[i].key), InstanceOf(j, file[i].key))
         /\ Alike(InstanceOf(j, file[i].key), InstanceOf(i, file[i].key))
         /\ \A p \in Seq(Nat) : <<i>> = <<i>> \o p => Twin(InstanceOf(i, file[i].key), j, p)
         /\ \A p \in Seq(Nat) : <<j>> = <<j>> \o p => Twin(InstanceOf(j, file[i].key), i, p)
<1>1. i \in Nat /\ j \in Nat /\ i \in DOMAIN file /\ j \in DOMAIN file
  BY SpelledIs DEF Spelled
<1>2. /\ Alike(InstanceOf(i, file[i].key), InstanceOf(j, file[i].key))
      /\ Alike(InstanceOf(j, file[i].key), InstanceOf(i, file[i].key))
  BY DEF Alike, InstanceOf, Spelled
<1>3. Due(TopOf(i)) /\ Due(TopOf(j))
  BY <1>1, PassIsDue DEF TopOf
<1>4. Due(InstanceOf(i, file[i].key)) /\ Due(InstanceOf(j, file[i].key))
  BY <1>3, SpelledTops, CallsAreDue
<1>5. \A k \in Nat, p \in Seq(Nat) : <<k>> = <<k>> \o p => p = <<>>
  <2> SUFFICES ASSUME NEW k \in Nat, NEW p \in Seq(Nat), <<k>> = <<k>> \o p  PROVE p = <<>>
    OBVIOUS
  <2>1. <<k>> \o p = <<k>> \o <<>> /\ <<>> \in Seq(Nat)
    BY StatementPlace
  <2>2. \A x \in Nat, y \in Seq(Nat) : <<k>> \o p = <<x>> \o y => k = x /\ p = y
    BY RootOfPlace, Zenon
  <2> QED
    BY <2>1, <2>2, Zenon
<1>6. \A k \in Nat : <<k>> = <<k>> \o <<>>
  BY StatementPlace
<1>7. \A k, c : InstanceOf(k, c).at = <<k>>
  BY DEF InstanceOf
<1>8. /\ Twin(InstanceOf(i, file[i].key), j, <<>>) /\ Twin(InstanceOf(j, file[i].key), i, <<>>)
  BY <1>1, <1>2, <1>4, <1>6, <1>7 DEF Twin
<1> QED
  BY <1>1, <1>2, <1>5, <1>8

LEMMA ShortFollowed ==
  ASSUME Parsed, NEW i, NEW j, Spelled(i, j), NEW t, Due(t)
  PROVE  ShortFollows(t, i, j)
<1>0. /\ i \in Nat \ {0} /\ j \in Nat \ {0} /\ i \in DOMAIN file /\ j \in DOMAIN file
      /\ file[j].value = file[i].value /\ ReadObjectClass(file[j]) = ReadObjectClass(file[i])
  BY SpelledIs DEF Spelled
<1>1. PICK n \in Nat \ {0} : \E d : Chained(d, n) /\ d[n] = t
  BY DEF Due
<1>2. PICK d : Chained(d, n) /\ d[n] = t
  BY <1>1
<1> DEFINE S == {k \in 1..n : ShortFollows(d[k], i, j)}
<1>3. 1 \in S
  <2> SUFFICES ASSUME NEW p \in Seq(Nat), d[1] \notin IndexTasks, StandsAt(d[1].at, i, p), d[1] # TopOf(i)
               PROVE  Twin(d[1], j, p)
    BY DEF ShortFollows
  <2>1. d[1] \in Elements(Agenda) /\ d[1].at = <<i>> \o p
    BY <1>2 DEF Chained, StandsAt
  <2>2. d[1].do # "top"
    BY <1>0, <2>1, AgendaAt DEF TopOf
  <2> QED
    BY <1>0, <2>1, <2>2, AgendaHasTwins
<1>4. ASSUME NEW k \in 1..(n - 1), k \in S  PROVE k + 1 \in S
  <2>1. k \in 1..n /\ k + 1 \in 1..n
    OBVIOUS
  <2>2. PICK u, c : u = d[k] /\ c = d[k + 1]
    OBVIOUS
  <2>3. Due(u) /\ c \in Elements(Calls(u)) /\ ShortFollows(u, i, j)
    BY <1>2, <1>4, <2>1, <2>2, LinkIsDue DEF Chained
  <2> SUFFICES ASSUME NEW q \in Seq(Nat), c \notin IndexTasks, StandsAt(c.at, i, q)
               PROVE  Twin(c, j, q)
    BY <2>1, <2>2 DEF ShortFollows
  <2>0. i \in Nat /\ j \in Nat
    BY <1>0
  <2>4. CallsWithin(u, i, q)
    BY <2>0, <2>3, CalledWithin
  <2>5. u \notin IndexTasks /\ \E p \in Seq(Nat), s \in Seq(Nat) : StandsAt(u.at, i, p) /\ q = p \o s
    BY <2>4 DEF CallsWithin
  <2>8. PICK p \in Seq(Nat) : StandsAt(u.at, i, p)
    BY <2>5
  <2>6. CASE u = TopOf(i)
    <3>1. c = InstanceOf(i, file[i].key)
      BY <2>3, <2>6, SpelledTops
    <3>2. <<i>> = <<i>> \o q
      BY <3>1 DEF InstanceOf, StandsAt
    <3> QED
      BY <3>1, <3>2, InstancesAreTwins
  <2>7. CASE Twin(u, j, p)
    BY <2>0, <2>3, <2>8, <2>7, TwinsCallTwins DEF StandsAt
  <2> QED
    BY <2>3, <2>5, <2>6, <2>7, <2>8 DEF ShortFollows
<1>5. n \in S
  <2> HIDE DEF S
  <2> QED
    BY <1>3, <1>4, AlongAChain
<1> QED
  BY <1>2, <1>5

\* All that is called for the long spelling is called for the short one, but
\* for what the form `object` has checked: the block, and values of its keys.
OfTheFormObject(u, p, j) ==
  /\ "object" \in DOMAIN forms
  /\ \/ u.do \in {"block", "close"} /\ p = <<>> /\ u.block = file[j].value /\ u.form = "object"
     \/ p # <<>> /\ HasKey(forms["object"], file[j].value.body[p[1]].key)

LongFollows(u, i, j) ==
  u \notin IndexTasks => \A p \in Seq(Nat) : StandsAt(u.at, j, p) => u = TopOf(j) \/ Twin(u, i, p) \/ OfTheFormObject(u, p, j)

LEMMA PlacesDiffer ==
  ASSUME NEW j \in Nat, NEW p \in Seq(Nat), NEW q \in Seq(Nat), NEW a, StandsAt(a, j, p), StandsAt(a, j, q)
  PROVE  p = q
<1>1. <<j>> \o p = <<j>> \o q
  BY DEF StandsAt
<1>2. \A x \in Nat, y \in Seq(Nat) : <<j>> \o p = <<x>> \o y => j = x /\ p = y
  BY RootOfPlace, Zenon
<1> QED
  BY <1>1, <1>2, Zenon

LEMMA StandsHere ==
  ASSUME NEW j \in Nat
  PROVE  StandsAt(<<j>>, j, <<>>) /\ \A k \in Nat : StandsAt(Append(<<j>>, k), j, <<k>>) /\ <<k>> \in Seq(Nat)
<1>1. <<j>> \in Seq(Nat)
  OBVIOUS
<1>2. \A k \in Nat : Append(<<j>>, k) = <<j>> \o <<k>> /\ <<k>> \in Seq(Nat)
  BY <1>1, OneStep
<1> QED
  BY <1>2, StatementPlace DEF StandsAt

LEMMA BelowAPlace ==
  ASSUME NEW p \in Seq(Nat), p # <<>>, NEW s \in Seq(Nat)
  PROVE  p \o s # <<>> /\ (p \o s)[1] = p[1]
<1>1. Len(p) \in Nat /\ Len(p) # 0 /\ Len(p \o s) = Len(p) + Len(s) /\ Len(s) \in Nat
  OBVIOUS
<1>2. 1 \in 1..Len(p) /\ Len(p \o s) # 0
  BY <1>1
<1>3. (p \o s)[1] = p[1]
  BY <1>2
<1> QED
  BY <1>2, <1>3

\* What the form `object` has checked is of its keys.
LEMMA TypedHasKey ==
  ASSUME IsFile(file), NEW t, t.do = "block", t.block \in Written, t.block.is = "block", t.form \in DOMAIN forms,
         NEW c \in Elements(Calls(t))
  PROVE  \/ c = [do |-> "close", at |-> t.at, block |-> t.block, form |-> t.form]
         \/ \E k \in Nat : c.at = Append(t.at, k) /\ HasKey(forms[t.form], t.block.body[k].key)
<1> DEFINE types == [i \in TypedIn(t.block, forms[t.form]) |-> Expected(t.block, FindKey(forms[t.form], t.block.body[i].key))]
           values == ValueTasks(t.block, types, t.at)
           close == [do |-> "close", at |-> t.at, block |-> t.block, form |-> t.form]
<1>0. IsList(t.block.body)
  BY InBlock
<1>1. DOMAIN types = TypedIn(t.block, forms[t.form]) /\ TypedIn(t.block, forms[t.form]) \subseteq DOMAIN t.block.body
  BY DEF TypedIn
<1>2. Calls(t) = Append(values, close)
  BY DEF Calls, BlockCalls
<1> HIDE DEF types, close
<1>3. IsList(values) /\ Elements(values) = {ValueTask(t.block.body[k].value, types[k], Append(t.at, k)) : k \in DOMAIN types}
  BY <1>0, <1>1, ValueTasksAre
<1> HIDE DEF values
<1>4. IsList(<<close>>) /\ Elements(<<close>>) = {close}
  BY LoneList
<1>5. Calls(t) = values \o <<close>>
  BY <1>2, <1>3, AppendIsJoin
<1>6. Elements(values \o <<close>>) = Elements(values) \cup Elements(<<close>>)
  BY <1>3, <1>4, ElementsOfJoin
<1>7. CASE c \in Elements(values)
  <2>1. PICK k \in TypedIn(t.block, forms[t.form]) : c = ValueTask(t.block.body[k].value, types[k], Append(t.at, k))
    BY <1>1, <1>3, <1>7
  <2>2. k \in Nat /\ HasKey(forms[t.form], t.block.body[k].key)
    BY <1>0, <2>1, ListHas DEF TypedIn
  <2> QED
    BY <2>1, <2>2 DEF ValueTask
<1>8. CASE c = close
  BY <1>8 DEF close
<1> QED
  BY <1>4, <1>5, <1>6, <1>7, <1>8

LEMMA ReportedHasKey ==
  ASSUME Parsed, NEW t, t.do \in {"block", "close"}, t.block \in Written, t.block.is = "block",
         t.form = "object", "object" \in DOMAIN forms, NEW r \in Found(t)
  PROVE  r.at = t.at \/ \E k \in Nat : r.at = Append(t.at, k) /\ HasKey(forms["object"], t.block.body[k].key)
<1> DEFINE form == forms["object"]
<1>0. IsList(t.block.body) /\ form.open /\ IsList(form.keys)
  BY InBlock DEF Parsed, IsRegistry
<1>1. CASE t.do = "block"
  <2>1. PICK k \in Duplicates(t.block.body, form) : r = Note("DuplicateKey", Append(t.at, k))
    BY <1>0, <1>1 DEF Found, BlockReports
  <2>2. k \in DOMAIN t.block.body
    BY <2>1 DEF Duplicates
  <2>3. HasKey(form, t.block.body[k].key)
    BY <1>0, <2>1, <2>2, DuplicatesAre DEF MeetsEarlier, BindsOne
  <2> QED
    BY <1>0, <2>1, <2>2, <2>3, ListHas DEF Note
<1>2. CASE t.do = "close"
  <2>1. Found(t) = CloseReports(t.block, form, t.at)
    BY <1>2 DEF Found
  <2>2. CASE r = Note("KeyMissing", t.at)
    BY <2>2 DEF Note
  <2>3. CASE \E g \in GroupsOf(form) : r \in GroupReports(t.block, form, g, t.at)
    <3>1. PICK g \in GroupsOf(form) : r \in GroupReports(t.block, form, g, t.at)
      BY <2>3
    <3>2. PICK present : present = {k \in Members(form, g) : With(t.block, form.keys[k].name) # {}}
      OBVIOUS
    <3>3. PICK second : second = Least(present \ {Least(present)})
      OBVIOUS
    <3>4. PICK place : place = Least(With(t.block, form.keys[second].name))
      OBVIOUS
    <3>5. \/ r = Note("ExclusiveMissing", t.at)
          \/ present # {} /\ present # {Least(present)} /\ r = Note("ExclusiveGroup", Append(t.at, place))
      BY <3>1, <3>2, <3>3, <3>4 DEF GroupReports
    <3>6. CASE r = Note("ExclusiveMissing", t.at)
      BY <3>6 DEF Note
    <3>7. CASE present # {} /\ present # {Least(present)} /\ r = Note("ExclusiveGroup", Append(t.at, place))
      <4>1. second \in DOMAIN form.keys /\ place \in With(t.block, form.keys[second].name)
        BY <1>0, <3>2, <3>3, <3>4, <3>7, SecondMember
      <4>2. place \in Nat /\ t.block.body[place].key = form.keys[second].name
        BY <1>0, <4>1, ListHas DEF With
      <4>3. HasKey(form, t.block.body[place].key)
        BY <4>1, <4>2 DEF HasKey, KeysNamed
      <4> QED
        BY <3>7, <4>2, <4>3 DEF Note
    <3> QED
      BY <3>5, <3>6, <3>7
  <2> QED
    BY <2>1, <2>2, <2>3 DEF CloseReports
<1> QED
  BY <1>1, <1>2

\* Whatever the form `object` has checked calls nothing else.
LEMMA FormObjectCalls ==
  ASSUME Parsed, NEW j \in Nat, NEW u, Due(u), NEW p \in Seq(Nat), StandsAt(u.at, j, p), OfTheFormObject(u, p, j),
         NEW c \in Elements(Calls(u)), NEW q \in Seq(Nat), StandsAt(c.at, j, q)
  PROVE  OfTheFormObject(c, q, j)
<1>0. Fitting(u) /\ IsFile(file) /\ "object" \in DOMAIN forms
  BY DueFits DEF Parsed, OfTheFormObject
<1>1. CASE p # <<>> /\ HasKey(forms["object"], file[j].value.body[p[1]].key)
  <2>1. CallsWithin(u, j, q)
    BY CalledWithin
  <2>2. PICK y \in Seq(Nat) : \E s \in Seq(Nat) : StandsAt(u.at, j, y) /\ q = y \o s
    BY <2>1 DEF CallsWithin
  <2>3. PICK s \in Seq(Nat) : StandsAt(u.at, j, y) /\ q = y \o s
    BY <2>2
  <2>4. p = y
    BY <2>3, PlacesDiffer
  <2>5. q # <<>> /\ q[1] = p[1]
    BY <1>1, <2>3, <2>4, BelowAPlace
  <2> QED
    BY <1>0, <1>1, <2>5 DEF OfTheFormObject
<1>2. CASE u.do = "close" /\ p = <<>>
  BY <1>2, NoList DEF Calls
<1>3. CASE u.do = "block" /\ p = <<>> /\ u.block = file[j].value /\ u.form = "object"
  <2>1. u.at = <<j>>
    BY <1>3, StatementPlace DEF StandsAt
  <2>2. u.block \in Written /\ u.block.is = "block" /\ u.form \in DOMAIN forms
    BY <1>0, <1>3 DEF Fitting
  <2>3. \/ c = [do |-> "close", at |-> u.at, block |-> u.block, form |-> u.form]
        \/ \E k \in Nat : c.at = Append(u.at, k) /\ HasKey(forms[u.form], u.block.body[k].key)
    BY <1>0, <1>3, <2>2, TypedHasKey
  <2>4. CASE c = [do |-> "close", at |-> u.at, block |-> u.block, form |-> u.form]
    <3>1. StandsAt(c.at, j, p)
      BY <2>4
    <3>2. q = <<>>
      BY <1>3, <3>1, PlacesDiffer
    <3> QED
      BY <1>0, <1>3, <2>4, <3>2 DEF OfTheFormObject
  <2>5. CASE \E k \in Nat : c.at = Append(u.at, k) /\ HasKey(forms[u.form], u.block.body[k].key)
    <3>1. PICK k \in Nat : c.at = Append(<<j>>, k) /\ HasKey(forms["object"], file[j].value.body[k].key)
      BY <1>3, <2>1, <2>5
    <3>2. PICK y \in Seq(Nat) : y = <<k>> /\ StandsAt(c.at, j, y)
      BY <3>1, StandsHere
    <3>3. q = y
      BY <3>2, PlacesDiffer
    <3>4. q # <<>> /\ q[1] = k
      BY <3>2, <3>3
    <3> QED
      BY <1>0, <3>1, <3>4 DEF OfTheFormObject
  <2> QED
    BY <2>3, <2>4, <2>5
<1> QED
  BY <1>1, <1>2, <1>3 DEF OfTheFormObject

\* What the form `object` reports is of the block or of a key of its own.
LEMMA FormObjectReports ==
  ASSUME Parsed, NEW j \in Nat, NEW u, Due(u), u \notin IndexTasks, NEW p \in Seq(Nat), StandsAt(u.at, j, p),
         OfTheFormObject(u, p, j), NEW r \in Found(u), NEW q \in Seq(Nat), StandsAt(r.at, j, q)
  PROVE  q = <<>> \/ HasKey(forms["object"], file[j].value.body[q[1]].key)
<1>0. Fitting(u) /\ Placed(u) /\ IsFile(file) /\ "object" \in DOMAIN forms
  BY DueFits, DueIsPlaced DEF Parsed, OfTheFormObject
<1>1. CASE p # <<>> /\ HasKey(forms["object"], file[j].value.body[p[1]].key)
  <2>1. PICK s \in Seq(Nat) : r.at = u.at \o s
    BY <1>0, FoundBelow
  <2>2. q = p \o s
    BY <2>1, StepBelowRoot, Zenon
  <2>3. q[1] = p[1]
    BY <1>1, <2>2, BelowAPlace
  <2> QED
    BY <1>1, <2>3
<1>2. CASE u.do \in {"block", "close"} /\ p = <<>> /\ u.block = file[j].value /\ u.form = "object"
  <2>1. u.at = <<j>>
    BY <1>2, StatementPlace DEF StandsAt
  <2>2. u.block \in Written /\ u.block.is = "block"
    BY <1>0, <1>2 DEF Fitting
  <2>3. r.at = u.at \/ \E k \in Nat : r.at = Append(u.at, k) /\ HasKey(forms["object"], u.block.body[k].key)
    BY <1>0, <1>2, <2>2, ReportedHasKey
  <2>4. CASE r.at = u.at
    <3>1. StandsAt(r.at, j, p)
      BY <2>4
    <3>2. q = <<>>
      BY <1>2, <3>1, PlacesDiffer
    <3> QED
      BY <3>2
  <2>5. CASE \E k \in Nat : r.at = Append(u.at, k) /\ HasKey(forms["object"], u.block.body[k].key)
    <3>1. PICK k \in Nat : r.at = Append(<<j>>, k) /\ HasKey(forms["object"], file[j].value.body[k].key)
      BY <1>2, <2>1, <2>5
    <3>2. PICK y \in Seq(Nat) : y = <<k>> /\ StandsAt(r.at, j, y)
      BY <3>1, StandsHere
    <3>3. q = y
      BY <3>2, PlacesDiffer
    <3>4. q[1] = k
      BY <3>2, <3>3
    <3> QED
      BY <3>1, <3>4
  <2> QED
    BY <2>3, <2>4, <2>5
<1> QED
  BY <1>1, <1>2 DEF OfTheFormObject

LEMMA LongFollowed ==
  ASSUME Parsed, NEW i, NEW j, Spelled(i, j), NEW t, Due(t)
  PROVE  LongFollows(t, i, j)
<1>0. /\ i \in Nat \ {0} /\ j \in Nat \ {0} /\ i \in DOMAIN file /\ j \in DOMAIN file
      /\ file[j].value = file[i].value /\ ReadObjectClass(file[j]) = ReadObjectClass(file[i])
      /\ file[j].key = "object"
  BY SpelledIs DEF Spelled
<1>1. PICK n \in Nat \ {0} : \E d : Chained(d, n) /\ d[n] = t
  BY DEF Due
<1>2. PICK d : Chained(d, n) /\ d[n] = t
  BY <1>1
<1> DEFINE S == {k \in 1..n : LongFollows(d[k], i, j)}
<1>3. 1 \in S
  <2> SUFFICES ASSUME NEW p \in Seq(Nat), d[1] \notin IndexTasks, StandsAt(d[1].at, j, p), d[1] # TopOf(j)
               PROVE  Twin(d[1], i, p)
    BY DEF LongFollows
  <2>1. d[1] \in Elements(Agenda) /\ d[1].at = <<j>> \o p
    BY <1>2 DEF Chained, StandsAt
  <2>2. d[1].do # "top"
    BY <1>0, <2>1, AgendaAt DEF TopOf
  <2> QED
    BY <1>0, <2>1, <2>2, AgendaHasTwins
<1>4. ASSUME NEW k \in 1..(n - 1), k \in S  PROVE k + 1 \in S
  <2>1. k \in 1..n /\ k + 1 \in 1..n
    OBVIOUS
  <2>2. PICK u, c : u = d[k] /\ c = d[k + 1]
    OBVIOUS
  <2>3. Due(u) /\ c \in Elements(Calls(u)) /\ LongFollows(u, i, j)
    BY <1>2, <1>4, <2>1, <2>2, LinkIsDue DEF Chained
  <2> SUFFICES ASSUME NEW q \in Seq(Nat), c \notin IndexTasks, StandsAt(c.at, j, q)
               PROVE  Twin(c, i, q) \/ OfTheFormObject(c, q, j)
    BY <2>1, <2>2 DEF LongFollows
  <2>0. i \in Nat /\ j \in Nat
    BY <1>0
  <2>4. CallsWithin(u, j, q)
    BY <2>0, <2>3, CalledWithin
  <2>5. u \notin IndexTasks /\ \E p \in Seq(Nat), s \in Seq(Nat) : StandsAt(u.at, j, p) /\ q = p \o s
    BY <2>4 DEF CallsWithin
  <2>6. PICK p \in Seq(Nat) : StandsAt(u.at, j, p)
    BY <2>5
  <2>7. CASE u = TopOf(j)
    <3>1. CASE c = InstanceOf(j, file[i].key)
      <4>1. <<j>> = <<j>> \o q
        BY <3>1 DEF InstanceOf, StandsAt
      <4> QED
        BY <3>1, <4>1, InstancesAreTwins
    <3>2. CASE "object" \in DOMAIN forms /\ c = BlockOf(j)
      <4>0. c.at = <<j>>
        BY <3>2 DEF BlockOf
      <4>1. PICK y : y = <<>>
        OBVIOUS
      <4>3. y \in Seq(Nat) /\ StandsAt(<<j>>, j, y)
        BY <2>0, <4>1, StandsHere, StatementPlace
      <4>2. q = <<>>
        BY <2>0, <4>0, <4>1, <4>3, PlacesDiffer
      <4> QED
        BY <1>0, <3>2, <4>2 DEF OfTheFormObject, BlockOf
    <3> QED
      BY <2>3, <2>7, <3>1, <3>2, SpelledTops
  <2>8. CASE Twin(u, i, p)
    BY <2>0, <2>3, <2>6, <2>8, TwinsCallTwins DEF StandsAt
  <2>9. CASE OfTheFormObject(u, p, j)
    BY <2>0, <2>3, <2>6, <2>9, FormObjectCalls
  <2> QED
    BY <2>3, <2>5, <2>6, <2>7, <2>8, <2>9 DEF LongFollows
<1>5. n \in S
  <2> HIDE DEF S
  <2> QED
    BY <1>3, <1>4, AlongAChain
<1> QED
  BY <1>2, <1>5

\* What a task with a twin finds, its twin finds at the same place.
LEMMA TwinsFind ==
  ASSUME Parsed, NEW i \in Nat, NEW k \in Nat, NEW t, Due(t), NEW p \in Seq(Nat), StandsAt(t.at, i, p), Twin(t, k, p),
         NEW r \in Found(t), NEW q \in Seq(Nat), StandsAt(r.at, i, q)
  PROVE  \E u, place : Due(u) /\ Note(r.code, place) \in Found(u) /\ StandsAt(place, k, q)
<1>1. PICK u : Due(u) /\ Alike(t, u) /\ u.at = <<k>> \o p
  BY DEF Twin
<1>2. t.at \in Seq(Nat) /\ u.at \in Seq(Nat)
  BY <1>1, RootOfPlace DEF StandsAt
<1>3. Shifts(Found(t), Found(u), t.at, u.at)
  BY <1>1, <1>2, DueFits, FoundAlike
<1>4. PICK s \in Seq(Nat) : r.at = t.at \o s /\ Note(r.code, u.at \o s) \in Found(u)
  BY <1>3 DEF Shifts, Moves
<1>5. q = p \o s
  BY <1>4, StepBelowRoot, Zenon
<1>6. <<k>> \in Seq(Nat)
  OBVIOUS
<1>7. u.at \o s = <<k>> \o q
  BY <1>1, <1>5, <1>6, StepsCompose
<1> QED
  BY <1>1, <1>4, <1>7 DEF StandsAt

-----------------------------------------------------------------------------
(* What is reported below a statement *)

LEMMA RestOfPlace ==
  ASSUME NEW i \in Nat, NEW q \in Seq(Nat), NEW place, StandsAt(place, i, q)
  PROVE  /\ Len(place) >= 1 /\ SubSeq(place, 1, 1) = <<i>> /\ SubSeq(place, 2, Len(place)) = q
<1>1. place \in Seq(Nat) /\ Len(place) = Len(q) + 1 /\ Len(q) \in Nat /\ place[1] = i
  <2>1. <<i>> \in Seq(Nat) /\ Len(<<i>>) = 1
    OBVIOUS
  <2> QED
    BY <2>1, RootOfPlace DEF StandsAt
<1>2. \A k \in 1..Len(q) : place[k + 1] = q[k]
  <2> TAKE k \in 1..Len(q)
  <2>1. <<i>> \in Seq(Nat) /\ Len(<<i>>) = 1 /\ k + 1 > 1 /\ (k + 1) - 1 = k /\ k + 1 \in 1..(1 + Len(q))
    OBVIOUS
  <2> QED
    BY <2>1 DEF StandsAt
<1>3. SubSeq(place, 1, 1) = <<i>>
  <2>1. PICK y : y = SubSeq(place, 1, 1)
    OBVIOUS
  <2>2. y \in Seq(Nat) /\ Len(y) = 1 /\ y[1] = place[1]
    BY <1>1, <2>1
  <2>3. y = <<i>>
    BY <1>1, <2>2
  <2> QED
    BY <2>1, <2>3
<1>4. SubSeq(place, 2, Len(place)) = q
  <2>1. PICK y : y = SubSeq(place, 2, Len(place))
    OBVIOUS
  <2>2. y \in Seq(Nat) /\ Len(y) = Len(q)
    BY <1>1, <2>1
  <2>3. \A k \in 1..Len(q) : y[k] = place[k + 1]
    BY <1>1, <2>1
  <2>4. Len(y) = Len(q) /\ \A k \in 1..Len(y) : y[k] = q[k]
    BY <1>2, <2>2, <2>3
  <2>5. y = q
    BY <2>2, <2>4
  <2> QED
    BY <2>1, <2>5
<1> QED
  BY <1>1, <1>3, <1>4

LEMMA NotesBelow ==
  ASSUME NEW i \in Nat, NEW q \in Seq(Nat), NEW place, StandsAt(place, i, q), NEW code, Note(code, place) \in reports
  PROVE  Note(code, q) \in Below(<<i>>)
<1>1. /\ Len(place) >= 1 /\ SubSeq(place, 1, 1) = <<i>> /\ SubSeq(place, 2, Len(place)) = q
  BY RestOfPlace
<1>2. PICK r : r = Note(code, place)
  OBVIOUS
<1>3. r \in reports /\ r.code = code /\ r.at = place
  BY <1>2 DEF Note
<1>4. Len(<<i>>) = 1
  OBVIOUS
<1>5. r \in Under(<<i>>)
  BY <1>1, <1>3, <1>4 DEF Under
<1>6. Note(r.code, SubSeq(r.at, Len(<<i>>) + 1, Len(r.at))) = Note(code, q)
  <2>1. Len(<<i>>) + 1 = 2
    BY <1>4
  <2> QED
    BY <1>1, <1>3, <2>1
<1> QED
  BY <1>5, <1>6 DEF Below

\* What is reported below a statement is found by a task in the statement.
FoundAt(x, i, t, q) ==
  /\ Due(t) /\ t \notin IndexTasks
  /\ \E p \in Seq(Nat) : StandsAt(t.at, i, p)
  /\ \E r \in Found(t) : StandsAt(r.at, i, q) /\ x = Note(r.code, q)

LEMMA BelowIsFound ==
  ASSUME Going, Done, NEW i \in Nat, NEW x \in Below(<<i>>)
  PROVE  \E t : \E q \in Seq(Nat) : FoundAt(x, i, t, q)
<1>0. Len(<<i>>) = 1 /\ Len(<<i>>) + 1 = 2
  OBVIOUS
<1>1. PICK r \in Under(<<i>>) : x = Note(r.code, SubSeq(r.at, Len(<<i>>) + 1, Len(r.at)))
  BY DEF Below
<1>2. r \in reports /\ SubSeq(r.at, 1, 1) = <<i>>
  BY <1>0, <1>1 DEF Under
<1>3. Parsed
  BY DoneReports
<1>4. PICK t : Due(t) /\ r \in Found(t)
  BY <1>2, DoneReports
<1>5. Fitting(t) /\ Placed(t)
  BY <1>3, <1>4, DueFits, DueIsPlaced
<1>6. t \notin IndexTasks
  <2> SUFFICES ASSUME t \in IndexTasks  PROVE FALSE
    OBVIOUS
  <2>1. t.do \in {"add_uses", "globals", "add_texts", "texts"}
    BY DEF IndexTasks, Elements, EveryFile
  <2> QED
    BY <1>4, <2>1 DEF Found
<1>7. PICK m \in Nat, p \in Seq(Nat) : StandsAt(t.at, m, p)
  BY <1>5, <1>6 DEF Placed, Rooted, StandsAt
<1>8. PICK s \in Seq(Nat) : r.at = t.at \o s
  BY <1>3, <1>4, <1>5, <1>6, FoundBelow
<1>9. PICK q \in Seq(Nat) : StandsAt(r.at, m, q)
  <2>1. <<m>> \in Seq(Nat)
    OBVIOUS
  <2>2. r.at = <<m>> \o (p \o s) /\ p \o s \in Seq(Nat)
    BY <1>7, <1>8, <2>1, StepsCompose DEF StandsAt
  <2> QED
    BY <2>2 DEF StandsAt
<1>10. SubSeq(r.at, 1, 1) = <<m>> /\ SubSeq(r.at, 2, Len(r.at)) = q
  BY <1>9, RestOfPlace
<1>11. m = i
  BY <1>2, <1>10
<1>12. x = Note(r.code, q)
  BY <1>0, <1>1, <1>10
<1> QED
  BY <1>4, <1>6, <1>7, <1>9, <1>11, <1>12 DEF FoundAt

\* An object written short is told what it is told written long, and no more
\* is told the long one than what the form `object` says of its keys.
THEOREM SpellingsDoAgree == BlocksSpec => []SpellingsAgree
<1>1. Going => SpellingsAgree
  <2> SUFFICES ASSUME Going, Done, NEW i \in DOMAIN file, NEW j \in DOMAIN file, Spelled(i, j)
               PROVE  /\ Below(<<i>>) \subseteq Below(<<j>>)
                      /\ \A r \in Below(<<j>>) \ Below(<<i>>) :
                            r.at = <<>> \/ HasKey(forms["object"], file[j].value.body[r.at[1]].key)
    BY DEF SpellingsAgree, Spelled
  <2>0. Parsed /\ \A r : r \in reports <=> \E t : Due(t) /\ r \in Found(t)
    BY DoneReports
  <2>1. i \in Nat /\ j \in Nat
    BY <2>0, SpelledIs
  <2>2. ASSUME NEW x \in Below(<<i>>)  PROVE x \in Below(<<j>>)
    <3>1. PICK t : \E q \in Seq(Nat) : FoundAt(x, i, t, q)
      BY <2>1, BelowIsFound
    <3>2. PICK q \in Seq(Nat) : FoundAt(x, i, t, q)
      BY <3>1
    <3>3. PICK p \in Seq(Nat) : StandsAt(t.at, i, p)
      BY <3>2 DEF FoundAt
    <3>4. PICK r \in Found(t) : StandsAt(r.at, i, q) /\ x = Note(r.code, q)
      BY <3>2 DEF FoundAt
    <3>5. Due(t) /\ t \notin IndexTasks
      BY <3>2 DEF FoundAt
    <3>6. ShortFollows(t, i, j)
      BY <2>0, <3>5, ShortFollowed
    <3>7. t # TopOf(i)
      BY <2>0, <3>4, SpelledTops
    <3>8. Twin(t, j, p)
      BY <3>3, <3>5, <3>6, <3>7 DEF ShortFollows
    <3>9. PICK u, place : Due(u) /\ Note(r.code, place) \in Found(u) /\ StandsAt(place, j, q)
      BY <2>0, <2>1, <3>3, <3>4, <3>5, <3>8, TwinsFind
    <3>10. Note(r.code, place) \in reports
      BY <2>0, <3>9
    <3> QED
      BY <2>1, <3>4, <3>9, <3>10, NotesBelow
  <2>3. ASSUME NEW x \in Below(<<j>>), x \notin Below(<<i>>)
        PROVE  x.at = <<>> \/ HasKey(forms["object"], file[j].value.body[x.at[1]].key)
    <3>1. PICK t : \E q \in Seq(Nat) : FoundAt(x, j, t, q)
      BY <2>1, BelowIsFound
    <3>2. PICK q \in Seq(Nat) : FoundAt(x, j, t, q)
      BY <3>1
    <3>3. PICK p \in Seq(Nat) : StandsAt(t.at, j, p)
      BY <3>2 DEF FoundAt
    <3>4. PICK r \in Found(t) : StandsAt(r.at, j, q) /\ x = Note(r.code, q)
      BY <3>2 DEF FoundAt
    <3>5. Due(t) /\ t \notin IndexTasks
      BY <3>2 DEF FoundAt
    <3>6. LongFollows(t, i, j)
      BY <2>0, <3>5, LongFollowed
    <3>7. t # TopOf(j)
      BY <2>0, <3>4, SpelledTops
    <3>8. CASE Twin(t, i, p)
      <4>1. PICK u, place : Due(u) /\ Note(r.code, place) \in Found(u) /\ StandsAt(place, i, q)
        BY <2>0, <2>1, <3>3, <3>4, <3>5, <3>8, TwinsFind
      <4>2. Note(r.code, place) \in reports
        BY <2>0, <4>1
      <4>3. x \in Below(<<i>>)
        BY <2>1, <3>4, <4>1, <4>2, NotesBelow
      <4> QED
        BY <2>3, <4>3
    <3>9. CASE OfTheFormObject(t, p, j)
      <4>1. q = <<>> \/ HasKey(forms["object"], file[j].value.body[q[1]].key)
        BY <2>0, <2>1, <3>3, <3>4, <3>5, <3>9, FormObjectReports
      <4> QED
        BY <3>4, <4>1 DEF Note
    <3> QED
      BY <3>3, <3>5, <3>6, <3>7, <3>8, <3>9 DEF LongFollows
  <2> QED
    BY <2>2, <2>3
<1> QED
  BY <1>1, GoesOn, PTL

-----------------------------------------------------------------------------
(* What calls what *)

\* A value that a task goes on to, at the n-th statement of the block it
\* looks into, and the type it is checked against.
GoesOnTo(t, n, v, type) ==
  \/ /\ t.do = "block" /\ n \in TypedIn(t.block, forms[t.form])
     /\ v = t.block.body[n].value
     /\ type = Expected(t.block, FindKey(forms[t.form], t.block.body[n].key))
  \/ /\ t.do = "value" /\ Records(t) /\ IsMap(SlotType(t))
     /\ n \in DOMAIN t.value.body /\ t.value.body[n].value # Nothing
     /\ v = t.value.body[n].value
     /\ type = SlotType(t).args[2]
  \/ /\ t.do = "instance" /\ n \in DOMAIN t.block.body /\ t.block.body[n].value # Nothing
     /\ v = t.block.body[n].value
     /\ type = ResolveProperty(t.block.body[n].key, LocalPropDefs(t.block), t.class)
     /\ type # Nothing

\* A task that checks a block against a form, and the form.
LooksInto(t, v, form) ==
  \/ /\ t.do = "top" /\ t.statement.key \in DOMAIN forms /\ forms[t.statement.key].top_level
     /\ IsBlock(t.statement.value) /\ v = t.statement.value /\ form = t.statement.key
  \/ /\ t.do = "value" /\ Records(t) /\ IsRecord(t.value)
     /\ OfForm(SlotType(t)) /\ SlotType(t).args[1].name \in DOMAIN forms
     /\ v = t.value /\ form = SlotType(t).args[1].name

\* A task that checks a statement as an object: no form has its name.
MakesAnObject(t) == t.do = "top" /\ Instantiated(t.statement) /\ t.statement.key \notin DOMAIN forms \ {"object"}

InstanceTask(s, at) == [do |-> "instance", at |-> at, block |-> s.value, class |-> ReadObjectClass(s)]
BlockTask(v, form, at) == [do |-> "block", at |-> at, block |-> v, form |-> form]

\* The calls of values, of blocks and of objects, whatever the task.
CallsOfBlocksAre(t) ==
  /\ \A n, v, type : GoesOnTo(t, n, v, type) => ValueTask(v, type, Append(t.at, n)) \in Elements(Calls(t))
  /\ \A v, form : LooksInto(t, v, form) => BlockTask(v, form, t.at) \in Elements(Calls(t))
  /\ \A c \in Elements(Calls(t)) :
       /\ c.do = "value" => \E n, v, type : GoesOnTo(t, n, v, type) /\ c = ValueTask(v, type, Append(t.at, n))
       /\ c.do = "block" => \E v, form : LooksInto(t, v, form) /\ c = BlockTask(v, form, t.at)
       /\ c.do = "instance" => MakesAnObject(t) /\ c = InstanceTask(t.statement, t.at)

LEMMA NamesOfBlocks ==
  /\ \A type : ~(IsMap(type) /\ OfForm(type))
  /\ \A v : Filled(v) /\ v.values = <<>> => IsRecord(v)
BY DEF IsMap, OfForm, Filled, IsEmpty, IsRecord

LEMMA TopCallsAre ==
  ASSUME NEW t, t.do = "top"
  PROVE  CallsOfBlocksAre(t)
<1> DEFINE s == t.statement
           b == BlockTask(s.value, s.key, t.at)
           c == InstanceTask(s, t.at)
           more == IF s.key = "object" THEN Instance(s, t.at) ELSE <<>>
<1>1. IsList(Instance(s, t.at)) /\ \A x \in Elements(Instance(s, t.at)) : x = c /\ Instantiated(s)
  BY LoneList, NoList DEF Instance, InstanceTask
<1>2. IsList(more) /\ \A x \in Elements(more) : x = c /\ Instantiated(s) /\ s.key = "object"
  BY <1>1, NoList
<1>3. IsList(<<b>>) /\ Elements(<<b>>) = {b} /\ b.do = "block" /\ c.do = "instance"
  BY LoneList DEF BlockTask, InstanceTask
<1>4. Calls(t) = TopCalls(s, t.at)
  BY DEF Calls
<1>5. ~\E n, v, type : GoesOnTo(t, n, v, type)
  BY DEF GoesOnTo
<1>6. \A v, form : LooksInto(t, v, form) <=>
         /\ s.key \in DOMAIN forms /\ forms[s.key].top_level /\ IsBlock(s.value)
         /\ v = s.value /\ form = s.key
  BY DEF LooksInto
<1>7. CASE s.key \in DOMAIN forms /\ forms[s.key].top_level /\ IsBlock(s.value)
  <2>1. Calls(t) = <<b>> \o more
    BY <1>4, <1>7 DEF TopCalls, BlockTask
  <2> HIDE DEF b, c, more
  <2>2. Elements(<<b>> \o more) = Elements(<<b>>) \cup Elements(more)
    BY <1>2, <1>3, ElementsOfJoin
  <2>3. b \in Elements(Calls(t))
    BY <1>3, <2>1, <2>2
  <2>4. \A x \in Elements(Calls(t)) : x = b \/ (x = c /\ MakesAnObject(t))
    BY <1>2, <1>3, <2>1, <2>2 DEF MakesAnObject
  <2>5. \A x \in Elements(Calls(t)) : /\ x.do # "value" /\ (x.do = "block" => x = b)
                                      /\ x.do = "instance" => MakesAnObject(t) /\ x = c
    BY <1>3, <2>4
  <2> QED
    BY <1>5, <1>6, <1>7, <2>3, <2>5 DEF CallsOfBlocksAre, b, c
<1>8. CASE ~(s.key \in DOMAIN forms /\ forms[s.key].top_level /\ IsBlock(s.value))
  <2>1. Calls(t) = <<>> \/ (Calls(t) = Instance(s, t.at) /\ s.key \notin DOMAIN forms)
    BY <1>4, <1>8 DEF TopCalls
  <2> HIDE DEF c
  <2>2. \A x \in Elements(Calls(t)) : x = c /\ MakesAnObject(t)
    BY <1>1, <2>1, NoList DEF MakesAnObject
  <2>3. \A x \in Elements(Calls(t)) : x.do # "value" /\ x.do # "block"
    BY <1>3, <2>2
  <2> QED
    BY <1>5, <1>6, <1>8, <2>2, <2>3 DEF CallsOfBlocksAre, c
<1> QED
  BY <1>7, <1>8

LEMMA BlockCallsAre ==
  ASSUME IsFile(file), NEW t, t.do = "block", Fitting(t)
  PROVE  CallsOfBlocksAre(t)
<1> DEFINE types == [i \in TypedIn(t.block, forms[t.form]) |-> Expected(t.block, FindKey(forms[t.form], t.block.body[i].key))]
           values == ValueTasks(t.block, types, t.at)
           close == [do |-> "close", at |-> t.at, block |-> t.block, form |-> t.form]
<1>0. t.block \in Written /\ t.block.is = "block"
  BY DEF Fitting
<1>1. /\ DOMAIN types = TypedIn(t.block, forms[t.form])
      /\ \A k \in DOMAIN types : types[k] = Expected(t.block, FindKey(forms[t.form], t.block.body[k].key))
      /\ DOMAIN types \subseteq DOMAIN t.block.body
  BY DEF TypedIn
<1>2. Calls(t) = Append(values, close)
  BY DEF BlockCalls, Calls
<1>3. close.do = "close"
  OBVIOUS
<1>4. \A v, form : ~LooksInto(t, v, form)
  BY DEF LooksInto
<1>5. \A n, v, type : GoesOnTo(t, n, v, type) <=>
         n \in DOMAIN types /\ v = t.block.body[n].value /\ type = types[n]
  BY <1>1 DEF GoesOnTo
<1> HIDE DEF types, close
<1>6. /\ IsList(values)
      /\ Elements(values) = {ValueTask(t.block.body[k].value, types[k], Append(t.at, k)) : k \in DOMAIN types}
  BY <1>0, <1>1, InBlock, ValueTasksAre
<1> HIDE DEF values
<1>7. Elements(Calls(t)) = Elements(values) \cup {close}
  <2>1. IsList(<<close>>) /\ Elements(<<close>>) = {close}
    BY LoneList
  <2>2. Calls(t) = values \o <<close>>
    BY <1>2, <1>6, AppendIsJoin
  <2> QED
    BY <1>6, <2>1, <2>2, ElementsOfJoin
<1>8. \A n, v, type : GoesOnTo(t, n, v, type) => ValueTask(v, type, Append(t.at, n)) \in Elements(Calls(t))
  BY <1>5, <1>6, <1>7
<1>9. ASSUME NEW c \in Elements(Calls(t)), c.do = "value"
      PROVE  \E n, v, type : GoesOnTo(t, n, v, type) /\ c = ValueTask(v, type, Append(t.at, n))
  BY <1>3, <1>5, <1>6, <1>7, <1>9
<1>10. \A c \in Elements(Calls(t)) : c.do \in {"value", "close"}
  BY <1>3, <1>6, <1>7 DEF ValueTask
<1> QED
  BY <1>4, <1>8, <1>9, <1>10 DEF CallsOfBlocksAre

LEMMA RecordCallsAre ==
  ASSUME IsFile(file), NEW t, t.do = "value", Fitting(t)
  PROVE  CallsOfBlocksAre(t)
<1> DEFINE type == SlotType(t)
           v == t.value
<1>1. CASE ~Records(t)
  <2>1. Calls(t) = <<>>
    BY <1>1 DEF Calls
  <2>2. ~(\E n, w, ty : GoesOnTo(t, n, w, ty)) /\ ~(\E w, form : LooksInto(t, w, form))
    BY <1>1 DEF GoesOnTo, LooksInto
  <2> QED
    BY <2>1, <2>2, NoList DEF CallsOfBlocksAre
<1>2. CASE Records(t) /\ IsRecord(v) /\ IsMap(type)
  <2> DEFINE types == [i \in {i \in DOMAIN v.body : v.body[i].value # Nothing} |-> type.args[2]]
  <2>0. v \in Written /\ v.is = "block"
    BY <1>2 DEF Fitting, Records, Filled, IsBlock
  <2>1. /\ DOMAIN types = {i \in DOMAIN v.body : v.body[i].value # Nothing}
        /\ \A k \in DOMAIN types : types[k] = type.args[2]
    OBVIOUS
  <2>2. Calls(t) = ValueTasks(v, types, t.at)
    BY <1>2 DEF Calls, RecordCalls
  <2>3. \A n, w, ty : GoesOnTo(t, n, w, ty) <=> n \in DOMAIN types /\ w = v.body[n].value /\ ty = types[n]
    BY <1>2, <2>1 DEF GoesOnTo
  <2>4. \A w, form : ~LooksInto(t, w, form)
    BY <1>2, NamesOfBlocks DEF LooksInto
  <2> HIDE DEF types
  <2>5. Elements(Calls(t)) = {ValueTask(v.body[k].value, types[k], Append(t.at, k)) : k \in DOMAIN types}
    BY <2>0, <2>1, <2>2, InBlock, ValueTasksAre
  <2>6. \A c \in Elements(Calls(t)) : c.do = "value"
    BY <2>5 DEF ValueTask
  <2> QED
    BY <2>3, <2>4, <2>5, <2>6 DEF CallsOfBlocksAre
<1>3. CASE Records(t) /\ IsRecord(v) /\ OfForm(type) /\ type.args[1].name \in DOMAIN forms
  <2> DEFINE b == BlockTask(v, type.args[1].name, t.at)
  <2>1. Calls(t) = <<b>>
    BY <1>3, NamesOfBlocks DEF Calls, RecordCalls, BlockTask
  <2>2. Elements(Calls(t)) = {b}
    <3> HIDE DEF b
    <3> QED
      BY <2>1, LoneList
  <2>3. \A n, w, ty : ~GoesOnTo(t, n, w, ty)
    BY <1>3, NamesOfBlocks DEF GoesOnTo
  <2>4. \A w, form : LooksInto(t, w, form) <=> w = v /\ form = type.args[1].name
    BY <1>3 DEF LooksInto
  <2>5. b.do = "block"
    BY DEF BlockTask
  <2> QED
    BY <2>2, <2>3, <2>4, <2>5 DEF CallsOfBlocksAre
<1>4. CASE Records(t) /\ ~(IsRecord(v) /\ (IsMap(type) \/ (OfForm(type) /\ type.args[1].name \in DOMAIN forms)))
  <2>1. Calls(t) = <<>>
    BY <1>4 DEF Calls, RecordCalls
  <2>2. ~\E w, form : LooksInto(t, w, form)
    BY <1>4 DEF LooksInto
  <2>3. ~\E n, w, ty : GoesOnTo(t, n, w, ty)
    <3> SUFFICES ASSUME IsMap(type), NEW n \in DOMAIN v.body  PROVE FALSE
      BY DEF GoesOnTo
    <3>1. v.body # <<>>
      BY NoList DEF Elements
    <3> QED
      BY <1>4, <3>1 DEF IsRecord
  <2> QED
    BY <2>1, <2>2, <2>3, NoList DEF CallsOfBlocksAre
<1> QED
  BY <1>1, <1>2, <1>3, <1>4

LEMMA InstanceCallsAre ==
  ASSUME IsFile(file), NEW t, t.do = "instance", Fitting(t)
  PROVE  CallsOfBlocksAre(t)
<1> DEFINE v == t.block
           type(i) == ResolveProperty(v.body[i].key, LocalPropDefs(v), t.class)
           types == [i \in {i \in DOMAIN v.body : v.body[i].value # Nothing /\ type(i) # Nothing} |-> type(i)]
<1>0. v \in Written /\ v.is = "block"
  BY DEF Fitting
<1>1. /\ DOMAIN types = {i \in DOMAIN v.body : v.body[i].value # Nothing /\ type(i) # Nothing}
      /\ \A k \in DOMAIN types : types[k] = type(k)
  OBVIOUS
<1>2. Calls(t) = ValueTasks(v, types, t.at)
  BY DEF Calls, InstanceCalls
<1>3. \A n, w, ty : GoesOnTo(t, n, w, ty) <=> n \in DOMAIN types /\ w = v.body[n].value /\ ty = types[n]
  BY <1>1 DEF GoesOnTo
<1>4. \A w, form : ~LooksInto(t, w, form)
  BY DEF LooksInto
<1> HIDE DEF types
<1>5. Elements(Calls(t)) = {ValueTask(v.body[k].value, types[k], Append(t.at, k)) : k \in DOMAIN types}
  BY <1>0, <1>1, <1>2, InBlock, ValueTasksAre
<1>6. \A c \in Elements(Calls(t)) : c.do = "value"
  BY <1>5 DEF ValueTask
<1> QED
  BY <1>3, <1>4, <1>5, <1>6 DEF CallsOfBlocksAre

LEMMA OtherCallsAre ==
  ASSUME IsFile(file), NEW t, Fitting(t), t.do \notin {"top", "block", "value", "instance"}
  PROVE  CallsOfBlocksAre(t)
<1>1. ~(\E n, w, ty : GoesOnTo(t, n, w, ty)) /\ ~(\E w, form : LooksInto(t, w, form))
  BY DEF GoesOnTo, LooksInto
<1>2. \A c \in Elements(Calls(t)) : c.do \in {"annotations", "type"}
  <2>1. CASE t.do = "annotations"
    <3>1. Calls(t) = VisitCalls(t)
      BY <2>1 DEF Calls
    <3>2. \A i \in DOMAIN VisitCalls(t) : VisitCalls(t)[i].do = "annotations"
      BY NoList DEF VisitCalls, Elements
    <3> QED
      BY <3>1, <3>2 DEF Elements
  <2>2. CASE t.do \in {"types", "type"}
    <3>1. \A types : \A c \in Elements(TypeTask(types)) : c.do = "type"
      BY LoneList, NoList DEF TypeTask
    <3> QED
      BY <2>2, <3>1 DEF Calls
  <2>3. CASE t.do \notin {"annotations", "types", "type"}
    <3>1. Calls(t) = <<>>
      BY <2>3 DEF Calls
    <3> QED
      BY <3>1, NoList
  <2> QED
    BY <2>1, <2>2, <2>3
<1> QED
  BY <1>1, <1>2 DEF CallsOfBlocksAre

LEMMA BlocksAreCalled ==
  ASSUME Parsed, NEW t, Due(t)
  PROVE  CallsOfBlocksAre(t)
<1>1. IsFile(file) /\ Fitting(t)
  BY DueFits DEF Parsed
<1> QED
  BY <1>1, TopCallsAre, BlockCallsAre, RecordCallsAre, InstanceCallsAre, OtherCallsAre

\* What no pass over the statements begins with has been called.
LEMMA DueIsCalled ==
  ASSUME Parsed, NEW u, Due(u), u.do \in {"block", "value", "instance"}
  PROVE  \E t : Due(t) /\ u \in Elements(Calls(t))
<1>0. PICK n \in Nat \ {0} : \E d : Chained(d, n) /\ d[n] = u
  BY DEF Due
<1>1. PICK d : Chained(d, n) /\ d[n] = u
  BY <1>0
<1>2. ASSUME NEW t \in Elements(Agenda)  PROVE t.do \notin {"block", "value", "instance"}
  <2>1. \A pass : \A x \in Elements(ForEach(pass)) : x.do = pass
    BY DEF Elements, ForEach
  <2>2. \A x \in IndexTasks \cup {TypesTask} : x.do \in {"types", "add_uses", "globals", "add_texts", "texts"}
    BY DEF IndexTasks, TypesTask, Elements, EveryFile
  <2>3. t.do \in {"annotations", "top", "placement", "properties"} \/ t \in IndexTasks \cup {TypesTask}
    BY <1>2, <2>1, AgendaIs
  <2> QED
    BY <2>2, <2>3
<1>3. n # 1
  BY <1>1, <1>2 DEF Chained
<1>4. n - 1 \in 1..(n - 1) /\ n - 1 \in 1..n /\ (n - 1) + 1 = n
  BY <1>3
<1>5. u \in Elements(Calls(d[n - 1]))
  BY <1>1, <1>4 DEF Chained
<1>6. Due(d[n - 1])
  BY <1>1, <1>4, LinkIsDue
<1> QED
  BY <1>5, <1>6

\* An object is called from its statement, unless a form has its name.
LEMMA DueInstance ==
  ASSUME Parsed, NEW u, Due(u), u.do = "instance"
  PROVE  \E i \in DOMAIN file : /\ file[i].key \notin DOMAIN forms \ {"object"} /\ Instantiates(i)
                                /\ u = InstanceTask(file[i], <<i>>)
<1>1. PICK t : Due(t) /\ u \in Elements(Calls(t))
  BY DueIsCalled
<1>2. MakesAnObject(t) /\ u = InstanceTask(t.statement, t.at)
  BY <1>1, BlocksAreCalled DEF CallsOfBlocksAre
<1>3. PICK i \in DOMAIN file : t = [do |-> t.do, at |-> <<i>>, statement |-> file[i], top |-> TRUE]
  BY <1>1, <1>2, OfAStatement DEF OfStatements, MakesAnObject
<1>4. t.at = <<i>> /\ t.statement = file[i]
  BY <1>3
<1> QED
  BY <1>2, <1>4 DEF MakesAnObject, Instantiates

\* A place one step below another.
StepFrom(b, a, n) == b = Append(a, n)

LEMMA StepsAre ==
  ASSUME NEW a \in Seq(Nat), NEW n \in Nat, NEW b, StepFrom(b, a, n)
  PROVE  b \in Seq(Nat) /\ Len(b) = Len(a) + 1 /\ b[Len(a) + 1] = n /\ \A k \in 1..Len(a) : b[k] = a[k]
BY DEF StepFrom

LEMMA StepsDiffer ==
  ASSUME NEW a \in Seq(Nat), NEW b \in Seq(Nat), NEW m \in Nat, NEW n \in Nat, NEW c, StepFrom(c, a, m), StepFrom(c, b, n)
  PROVE  a = b /\ m = n
<1>1. /\ Len(c) = Len(a) + 1 /\ c[Len(a) + 1] = m /\ \A k \in 1..Len(a) : c[k] = a[k]
      /\ Len(c) = Len(b) + 1 /\ c[Len(b) + 1] = n /\ \A k \in 1..Len(b) : c[k] = b[k]
  BY StepsAre
<1>2. Len(a) \in Nat /\ Len(b) \in Nat
  OBVIOUS
<1>3. Len(a) = Len(b)
  BY <1>1, <1>2
<1>4. \A k \in 1..Len(a) : a[k] = b[k]
  BY <1>1, <1>3
<1>5. a = [k \in 1..Len(a) |-> a[k]] /\ b = [k \in 1..Len(b) |-> b[k]]
  OBVIOUS
<1>6. [k \in 1..Len(a) |-> a[k]] = [k \in 1..Len(b) |-> b[k]]
  BY <1>3, <1>4
<1>7. m = n
  BY <1>1, <1>3
<1> QED
  BY <1>5, <1>6, <1>7, Zenon

LEMMA LonePlaces == \A i, j : Len(<<i>>) = 1 /\ (<<i>> = <<j>> => i = j)
OBVIOUS

LEMMA DuePlaces ==
  ASSUME Parsed, NEW t, Due(t), t.do \in {"top", "block", "value", "instance"}
  PROVE  t.at \in Seq(Nat) /\ Len(t.at) >= 1
<1>1. t \notin IndexTasks
  BY DEF IndexTasks, Elements, EveryFile
<1>2. PICK m \in Nat, p \in Seq(Nat) : t.at = <<m>> \o p
  BY <1>1, DueIsPlaced DEF Placed, Rooted
<1>3. PICK a : a = <<m>> \o p
  OBVIOUS
<1>4. a \in Seq(Nat) /\ Len(a) = 1 + Len(p) /\ Len(p) \in Nat
  <2>1. <<m>> \in Seq(Nat) /\ Len(<<m>>) = 1
    OBVIOUS
  <2> QED
    BY <1>3, <2>1
<1> QED
  BY <1>2, <1>3, <1>4

\* The statement that a task goes on to is one of a block.
LEMMA StepsAreNumbers ==
  ASSUME Parsed, NEW t, Due(t), NEW n, NEW v, NEW type, GoesOnTo(t, n, v, type)
  PROVE  n \in Nat /\ t.at \in Seq(Nat) /\ Len(t.at) >= 1
<1>0. IsFile(file) /\ Fitting(t)
  BY DueFits DEF Parsed
<1>1. PICK b \in Written : b.is = "block" /\ n \in DOMAIN b.body
  <2>1. CASE t.do = "value"
    BY <1>0, <2>1 DEF GoesOnTo, Fitting, Records, Filled, IsBlock
  <2>2. CASE t.do # "value"
    BY <1>0, <2>2 DEF GoesOnTo, Fitting, TypedIn
  <2> QED
    BY <2>1, <2>2
<1>2. n \in Nat
  BY <1>0, <1>1, InBlock, ListHas
<1>3. t.do \in {"block", "value", "instance"}
  BY DEF GoesOnTo
<1> QED
  BY <1>2, <1>3, DuePlaces

LEMMA DueValue ==
  ASSUME Parsed, NEW u, Due(u), u.do = "value"
  PROVE  /\ \E t, n, v, type : /\ Due(t) /\ t.at \in Seq(Nat) /\ n \in Nat /\ StepFrom(u.at, t.at, n)
                               /\ GoesOnTo(t, n, v, type) /\ u = ValueTask(v, type, Append(t.at, n))
         /\ u.at \in Seq(Nat) /\ Len(u.at) >= 2 /\ Len(u.at) \in Nat
<1>1. PICK t : Due(t) /\ u \in Elements(Calls(t))
  BY DueIsCalled
<1>2. PICK n, v, type : GoesOnTo(t, n, v, type) /\ u = ValueTask(v, type, Append(t.at, n))
  BY <1>1, BlocksAreCalled DEF CallsOfBlocksAre
<1>3. n \in Nat /\ t.at \in Seq(Nat) /\ Len(t.at) >= 1
  BY <1>1, <1>2, StepsAreNumbers
<1>4. StepFrom(u.at, t.at, n)
  BY <1>2 DEF ValueTask, StepFrom
<1>5. u.at \in Seq(Nat) /\ Len(u.at) = Len(t.at) + 1 /\ Len(t.at) \in Nat
  BY <1>3, <1>4, StepsAre
<1>6. Len(u.at) >= 2 /\ Len(u.at) \in Nat
  BY <1>3, <1>5
<1> QED
  BY <1>1, <1>2, <1>3, <1>4, <1>5, <1>6

LEMMA DueBlock ==
  ASSUME Parsed, NEW u, Due(u), u.do = "block"
  PROVE  \E t, v, form : Due(t) /\ LooksInto(t, v, form) /\ u = BlockTask(v, form, t.at) /\ u.at = t.at
<1>1. PICK t : Due(t) /\ u \in Elements(Calls(t))
  BY DueIsCalled
<1>2. PICK v, form : LooksInto(t, v, form) /\ u = BlockTask(v, form, t.at)
  BY <1>1, BlocksAreCalled DEF CallsOfBlocksAre
<1> QED
  BY <1>1, <1>2 DEF BlockTask

LEMMA DueTop ==
  ASSUME Parsed, NEW t, Due(t), t.do = "top"
  PROVE  \E i \in DOMAIN file : i \in Nat /\ t = TopOf(i) /\ t.at = <<i>> /\ t.statement = file[i]
<1>1. PICK i \in DOMAIN file : t = [do |-> t.do, at |-> <<i>>, statement |-> file[i], top |-> TRUE]
  BY OfAStatement DEF OfStatements
<1>2. i \in Nat
  BY ListHas DEF Parsed, IsFile
<1>3. t.at = <<i>> /\ t.statement = file[i]
  BY <1>1
<1> QED
  BY <1>1, <1>2, <1>3 DEF TopOf

-----------------------------------------------------------------------------
(* One task at a place *)

\* No key of the form `object` is a property of an object of the file, so no
\* value in one is both the form's and the class's.
KeysApart ==
  \A i \in DOMAIN file :
    file[i].key = "object" /\ "object" \in DOMAIN forms /\ Instantiates(i) =>
      LET b == file[i].value
      IN  \A j \in TypedIn(b, forms["object"]) :
             ResolveProperty(b.body[j].key, LocalPropDefs(b), ReadObjectClass(file[i])) = Nothing

\* Whatever is due of this pass at this place is one task.
OneAt(pass, place) ==
  \A u, w : Due(u) /\ Due(w) /\ u.do = pass /\ w.do = pass /\ u.at = place /\ w.at = place => u = w

LEMMA OneInstanceAt ==
  ASSUME Parsed, NEW place
  PROVE  OneAt("instance", place)
<1> SUFFICES ASSUME NEW u, NEW w, Due(u), Due(w), u.do = "instance", w.do = "instance", u.at = place, w.at = place
             PROVE  u = w
  BY DEF OneAt
<1>1. PICK i \in DOMAIN file : u = InstanceTask(file[i], <<i>>)
  BY DueInstance
<1>2. PICK j \in DOMAIN file : w = InstanceTask(file[j], <<j>>)
  BY DueInstance
<1>3. u.at = <<i>> /\ w.at = <<j>>
  BY <1>1, <1>2 DEF InstanceTask
<1>4. i = j
  BY <1>3
<1> QED
  BY <1>1, <1>2, <1>4

\* Nothing is checked as a value where a statement is.
LEMMA TopsAreAbove ==
  ASSUME Parsed, NEW t, Due(t), t.do \in {"top", "instance"}, NEW u, Due(u), u.do = "value"
  PROVE  t.at # u.at
<1>1. Len(t.at) = 1
  <2>1. CASE t.do = "top"
    <3>1. PICK i \in DOMAIN file : t.at = <<i>>
      BY <2>1, DueTop
    <3> QED
      BY <3>1, LonePlaces, Zenon
  <2>2. CASE t.do = "instance"
    <3>1. PICK i \in DOMAIN file : t = InstanceTask(file[i], <<i>>)
      BY <2>2, DueInstance
    <3>2. t.at = <<i>>
      BY <3>1 DEF InstanceTask
    <3> QED
      BY <3>2, LonePlaces, Zenon
  <2> QED
    BY <2>1, <2>2
<1>2. Len(u.at) >= 2 /\ Len(u.at) \in Nat
  BY DueValue
<1>3. \A n \in Nat : n >= 2 => n # 1
  OBVIOUS
<1>4. Len(t.at) # Len(u.at)
  BY <1>1, <1>2, <1>3, Zenon
<1> QED
  BY <1>4

\* A block is looked into once where its value is checked once.
LEMMA OneBlockAt ==
  ASSUME Parsed, NEW place, OneAt("value", place)
  PROVE  OneAt("block", place)
<1> SUFFICES ASSUME NEW u, NEW w, Due(u), Due(w), u.do = "block", w.do = "block", u.at = place, w.at = place
             PROVE  u = w
  BY DEF OneAt
<1>1. PICK t, v, form : Due(t) /\ LooksInto(t, v, form) /\ u = BlockTask(v, form, t.at) /\ u.at = t.at
  BY DueBlock
<1>2. PICK x, y, g : Due(x) /\ LooksInto(x, y, g) /\ w = BlockTask(y, g, x.at) /\ w.at = x.at
  BY DueBlock
<1>3. t.do \in {"top", "value"} /\ x.do \in {"top", "value"} /\ t.at = x.at /\ t.at = place
  BY <1>1, <1>2 DEF LooksInto
<1>4. t = x
  <2>1. CASE t.do = "value" /\ x.do = "value"
    BY <1>1, <1>2, <1>3, <2>1 DEF OneAt
  <2>2. CASE t.do = "top" /\ x.do = "top"
    <3>1. PICK i \in DOMAIN file : t = TopOf(i) /\ t.at = <<i>>
      BY <1>1, <2>2, DueTop
    <3>2. PICK j \in DOMAIN file : x = TopOf(j) /\ x.at = <<j>>
      BY <1>2, <2>2, DueTop
    <3>3. <<i>> = <<j>>
      BY <1>3, <3>1, <3>2, Zenon
    <3>4. i = j
      BY <3>3, LonePlaces
    <3> QED
      BY <3>1, <3>2, <3>4
  <2>3. ~(t.do = "top" /\ x.do = "value") /\ ~(t.do = "value" /\ x.do = "top")
    BY <1>1, <1>2, <1>3, TopsAreAbove
  <2> QED
    BY <1>3, <2>1, <2>2, <2>3
<1>5. v = y /\ form = g
  BY <1>1, <1>2, <1>4 DEF LooksInto
<1> QED
  BY <1>1, <1>2, <1>4, <1>5

\* Two tasks at one place that go on to a value in it are one task.
LEMMA OneGoesOn ==
  ASSUME Parsed, KeysApart, NEW place, OneAt("value", place), NEW t, NEW x, Due(t), Due(x), t.at = place, x.at = place,
         NEW n, NEW v, NEW type, GoesOnTo(t, n, v, type), NEW w, NEW other, GoesOnTo(x, n, w, other)
  PROVE  t = x /\ v = w /\ type = other
<1>1. OneAt("block", place) /\ OneAt("instance", place)
  BY OneBlockAt, OneInstanceAt
<1>2. t.do \in {"block", "value", "instance"} /\ x.do \in {"block", "value", "instance"}
  BY DEF GoesOnTo
<1>3. CASE t.do = x.do
  <2>1. t = x
    BY <1>1, <1>2, <1>3 DEF OneAt
  <2> QED
    BY <1>2, <2>1 DEF GoesOnTo
<1>5. ASSUME NEW a, NEW b, Due(a), Due(b), a.do = "block", b.do = "value", a.at = place, b.at = place,
             NEW y, NEW z, GoesOnTo(b, n, y, z)
      PROVE  FALSE
  <2>1. PICK c, u, form : Due(c) /\ LooksInto(c, u, form) /\ c.at = place
    BY <1>5, DueBlock
  <2>2. c.do # "top"
    BY <1>5, <2>1, TopsAreAbove
  <2>3. c.do = "value" /\ OfForm(SlotType(c))
    BY <2>1, <2>2 DEF LooksInto
  <2>4. c = b
    BY <1>5, <2>1, <2>3 DEF OneAt
  <2>5. IsMap(SlotType(b))
    BY <1>5 DEF GoesOnTo
  <2> QED
    BY <2>3, <2>4, <2>5, NamesOfBlocks
<1>6. ASSUME NEW b, NEW c, Due(b), Due(c), b.do = "value", c.do = "instance", b.at = place, c.at = place
      PROVE  FALSE
  BY <1>6, TopsAreAbove
<1>7. ASSUME NEW a, NEW c, Due(a), Due(c), a.do = "block", c.do = "instance", a.at = place, c.at = place,
             NEW y, NEW z, GoesOnTo(a, n, y, z), NEW p, NEW q, GoesOnTo(c, n, p, q)
      PROVE  FALSE
  <2>1. PICK i \in DOMAIN file : /\ file[i].key \notin DOMAIN forms \ {"object"} /\ Instantiates(i)
                                 /\ c = InstanceTask(file[i], <<i>>)
    BY <1>7, DueInstance
  <2>2. c.at = <<i>> /\ c.block = file[i].value /\ c.class = ReadObjectClass(file[i])
    BY <2>1 DEF InstanceTask
  <2>3. PICK d, u, form : Due(d) /\ LooksInto(d, u, form) /\ a = BlockTask(u, form, d.at) /\ d.at = place
    BY <1>7, DueBlock
  <2>4. d.do = "top"
    <3>1. d.do # "value"
      BY <1>7, <2>3, TopsAreAbove
    <3> QED
      BY <2>3, <3>1 DEF LooksInto
  <2>5. d.statement = file[i]
    BY <1>7, <2>2, <2>3, <2>4, DueTop
  <2>6. u = file[i].value /\ form = file[i].key /\ form \in DOMAIN forms
    BY <2>3, <2>4, <2>5 DEF LooksInto
  <2>7. a.block = file[i].value /\ a.form = "object" /\ file[i].key = "object" /\ "object" \in DOMAIN forms
    BY <2>1, <2>3, <2>6 DEF BlockTask
  <2>8. n \in TypedIn(file[i].value, forms["object"])
    BY <1>7, <2>7 DEF GoesOnTo
  <2>9. ResolveProperty(file[i].value.body[n].key, LocalPropDefs(file[i].value), ReadObjectClass(file[i])) # Nothing
    BY <1>7, <2>2 DEF GoesOnTo
  <2> QED
    BY <2>1, <2>7, <2>8, <2>9 DEF KeysApart
<1> QED
  BY <1>2, <1>3, <1>5, <1>6, <1>7

\* Each value is checked once, against one type.
LEMMA OneValueAt ==
  ASSUME Parsed, KeysApart, NEW place
  PROVE  OneAt("value", place)
<1> DEFINE Clash(a, k) == Len(a) = k /\ ~OneAt("value", a)
           T == {k \in Nat : \E a \in Seq(Nat) : Clash(a, k)}
<1> SUFFICES ASSUME ~OneAt("value", place)  PROVE FALSE
  OBVIOUS
<1>1. place \in Seq(Nat)
  BY DueValue DEF OneAt
<1>2. T # {} /\ T \in SUBSET Nat
  BY <1>1
<1>3. PICK m \in T : \A k \in T : m <= k
  BY <1>2, NatLeast
<1>4. PICK a \in Seq(Nat) : Len(a) = m /\ ~OneAt("value", a)
  BY <1>3
<1>5. PICK u, w : Due(u) /\ Due(w) /\ u.do = "value" /\ w.do = "value" /\ u.at = a /\ w.at = a /\ u # w
  BY <1>4 DEF OneAt
<1>6. PICK t, n, v, type : /\ Due(t) /\ t.at \in Seq(Nat) /\ n \in Nat /\ StepFrom(a, t.at, n)
                           /\ GoesOnTo(t, n, v, type) /\ u = ValueTask(v, type, Append(t.at, n))
  BY <1>5, DueValue
<1>7. PICK x, k, y, other : /\ Due(x) /\ x.at \in Seq(Nat) /\ k \in Nat /\ StepFrom(a, x.at, k)
                            /\ GoesOnTo(x, k, y, other) /\ w = ValueTask(y, other, Append(x.at, k))
  BY <1>5, DueValue
<1>10. x.at = t.at /\ k = n /\ Len(a) = Len(t.at) + 1
  BY <1>6, <1>7, StepsDiffer, StepsAre
<1>11. OneAt("value", t.at)
  <2>1. Len(t.at) \in Nat /\ Len(t.at) < m
    BY <1>4, <1>6, <1>10
  <2>2. Len(t.at) \notin T
    BY <1>3, <2>1
  <2> QED
    BY <1>6, <2>1, <2>2
<1>12. v = y /\ type = other
  BY <1>6, <1>7, <1>10, <1>11, OneGoesOn
<1> QED
  BY <1>5, <1>6, <1>7, <1>10, <1>12

-----------------------------------------------------------------------------
(* Every slot is checked *)

\* A slot is an entry of a list, which is a scalar, or a task is due that
\* checks its value against its type.
Answered(slot) ==
  \/ slot.entry /\ slot.value.is = "scalar"
  \/ ~slot.entry /\ \E t : /\ Due(t) /\ t.do = "value" /\ t.at = slot.at /\ t.value = slot.value
                           /\ SlotType(t) = slot.type
  \/ ~slot.entry /\ \E form : /\ Due(BlockTask(slot.value, form, slot.at))
                              /\ slot.type = Type("block", <<Plain(form)>>)

LEMMA SlotTaskIs ==
  ASSUME NEW at, NEW v, NEW type, NEW given, Due(ValueTask(v, type, at))
  PROVE  Answered(Slot(at, v, type, given))
<1> DEFINE u == ValueTask(v, type, at)
<1>1. u.do = "value" /\ u.at = at /\ u.value = v /\ SlotType(u) = InFull(type)
  BY InFullIsResolved DEF ValueTask, SlotType
<1>2. PICK s : s = Slot(at, v, type, given)
  OBVIOUS
<1>3. s.at = at /\ s.value = v /\ s.type = InFull(type) /\ s.entry = FALSE
  BY <1>2 DEF Slot
<1> HIDE DEF u
<1>4. Answered(s)
  BY <1>1, <1>3 DEF Answered, u
<1> QED
  BY <1>2, <1>4

LEMMA FormOfSlot ==
  ASSUME Parsed, NEW slot, Answered(slot), OfForm(slot.type), slot.type.args[1].name \in DOMAIN forms,
         IsBlock(slot.value), slot.value.body # <<>>
  PROVE  Due(BlockTask(slot.value, slot.type.args[1].name, slot.at))
<1>1. ~(slot.entry /\ slot.value.is = "scalar")
  BY DEF IsBlock
<1>2. ASSUME NEW t, Due(t), t.do = "value", t.at = slot.at, t.value = slot.value, SlotType(t) = slot.type
      PROVE  Due(BlockTask(slot.value, slot.type.args[1].name, slot.at))
  <2>1. slot.type.name = "block" /\ "block" \in Builtins /\ "block" \in BlockTypes \ Collections
    BY DEF OfForm, Builtins, BlockTypes, Collections
  <2>2. ~Unjudged(t.value, SlotType(t))
    BY <1>2, <2>1 DEF Unjudged, IsWord, IsBlock
  <2>3. Records(t) /\ IsRecord(t.value)
    BY <1>2, <2>1, <2>2 DEF Records, Judging, Filled, IsEmpty, IsRecord
  <2>4. LooksInto(t, slot.value, slot.type.args[1].name)
    BY <1>2, <2>3 DEF LooksInto
  <2>5. BlockTask(slot.value, slot.type.args[1].name, t.at) \in Elements(Calls(t))
    BY <1>2, <2>4, BlocksAreCalled DEF CallsOfBlocksAre
  <2> QED
    BY <1>2, <2>5, CallsAreDue
<1>3. ASSUME NEW form, Due(BlockTask(slot.value, form, slot.at)), slot.type = Type("block", <<Plain(form)>>)
      PROVE  Due(BlockTask(slot.value, slot.type.args[1].name, slot.at))
  <2>1. slot.type.args[1].name = form
    BY <1>3 DEF Type, Plain
  <2> QED
    BY <1>3, <2>1
<1> QED
  BY <1>1, <1>2, <1>3 DEF Answered

LEMMA AnswersBelow ==
  ASSUME Parsed, NEW slot, Answered(slot), NEW below \in Inside(slot)
  PROVE  Answered(below)
<1> DEFINE v == slot.value
           t == slot.type
           under(i, w, type) == Slot(Append(slot.at, i), w, type, slot.given)
<1>0. Judged(slot) /\ IsBlock(v) /\ IsFile(file)
  BY DEF Inside, Parsed
<1>a. ~slot.entry
  BY <1>0 DEF Answered, IsBlock
<1>b. v \in Written
  <2>1. CASE \E u : Due(u) /\ u.do = "value" /\ u.value = v
    BY <2>1, DueFits DEF Fitting
  <2>2. CASE \E form : Due(BlockTask(v, form, slot.at))
    <3>1. PICK u : Due(u) /\ u.do = "block" /\ u.block = v
      BY <2>2 DEF BlockTask
    <3> QED
      BY <3>1, DueFits DEF Fitting
  <2> QED
    BY <1>a, <2>1, <2>2 DEF Answered
<1>1. CASE v.values # <<>>
  <2>1. t.name \in {"list", "set", "flags"} /\ Element(t) # Nothing
    BY <1>1 DEF Inside
  <2>2. PICK i \in DOMAIN v.values : below = Entry(under(i, v.values[i], Element(t)))
    BY <1>1, <2>1 DEF Inside
  <2>3. below.value = v.values[i] /\ below.entry = TRUE
    BY <2>2 DEF Entry, Slot
  <2>4. v.values[i].is = "scalar"
    BY <1>0, <1>b, WrittenAre DEF IsValue, IsBlock
  <2> QED
    BY <2>3, <2>4 DEF Answered
<1>2. CASE v.values = <<>> /\ t.name = "map" /\ Len(t.args) = 2
  <2>1. PICK i \in DOMAIN v.body : v.body[i].value # Nothing /\ below = under(i, v.body[i].value, t.args[2])
    BY <1>2 DEF Inside
  <2>a. \A form : t # Type("block", <<Plain(form)>>)
    BY <1>2 DEF Type
  <2>2. PICK u : Due(u) /\ u.do = "value" /\ u.at = slot.at /\ u.value = v /\ SlotType(u) = t
    BY <1>a, <2>a DEF Answered
  <2>3. v.body # <<>>
    BY <2>1, NoList DEF Elements
  <2>4. "map" \in BlockTypes \ Collections
    BY DEF BlockTypes, Collections
  <2>5. Records(u)
    BY <1>0, <1>2, <1>a, <2>2, <2>3, <2>4 DEF Records, Judging, Unjudged, Judged, Filled, IsEmpty
  <2>6. GoesOnTo(u, i, v.body[i].value, t.args[2])
    BY <1>2, <2>1, <2>2, <2>5 DEF GoesOnTo, IsMap
  <2>7. ValueTask(v.body[i].value, t.args[2], Append(u.at, i)) \in Elements(Calls(u))
    BY <2>2, <2>6, BlocksAreCalled DEF CallsOfBlocksAre
  <2>8. Due(ValueTask(v.body[i].value, t.args[2], Append(slot.at, i)))
    BY <2>2, <2>7, CallsAreDue
  <2> QED
    BY <2>1, <2>8, SlotTaskIs
<1>3. CASE v.values = <<>> /\ ~(t.name = "map" /\ Len(t.args) = 2)
  <2> DEFINE id == t.args[1].name
             key(i) == FindKey(forms[id], v.body[i].key)
  <2>1. /\ t.name = "block" /\ Len(t.args) = 1 /\ id \in DOMAIN forms
        /\ \E i \in TypedIn(v, forms[id]) :
              below = Slot(Append(slot.at, i), v.body[i].value, Expected(v, key(i)), key(i).type_of # Nothing)
    BY <1>3, Zenon DEF Inside
  <2>2. PICK i \in TypedIn(v, forms[id]) :
              below = Slot(Append(slot.at, i), v.body[i].value, Expected(v, key(i)), key(i).type_of # Nothing)
    BY <2>1
  <2>3. v.body # <<>>
    BY <2>2, NoList DEF Elements, TypedIn
  <2>4. Due(BlockTask(v, id, slot.at))
    BY <1>0, <2>1, <2>3, FormOfSlot DEF OfForm
  <2>5. PICK u : u = BlockTask(v, id, slot.at)
    OBVIOUS
  <2>6. Due(u) /\ u.do = "block" /\ u.at = slot.at /\ u.block = v /\ u.form = id
    BY <2>4, <2>5 DEF BlockTask
  <2>7. GoesOnTo(u, i, v.body[i].value, Expected(v, key(i)))
    BY <2>2, <2>6 DEF GoesOnTo
  <2>8. ValueTask(v.body[i].value, Expected(v, key(i)), Append(u.at, i)) \in Elements(Calls(u))
    BY <2>6, <2>7, BlocksAreCalled DEF CallsOfBlocksAre
  <2>9. Due(ValueTask(v.body[i].value, Expected(v, key(i)), Append(slot.at, i)))
    BY <2>6, <2>8, CallsAreDue
  <2> QED
    BY <2>2, <2>9, SlotTaskIs
<1> QED
  BY <1>1, <1>2, <1>3

LEMMA AnswersAllBelow ==
  ASSUME Parsed, NEW start, Answered(start), NEW slot \in Reached(start)
  PROVE  Answered(slot)
<1> DEFINE T == {n \in 0..Nesting : \E s \in Level(start, Inside)[n] : ~Answered(s)}
<1>1. T = {}
  <2> SUFFICES ASSUME T # {}  PROVE FALSE
    OBVIOUS
  <2>0. T \in SUBSET Nat
    BY NestingAssumption
  <2>1. PICK m \in T : \A k \in T : m <= k
    BY <2>0, NatLeast
  <2>2. m # 0
    <3>1. Level(start, Inside)[0] = {start}
      BY LevelsOfSlots
    <3>2. 0 \notin T
      BY <3>1
    <3> QED
      BY <3>2
  <2>3. m - 1 \in 0..Nesting /\ m - 1 \notin T
    BY <2>1, <2>2, NestingAssumption
  <2>4. Level(start, Inside)[m] = UNION {Inside(x) : x \in Level(start, Inside)[m - 1]}
    BY <2>1, <2>2, LevelsOfSlots
  <2>5. \A x \in Level(start, Inside)[m - 1] : Answered(x)
    BY <2>3
  <2>6. \A s \in Level(start, Inside)[m] : Answered(s)
    BY <2>4, <2>5, AnswersBelow
  <2> QED
    BY <2>1, <2>6
<1>2. PICK n \in 0..Nesting : slot \in Level(start, Inside)[n]
  BY DEF Reached, ReachedFrom
<1> QED
  BY <1>1, <1>2

\* An object is checked as one, unless a form has its name.
LEMMA ObjectIsDue ==
  ASSUME Parsed, NEW i \in DOMAIN file, Instantiates(i), file[i].key \notin DOMAIN forms \ {"object"}
  PROVE  Due(InstanceTask(file[i], <<i>>))
<1> DEFINE s == file[i]
           b == BlockTask(s.value, s.key, <<i>>)
           c == InstanceTask(s, <<i>>)
<1>1. PICK t : t = TopOf(i)
  OBVIOUS
<1>2. t.do = "top" /\ t.at = <<i>> /\ t.statement = s
  BY <1>1 DEF TopOf
<1>3. Due(t)
  BY <1>1, PassIsDue DEF TopOf
<1>4. Calls(t) = TopCalls(s, <<i>>) /\ Instance(s, <<i>>) = <<c>>
  BY <1>2 DEF Calls, Instance, InstanceTask, Instantiates
<1>5. c \in Elements(Calls(t))
  <2>1. CASE s.key \notin DOMAIN forms
    <3>1. Calls(t) = <<c>>
      BY <1>4, <2>1 DEF TopCalls
    <3> HIDE DEF c
    <3> QED
      BY <3>1, LoneList
  <2>2. CASE s.key \in DOMAIN forms
    <3>1. s.key = "object" /\ forms[s.key].top_level /\ IsBlock(s.value)
      BY <2>2 DEF Parsed, IsRegistry, Instantiates, Instantiated
    <3>2. Calls(t) = <<b>> \o <<c>>
      BY <1>4, <2>2, <3>1 DEF TopCalls, BlockTask
    <3> HIDE DEF b, c
    <3>3. IsList(<<b>>) /\ IsList(<<c>>) /\ Elements(<<c>>) = {c}
      BY LoneList
    <3>4. Elements(<<b>> \o <<c>>) = Elements(<<b>>) \cup Elements(<<c>>)
      BY <3>3, ElementsOfJoin
    <3> QED
      BY <3>2, <3>3, <3>4
  <2> QED
    BY <2>1, <2>2
<1> QED
  BY <1>3, <1>5, CallsAreDue

LEMMA SlotsAreAnswered ==
  ASSUME Parsed, NEW i \in DOMAIN file, NEW slot \in SlotsOf(i)
  PROVE  Answered(slot)
<1>1. PICK start \in OfTheForm(i) \cup OfObject(i) : slot \in Reached(start)
  BY DEF SlotsOf
<1>2. CASE start \in OfTheForm(i)
  <2> DEFINE key == file[i].key
             type == Type("block", <<Plain(key)>>)
  <2>1. /\ key \in DOMAIN forms /\ forms[key].top_level /\ IsBlock(file[i].value)
        /\ start = Slot(<<i>>, file[i].value, type, FALSE)
    BY <1>2 DEF OfTheForm
  <2>2. InFull(type) = type
    BY DEF InFull, Type
  <2>3. start.at = <<i>> /\ start.value = file[i].value /\ start.type = type /\ start.entry = FALSE
    BY <2>1, <2>2 DEF Slot
  <2>4. PICK t : t = TopOf(i)
    OBVIOUS
  <2>5. t.do = "top" /\ t.at = <<i>> /\ t.statement = file[i]
    BY <2>4 DEF TopOf
  <2>6. Due(t)
    BY <2>4, PassIsDue DEF TopOf
  <2>7. LooksInto(t, file[i].value, key)
    BY <2>1, <2>5 DEF LooksInto
  <2>8. BlockTask(file[i].value, key, t.at) \in Elements(Calls(t))
    BY <2>6, <2>7, BlocksAreCalled DEF CallsOfBlocksAre
  <2>9. Due(BlockTask(start.value, key, start.at))
    BY <2>3, <2>5, <2>6, <2>8, CallsAreDue
  <2> QED
    BY <1>1, <2>3, <2>9, AnswersAllBelow DEF Answered
<1>3. CASE start \in OfObject(i)
  <2> DEFINE b == file[i].value
             type(j) == ResolveProperty(b.body[j].key, LocalPropDefs(b), ReadObjectClass(file[i]))
  <2>1. /\ Instantiates(i) /\ file[i].key \notin DOMAIN forms \ {"object"}
        /\ \E j \in DOMAIN b.body : /\ b.body[j].value # Nothing /\ type(j) # Nothing
                                    /\ start = Slot(<<i, j>>, b.body[j].value, type(j), b.body[j].key \in OwnNames(b))
    BY <1>3 DEF OfObject
  <2>2. PICK j \in DOMAIN b.body : /\ b.body[j].value # Nothing /\ type(j) # Nothing
                                   /\ start = Slot(<<i, j>>, b.body[j].value, type(j), b.body[j].key \in OwnNames(b))
    BY <2>1
  <2>3. PICK t : t = InstanceTask(file[i], <<i>>)
    OBVIOUS
  <2>4. Due(t)
    BY <2>1, <2>3, ObjectIsDue
  <2>5. t.do = "instance" /\ t.at = <<i>> /\ t.block = b /\ t.class = ReadObjectClass(file[i])
    BY <2>3 DEF InstanceTask
  <2>6. GoesOnTo(t, j, b.body[j].value, type(j))
    BY <2>2, <2>5 DEF GoesOnTo
  <2>7. ValueTask(b.body[j].value, type(j), Append(<<i>>, j)) \in Elements(Calls(t))
    BY <2>4, <2>5, <2>6, BlocksAreCalled DEF CallsOfBlocksAre
  <2>8. Append(<<i>>, j) = <<i, j>>
    BY AppendToOne
  <2>9. Due(ValueTask(b.body[j].value, type(j), <<i, j>>))
    BY <2>4, <2>7, <2>8, CallsAreDue
  <2>10. Answered(start)
    BY <2>2, <2>9, SlotTaskIs
  <2> QED
    BY <1>1, <2>10, AnswersAllBelow
<1> QED
  BY <1>1, <1>2, <1>3

-----------------------------------------------------------------------------
(* One binding per session *)

\* What check_arity says of a block is said of its own statements only.
LEMMA DuplicatesReported ==
  ASSUME Going, Done, KeysApart, NEW v, NEW form, NEW at, Due(BlockTask(v, form, at)), NEW i \in DOMAIN v.body
  PROVE  Note("DuplicateKey", Append(at, i)) \in reports <=> i \in Duplicates(v.body, forms[form])
<1>0. Parsed /\ \A r : r \in reports <=> \E t : Due(t) /\ r \in Found(t)
  BY DoneReports
<1>1. PICK u : u = BlockTask(v, form, at)
  OBVIOUS
<1>2. Due(u) /\ u.do = "block" /\ u.at = at /\ u.block = v /\ u.form = form
  BY <1>1 DEF BlockTask
<1>3. \A t : Due(t) /\ t.do = "block" =>
         /\ t.at \in Seq(Nat) /\ IsList(t.block.body) /\ DOMAIN t.block.body \subseteq Nat
         /\ Found(t) = BlockReports(t.block, forms[t.form], t.at)
  <2> TAKE t
  <2> HAVE Due(t) /\ t.do = "block"
  <2>1. t.at \in Seq(Nat)
    BY <1>0, DuePlaces
  <2>2. t.block \in Written /\ t.block.is = "block" /\ IsFile(file)
    BY <1>0, DueFits DEF Fitting, Parsed
  <2>3. IsList(t.block.body)
    BY <2>2, InBlock
  <2>4. DOMAIN t.block.body \subseteq Nat
    BY <2>3, ListHas
  <2>5. Found(t) = BlockReports(t.block, forms[t.form], t.at)
    BY DEF Found
  <2> QED
    BY <2>1, <2>3, <2>4, <2>5
<1>4. ASSUME i \in Duplicates(v.body, forms[form])
      PROVE  Note("DuplicateKey", Append(at, i)) \in reports
  <2>1. Note("DuplicateKey", Append(at, i)) \in BlockReports(v, forms[form], at)
    BY <1>4 DEF BlockReports
  <2> QED
    BY <1>0, <1>2, <1>3, <2>1
<1>5. ASSUME Note("DuplicateKey", Append(at, i)) \in reports
      PROVE  i \in Duplicates(v.body, forms[form])
  <2>1. PICK r : r = Note("DuplicateKey", Append(at, i))
    OBVIOUS
  <2>2. r.code = "DuplicateKey" /\ StepFrom(r.at, at, i)
    BY <2>1 DEF Note, StepFrom
  <2>3. PICK t : Due(t) /\ r \in Found(t)
    BY <1>0, <1>5, <2>1
  <2>4. t.do = "block"
    BY <2>2, <2>3, FoundCodes DEF CodesOf
  <2>5. PICK k \in Duplicates(t.block.body, forms[t.form]) : r = Note("DuplicateKey", Append(t.at, k))
    <3>1. r \in BlockReports(t.block, forms[t.form], t.at)
      BY <1>3, <2>3, <2>4
    <3> QED
      BY <2>2, <3>1 DEF BlockReports, Note
  <2>6. StepFrom(r.at, t.at, k)
    BY <2>5 DEF Note, StepFrom
  <2>7. k \in DOMAIN t.block.body
    BY <1>3, <2>3, <2>4, <2>5, DuplicatesAre
  <2>8. t.at = at /\ k = i
    <3>1. k \in Nat /\ i \in Nat /\ t.at \in Seq(Nat) /\ at \in Seq(Nat)
      BY <1>2, <1>3, <2>3, <2>4, <2>7
    <3> QED
      BY <2>2, <2>6, <3>1, StepsDiffer
  <2>9. t = u
    BY <1>0, <1>2, <2>3, <2>4, <2>8, OneValueAt, OneBlockAt DEF OneAt
  <2> QED
    BY <1>2, <2>5, <2>8, <2>9
<1> QED
  BY <1>4, <1>5

\* Once the duplicates are gone no session sees two bindings of a key, and
\* what each of them meets is left.
LEMMA DuplicatesBind ==
  ASSUME NEW body, IsList(body), NEW form, NEW named, Frontends \subseteq named,
         \A i \in DOMAIN body : Presence(body[i]) \subseteq named
  PROVE  LET D == Duplicates(body, form)
             binding(f) == {i \in DOMAIN body : BindsOne(body[i], form) /\ In(body[i], f)}
         IN  /\ \A f \in named : \A i, j \in binding(f) \ D : body[i].key = body[j].key => i = j
             /\ \A i \in D : \E f \in named : \E j \in binding(f) \ D :
                   i \in binding(f) /\ j < i /\ body[j].key = body[i].key
<1> DEFINE D == Duplicates(body, form)
           binding(f) == {i \in DOMAIN body : BindsOne(body[i], form) /\ In(body[i], f)}
<1>0. /\ D \subseteq DOMAIN body
      /\ \A i \in DOMAIN body : i \in D <=> MeetsEarlier(body, form, D, i)
  BY DuplicatesAre
<1>1. Len(body) \in Nat /\ DOMAIN body = 1..Len(body)
  BY ListHas
<1> HIDE DEF D
<1>2. ASSUME NEW f, NEW i \in binding(f), NEW j \in binding(f), body[i].key = body[j].key, j < i, j \notin D
      PROVE  i \in D
  <2>1. i \in DOMAIN body /\ j \in DOMAIN body /\ j \in 1..(i - 1)
    BY <1>1, <1>2
  <2>2. Meet(body[i], body[j])
    BY <1>2 DEF Meet, CanCoexist, In
  <2>3. MeetsEarlier(body, form, D, i)
    BY <1>2, <2>1, <2>2 DEF MeetsEarlier
  <2> QED
    BY <1>0, <2>1, <2>3
<1>3. ASSUME NEW f \in named, NEW i \in binding(f) \ D, NEW j \in binding(f) \ D, body[i].key = body[j].key
      PROVE  i = j
  <2>1. i \in Nat /\ j \in Nat
    BY <1>1
  <2>2. i < j \/ j < i \/ i = j
    BY <2>1
  <2> QED
    BY <1>2, <1>3, <2>2
<1>4. ASSUME NEW i \in D
      PROVE  \E f \in named : \E j \in binding(f) \ D : i \in binding(f) /\ j < i /\ body[j].key = body[i].key
  <2>1. i \in DOMAIN body /\ MeetsEarlier(body, form, D, i)
    BY <1>0
  <2>2. PICK j \in 1..(i - 1) : /\ BindsOne(body[j], form) /\ body[j].key = body[i].key
                                /\ j \notin D /\ Meet(body[i], body[j])
    BY <2>1 DEF MeetsEarlier
  <2>3. BindsOne(body[i], form) /\ j \in DOMAIN body /\ j < i
    BY <1>1, <2>1, <2>2 DEF MeetsEarlier
  <2>4. PICK f \in named : In(body[i], f) /\ In(body[j], f)
    <3>1. CanCoexist(Presence(body[i]), Presence(body[j]))
      BY <2>2 DEF Meet
    <3>2. PICK g \in Frontends : g \in named
      BY FrontendsAssumption
    <3>3. Presence(body[i]) \subseteq named /\ Presence(body[j]) \subseteq named
      BY <2>1, <2>3
    <3> QED
      BY <3>1, <3>2, <3>3 DEF CanCoexist, In
  <2> QED
    BY <2>1, <2>2, <2>3, <2>4
<1>5. \A f \in named : \A i, j \in binding(f) \ D : body[i].key = body[j].key => i = j
  BY <1>3
<1> QED
  BY <1>4, <1>5 DEF D

\* Of whatever a session sees, on whatever frontend, a key that takes one
\* value is bound once when the statements reported as duplicates are gone,
\* for all registries, files and depths at which blocks stand: check_arity
\* compares a statement with those before it only, and its reports are told
\* apart by their place.  Where a property of a class has the name of a key
\* of the form `object`, one block is checked against two forms, and neither
\* is told which its duplicates are; the hypothesis leaves that out.
THEOREM OneBindingHolds == BlocksSpec => [](KeysApart => OneBindingPerSession)
<1>1. ASSUME Going, KeysApart  PROVE OneBindingPerSession
  <2> SUFFICES ASSUME Done, NEW slot \in BlockSlots
               PROVE  LET body == slot.value.body
                          form == forms[slot.type.args[1].name]
                          duplicate == {i \in DOMAIN body : Note("DuplicateKey", Append(slot.at, i)) \in reports}
                          named == Frontends \cup UNION {Presence(body[i]) : i \in DOMAIN body}
                          binding(f) == {i \in DOMAIN body : BindsOne(body[i], form) /\ In(body[i], f)}
                      IN  /\ \A f \in named : \A i, j \in binding(f) \ duplicate : body[i].key = body[j].key => i = j
                          /\ \A i \in duplicate : \E f \in named : \E j \in binding(f) \ duplicate :
                                i \in binding(f) /\ j < i /\ body[j].key = body[i].key
    BY DEF OneBindingPerSession
  <2> DEFINE body == slot.value.body
             id == slot.type.args[1].name
             form == forms[id]
             duplicate == {i \in DOMAIN body : Note("DuplicateKey", Append(slot.at, i)) \in reports}
             named == Frontends \cup UNION {Presence(body[i]) : i \in DOMAIN body}
  <2>0. Parsed
    BY <1>1, DoneReports
  <2>1. PICK i \in DOMAIN file : slot \in SlotsOf(i)
    BY DEF BlockSlots
  <2>2. OfForm(slot.type) /\ IsBlock(slot.value) /\ body # <<>> /\ id \in DOMAIN forms
    BY DEF BlockSlots
  <2>3. Answered(slot)
    BY <2>0, <2>1, SlotsAreAnswered
  <2>4. Due(BlockTask(slot.value, id, slot.at))
    BY <2>0, <2>2, <2>3, FormOfSlot
  <2>5. IsList(body)
    <3>1. PICK u : u = BlockTask(slot.value, id, slot.at)
      OBVIOUS
    <3>2. Due(u) /\ u.do = "block" /\ u.block = slot.value
      BY <2>4, <3>1 DEF BlockTask
    <3>3. slot.value \in Written /\ slot.value.is = "block" /\ IsFile(file)
      BY <2>0, <3>2, DueFits DEF Fitting, Parsed
    <3> QED
      BY <3>3, InBlock
  <2>6. duplicate = Duplicates(body, form)
    <3>1. Duplicates(body, form) \subseteq DOMAIN body
      BY <2>5, DuplicatesAre
    <3>2. \A k \in DOMAIN body : Note("DuplicateKey", Append(slot.at, k)) \in reports <=> k \in Duplicates(body, form)
      BY <1>1, <2>4, DuplicatesReported
    <3> QED
      BY <3>1, <3>2
  <2>7. Frontends \subseteq named /\ \A k \in DOMAIN body : Presence(body[k]) \subseteq named
    OBVIOUS
  <2> HIDE DEF duplicate, named, body, form
  <2>8. LET binding(f) == {k \in DOMAIN body : BindsOne(body[k], form) /\ In(body[k], f)}
        IN  /\ \A f \in named : \A k, j \in binding(f) \ duplicate : body[k].key = body[j].key => k = j
            /\ \A k \in duplicate : \E f \in named : \E j \in binding(f) \ duplicate :
                  k \in binding(f) /\ j < k /\ body[j].key = body[k].key
    BY <2>5, <2>6, <2>7, DuplicatesBind
  <2> QED
    BY <2>8 DEF duplicate, named, body, form
<1>2. Going => (KeysApart => OneBindingPerSession)
  BY <1>1
<1> QED
  BY <1>2, GoesOn, PTL
=============================================================================
