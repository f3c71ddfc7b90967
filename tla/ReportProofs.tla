---------------------------- MODULE ReportProofs ----------------------------
(***************************************************************************)
(* What can only be said of a whole program is said exactly where it is    *)
(* so: a manifest is reported if and only if it does not list the forms    *)
(* that its library declared last, and a statement is reported a duplicate *)
(* if and only if another one before it declares its id.                   *)
(***************************************************************************)
EXTENDS LoaderProofs

\* The names of a program are no keywords, and `library` is one of them.
NamesAreNoKeywords == Ids \cap (Forms \cup {"object"}) = {} /\ Library \in Ids

-----------------------------------------------------------------------------
(* Manifests *)

IsSchema(q) == StatementAt(q).key = "schema"

\* The declaration that the form of its id was last taken from, of those that
\* the first pass has visited.
Holds(q) ==
    /\ IsSchema(q) /\ Visited(q, 1) /\ ~Reported(q, Refusals)
    /\ \A p \in Positions :
          (/\ Before(q, p) /\ IsSchema(p) /\ Visited(p, 1)
           /\ StatementAt(p).id = StatementAt(q).id) => Reported(p, Refusals)

\* Every stored form has the owner of the declaration that holds its id.
OwnersHold ==
    \A id \in Ids : index["schema"][id] # 0 =>
        \E q \in Positions : /\ Holds(q) /\ StatementAt(q).id = id
                             /\ Stored("schema", id).owner = program[q[1]].owner

\* A declaration of a form that was visited is stored, or refused and said so.
DeclarationsAnswered ==
    \A q \in Positions :
        IsSchema(q) => /\ Visited(q, 1) /\ ~Reported(q, Refusals)
                              => index["schema"][StatementAt(q).id] # 0
                       /\ Reported(q, Refusals) => Visited(q, 1)

ManifestAt(q) == [group |-> q[1], at |-> q[2], owner |-> program[q[1]].owner,
                  provides |-> StatementAt(q).provides]

IsManifest(q) == StatementAt(q).key = Library

\* The manifests are those that pass two has visited.
ManifestsCollected ==
    /\ libraries \in Seq([group : Nat, at : Nat, owner : Owners,
                          provides : SUBSET Ids \cup {Undeclared}])
    /\ {libraries[i] : i \in DOMAIN libraries} =
           {ManifestAt(q) : q \in {q \in Positions : IsManifest(q) /\ Visited(q, 2)}}

\* None is reported before all has loaded.
NoneEarly == Loaded \/ \A r \in reports : r.code # "ProvidesMismatch"

MInv == /\ Restarted /\ OwnersHold /\ DeclarationsAnswered
        /\ ManifestsCollected /\ NoneEarly /\ ManifestsChecked

LEMMA ProgramKept ==
    ASSUME [LoadNext]_all
    PROVE  /\ UNCHANGED <<program, Positions>>
           /\ \A q : StatementAt(q)' = StatementAt(q)
<1>1. UNCHANGED program
  BY DEF LoadNext, Visit, NextPass, NextGroup, CheckRequirements, CheckLibraryManifests, all
<1> QED BY <1>1 DEF Positions, StatementAt

LEMMA ReportsKept ==
    ASSUME [LoadNext]_all
    PROVE  reports \subseteq reports'
BY DEF LoadNext, Visit, ReadSchemas, FoldDeclarations, FoldDeclaration, NoteObjects,
       CheckTopLevel, Report, ReportAnswer, NextPass, NextGroup, CheckRequirements,
       CheckLibraryManifests, all

\* What a pass has visited stays visited.
LEMMA VisitedKept ==
    ASSUME PositionOK, [LoadNext]_all, NEW q \in Positions, NEW pass \in 1..4, Visited(q, pass)
    PROVE  Visited(q, pass)'
<1>1. q[1] \in 1..Len(program) /\ q[2] \in 1..Len(program[q[1]].statements)
  BY PositionType
<1> USE DEF PositionOK, Visited
<1>2. CASE Visit
  BY <1>1, <1>2 DEF Visit
<1>3. CASE NextPass
  BY <1>1, <1>3 DEF NextPass
<1>4. CASE NextGroup
  BY <1>1, <1>4 DEF NextGroup
<1>5. CASE CheckRequirements \/ CheckLibraryManifests
  BY <1>1, <1>5 DEF CheckRequirements, CheckLibraryManifests
<1>6. CASE UNCHANGED all
  BY <1>6 DEF all
<1> QED BY <1>2, <1>3, <1>4, <1>5, <1>6 DEF LoadNext

\* A pass is done with one more statement, and with none behind it.
LEMMA OneVisited ==
    ASSUME PositionOK, Visit, NEW pass \in 1..4, phase = pass - 1, NEW q, q = <<group, at>>
    PROVE  /\ q \in Positions /\ StatementAt(q) = Statements[at]
           /\ ~Visited(q, pass) /\ Visited(q, pass)'
           /\ \A p \in Positions : Before(q, p) => ~Visited(p, pass)'
<1>1. group \in 1..Len(program) /\ program \in Seq(Group)
  BY ProgramsAssumption DEF PositionOK, Visit
<1>2. program[group] \in Group
  BY <1>1, ElementType
<1>3. at \in 1..Len(Statements) /\ Statements \in Seq(Statement)
  BY <1>2 DEF PositionOK, Visit, Statements, Group
<1>4. group \in DOMAIN program /\ at \in DOMAIN program[group].statements
  BY <1>1, <1>3 DEF Statements
<1>5. q \in Positions /\ StatementAt(q) = Statements[at]
  BY <1>4 DEF Positions, StatementAt, Statements
<1>6. ~Visited(q, pass) /\ Visited(q, pass)'
  BY DEF Visited, Visit, PositionOK
<1>7. ASSUME NEW p \in Positions, Before(q, p) PROVE ~Visited(p, pass)'
  <2>1. p[1] \in Nat /\ p[2] \in Nat
    BY PositionType, <1>1 DEF PositionOK
  <2> QED BY <1>7, <2>1 DEF Visited, Visit, Before, PositionOK
<1> QED BY <1>5, <1>6, <1>7

\* A refusal of a form is new only when the first pass visits it.
LEMMA RefusedInPassOne ==
    ASSUME NamesAreNoKeywords, LInv, [LoadNext]_all, NEW q \in Positions, IsSchema(q),
           Reported(q, Refusals)', ~Reported(q, Refusals)
    PROVE  Visit /\ phase = 0 /\ q = <<group, at>>
<1> DEFINE s == Statements[at]
<1>1. "ProvidesMismatch" \notin Refusals
  BY DEF Refusals
<1>2. Visit /\ q = <<group, at>> /\ s.key = "schema" /\ \E code \in Refusals : Report(s, code)
  BY <1>1, ReportsOfVisit DEF IsSchema
<1>3. PICK code \in Refusals : Report(s, code)
  BY <1>2
<1>4. "schema" \notin Ids /\ "schema" # "object" /\ s.key = "schema"
  BY <1>2 DEF NamesAreNoKeywords, Forms
<1>5. ~Reported(<<group, at>>, {code})
  BY <1>2, <1>3 DEF Reported
<1>6. reports' # reports /\ \A other : Report(s, other) => other = code
  BY <1>3, <1>5, NewReport
<1> HIDE DEF s
<1>7. ~FoldDeclarations(s)
  BY <1>4, <1>6 DEF FoldDeclarations, IsForm
<1>8. ~NoteObjects(s)
  BY <1>4, <1>6 DEF NoteObjects, ObjectClass, IsClass
<1>9. ~CheckTopLevel(s)
  BY <1>4, <1>6 DEF CheckTopLevel
<1>10. phase \in 0..3
  BY <1>2 DEF LInv, PositionOK, Visit, Passes
<1> QED BY <1>2, <1>7, <1>8, <1>9, <1>10 DEF Visit, Passes, s

\* Every step but the first pass's declaration of a form leaves the forms to
\* their owners.
LEMMA OwnersKept ==
    ASSUME NamesAreNoKeywords, LInv, [LoadNext]_all,
           ~(Visit /\ phase = 0 /\ Statements[at].key = "schema"), NEW id \in Ids
    PROVE  /\ index'["schema"][id] = index["schema"][id]
           /\ index["schema"][id] # 0 =>
                 Stored("schema", id)'.owner = Stored("schema", id).owner
<1> DEFINE s == Statements[at]
           Kept == /\ index'["schema"][id] = index["schema"][id]
                   /\ index["schema"][id] # 0 =>
                         Stored("schema", id)'.owner = Stored("schema", id).owner
<1> SUFFICES Kept
  OBVIOUS
<1>1. CASE UNCHANGED <<stores, index>>
  BY <1>1 DEF Stored
<1>2. CASE ~Visit
  BY <1>1, <1>2 DEF LoadNext, NextPass, NextGroup, CheckRequirements, CheckLibraryManifests,
                    all, vars
<1>3. CASE Visit
  <2>1. Owner \in Owners /\ s \in Statement
    BY <1>3, VisitedStatement DEF LInv, Visit
  <2>2. /\ s.id \in Ids /\ s.members \in Members /\ s.sealed \in BOOLEAN /\ s.root \in BOOLEAN
        /\ s.replaces \in Annotations /\ s.parent \in Parents \cup {Undeclared}
    BY <2>1 DEF Statement
  <2>3. ASSUME NEW decl \in Decl, decl.kind # "schema", Declare(decl, s.replaces)
        PROVE  Kept
    BY <2>2, <2>3, DeclareEffect DEF LInv, IInv, Kinds
  <2>4. ASSUME NEW kind \in {"schema", "class", "trait"}, NEW form \in Ids, NEW new \in Members,
               index[kind][form] # 0,
               ExtendMembers(kind, form, new), UNCHANGED index
        PROVE  Kept
    <3>1. kind \in Kinds
      BY DEF Kinds
    <3>2. /\ Stored(kind, form)' =
               [Stored(kind, form) EXCEPT !.members = Merge(Stored(kind, form).members, new)]
          /\ \A l \in Kinds, j \in Ids :
               ((l # kind \/ j # form) /\ index[l][j] # 0) => Stored(l, j)' = Stored(l, j)
      BY <2>4, <3>1, ExtendEffect DEF LInv, IInv
    <3>3. Stored(kind, form) \in Decl
      BY <2>4, <3>1, IndexedSlot DEF LInv, IInv, TypeOK
    <3>4. Stored(kind, form)'.owner = Stored(kind, form).owner
      BY <3>2, <3>3 DEF Decl
    <3>5. index["schema"][id] # 0 => \/ Stored("schema", id)' = Stored("schema", id)
                                     \/ kind = "schema" /\ id = form
      BY <3>2 DEF Kinds
    <3> QED BY <2>4, <3>4, <3>5
  <2>5. \/ ReadSchemas(s) /\ phase = 0
        \/ FoldDeclarations(s) \/ NoteObjects(s) \/ CheckTopLevel(s)
    BY <1>3 DEF Visit, Passes, LInv, PositionOK
  <2>6. ~(phase = 0 /\ s.key = "schema")
    BY <1>3
  <2>7. NoMembers \in Members
    BY DEF NoMembers, Members
  <2>8. UNCHANGED <<stores, index>> => Kept
    BY DEF Kept, Stored
  <2> HIDE DEF s, Kept
  <2>9. CASE FoldDeclaration(s)
    <3>1. CASE DeclareClass(s.id, Owner, s.sealed, s.root /\ s.parent = Undeclared, s.parent,
                            s.members, s.replaces)
      <4> DEFINE root == (s.root /\ s.parent = Undeclared)
                           /\ ~Demoted(s.id, s.root /\ s.parent = Undeclared)
                 decl == [kind |-> "class", id |-> s.id, owner |-> Owner, sealed |-> s.sealed,
                          root |-> root, parent |-> s.parent, members |-> s.members]
      <4>1. root \in BOOLEAN
        OBVIOUS
      <4>2. decl \in Decl /\ decl.kind # "schema"
        BY <2>1, <2>2, <4>1 DEF Decl, Kinds
      <4>3. Declare(decl, s.replaces)
        BY <3>1 DEF DeclareClass
      <4> HIDE DEF decl
      <4> QED BY <2>3, <4>2, <4>3
    <3>2. CASE DeclareTrait(s.id, Owner, s.sealed, s.members, s.replaces)
      <4> DEFINE decl == [kind |-> "trait", id |-> s.id, owner |-> Owner, sealed |-> s.sealed,
                          root |-> FALSE, parent |-> Undeclared, members |-> s.members]
      <4>1. decl \in Decl /\ decl.kind # "schema"
        BY <2>1, <2>2 DEF Decl, Kinds
      <4>2. Declare(decl, s.replaces)
        BY <3>2 DEF DeclareTrait
      <4> HIDE DEF decl
      <4> QED BY <2>3, <4>1, <4>2
    <3>3. CASE DeclareEnum(s.id, Owner, s.sealed, s.replaces)
      <4> DEFINE decl == [kind |-> "enum", id |-> s.id, owner |-> Owner, sealed |-> s.sealed,
                          root |-> FALSE, parent |-> Undeclared, members |-> NoMembers]
      <4>1. decl \in Decl /\ decl.kind # "schema"
        BY <2>1, <2>2, <2>7 DEF Decl, Kinds
      <4>2. Declare(decl, s.replaces)
        BY <3>3 DEF DeclareEnum
      <4> HIDE DEF decl
      <4> QED BY <2>3, <4>1, <4>2
    <3>4. CASE DeclareGlobal(s.id, Owner, s.replaces)
      <4> DEFINE decl == [kind |-> "global", id |-> s.id, owner |-> Owner, sealed |-> FALSE,
                          root |-> FALSE, parent |-> Undeclared, members |-> NoMembers]
      <4>1. decl \in Decl /\ decl.kind # "schema"
        BY <2>1, <2>2, <2>7 DEF Decl, Kinds
      <4>2. Declare(decl, s.replaces)
        BY <3>4 DEF DeclareGlobal
      <4> HIDE DEF decl
      <4> QED BY <2>3, <4>1, <4>2
    <3>5. CASE ApplySchemaExtension(s.id, s.members)
      BY <2>2, <2>4, <2>8, <3>5 DEF ApplySchemaExtension
    <3>6. CASE s.of \in {"class", "trait"} /\ ApplyExtension(s.of, s.id, s.reparent, s.members)
      BY <2>2, <2>4, <2>8, <3>6 DEF ApplyExtension
    <3> QED BY <2>9, <2>8, <3>1, <3>2, <3>3, <3>4, <3>5, <3>6 DEF FoldDeclaration, vars
  <2>10. CASE DeclareObject(s.id, Owner, s.replaces)
    <3> DEFINE decl == [kind |-> "object", id |-> s.id, owner |-> Owner, sealed |-> FALSE,
                        root |-> FALSE, parent |-> Undeclared, members |-> NoMembers]
    <3>1. decl \in Decl /\ decl.kind # "schema"
      BY <2>1, <2>2, <2>7 DEF Decl, Kinds
    <3>2. Declare(decl, s.replaces)
      BY <2>10 DEF DeclareObject
    <3> HIDE DEF decl
    <3> QED BY <2>3, <3>1, <3>2
  <2>11. \/ FoldDeclaration(s) \/ DeclareObject(s.id, Owner, s.replaces)
         \/ UNCHANGED <<stores, index>>
    BY <2>5, <2>6 DEF ReadSchemas, FoldDeclarations, NoteObjects, CheckTopLevel,
                      OfferGeneric, vars
  <2> QED BY <2>9, <2>10, <2>8, <2>11
<1> QED BY <1>2, <1>3

\* The first pass's declaration of a form: it is refused and says so, and
\* nothing changes, or the form is its owner's.
LEMMA FormVisited ==
    ASSUME NamesAreNoKeywords, LInv, Visit, phase = 0, NEW s, s = Statements[at],
           s.key = "schema", NEW q, q = <<group, at>>, ~Reported(q, Refusals)
    PROVE  /\ s.id \in Ids
           /\ \A id \in Ids : id # s.id =>
                 /\ index'["schema"][id] = index["schema"][id]
                 /\ index["schema"][id] # 0 => Stored("schema", id)' = Stored("schema", id)
           /\ \/ /\ Reported(q, Refusals)'
                 /\ index'["schema"][s.id] = index["schema"][s.id]
                 /\ Stored("schema", s.id)' = Stored("schema", s.id)
              \/ /\ ~Reported(q, Refusals)'
                 /\ index'["schema"][s.id] # 0
                 /\ Stored("schema", s.id)'.owner = program[q[1]].owner
<1>1. Owner \in Owners /\ s \in Statement /\ Owner = program[q[1]].owner
  BY VisitedStatement DEF LInv, Visit, Owner
<1>2. ReadSchemas(s)
  BY DEF Visit, Passes
<1>3. DeclareSchema(s.id, Owner, s.sealed, s.members, s.replaces) /\ ReportAnswer(s)
  BY <1>2 DEF ReadSchemas
<1> DEFINE decl == [kind |-> "schema", id |-> s.id, owner |-> program[q[1]].owner,
                    sealed |-> s.sealed, root |-> FALSE, parent |-> Undeclared,
                    members |-> s.members]
<1>4. /\ decl \in Decl /\ s.replaces \in Annotations /\ s.id \in Ids
      /\ decl.kind = "schema" /\ decl.id = s.id /\ decl.owner = program[q[1]].owner
  BY <1>1 DEF Decl, Kinds, Statement
<1>5. Declare(decl, s.replaces)
  BY <1>1, <1>3 DEF DeclareSchema
<1> HIDE DEF decl
<1>6. last'.answer = Verdict(Entry(decl), s.replaces)
  BY <1>5 DEF Declare, Offer
<1>7. \A id \in Ids : id # s.id =>
          /\ index'["schema"][id] = index["schema"][id]
          /\ index["schema"][id] # 0 => Stored("schema", id)' = Stored("schema", id)
  BY <1>4, <1>5, DeclareEffect DEF LInv, IInv, Kinds
<1>8. CASE Verdict(Entry(decl), s.replaces) \in Refusals
  <2>1. Report(s, last'.answer)
    BY <1>3, <1>6, <1>8 DEF ReportAnswer, Refusals
  <2> DEFINE r == [group |-> q[1], at |-> q[2], code |-> last'.answer]
  <2>2. r \in reports' /\ <<r.group, r.at>> = q /\ r.code \in Refusals
    BY <1>6, <1>8, <2>1 DEF Report
  <2>3. Reported(q, Refusals)'
    BY <2>2 DEF Reported
  <2>4. UNCHANGED registry
    BY <1>4, <1>5, <1>8, DeclareEffect DEF LInv, IInv
  <2> QED BY <1>4, <1>7, <2>3, <2>4 DEF registry, Stored
<1>9. CASE Verdict(Entry(decl), s.replaces) \notin Refusals
  <2>1. Verdict(Entry(decl), s.replaces) \in {"Fresh", "Replaced"}
    BY <1>9 DEF Verdict, Refusals
  <2>2. UNCHANGED reports
    BY <1>3, <1>6, <2>1 DEF ReportAnswer, Report
  <2>3. index'["schema"][s.id] # 0 /\ Stored("schema", s.id)' = decl
    BY <1>4, <1>5, <1>9, DeclareEffect DEF LInv, IInv
  <2> QED BY <1>4, <1>7, <2>2, <2>3 DEF Reported
<1> QED BY <1>8, <1>9

\* A declaration that holds its id goes on doing so until another of the id
\* is visited and accepted.
LEMMA HoldsOn ==
    ASSUME NamesAreNoKeywords, LInv, Restarted, DeclarationsAnswered, [LoadNext]_all,
           NEW q \in Positions, Holds(q),
           \A p \in Positions : (/\ Visit /\ phase = 0 /\ p = <<group, at>> /\ IsSchema(p)
                                 /\ StatementAt(p).id = StatementAt(q).id) => Reported(p, Refusals)'
    PROVE  Holds(q)'
<1>1. /\ \A p : StatementAt(p)' = StatementAt(p)
      /\ Positions' = Positions
  BY ProgramKept
<1>2. Visited(q, 1) /\ Visited(q, 1)' /\ IsSchema(q) /\ IsSchema(q)'
  BY <1>1, VisitedKept DEF Holds, LInv, IsSchema
<1>3. ~Reported(q, Refusals)'
  <2>1. SUFFICES ASSUME Reported(q, Refusals)' PROVE FALSE
    OBVIOUS
  <2>2. Visit /\ phase = 0 /\ q = <<group, at>>
    BY <1>2, <2>1, RefusedInPassOne DEF Holds
  <2> QED BY <1>2, <2>2, OneVisited DEF LInv
<1>4. ASSUME NEW p \in Positions, Before(q, p), IsSchema(p), Visited(p, 1)',
             StatementAt(p).id = StatementAt(q).id
      PROVE  Reported(p, Refusals)'
  <2>1. CASE Visited(p, 1)
    <3>1. Reported(p, Refusals)
      BY <1>4, <2>1 DEF Holds
    <3> QED BY <3>1, ReportsKept DEF Reported
  <2>2. CASE ~Visited(p, 1)
    <3>1. Visit /\ phase = 0 /\ p = <<group, at>>
      BY <1>4, <2>2, VisitedMore DEF LInv
    <3> QED BY <1>4, <3>1
  <2> QED BY <2>1, <2>2
<1> QED BY <1>1, <1>2, <1>3, <1>4 DEF Holds, IsSchema, Before

LEMMA StepOwnersHold ==
    ASSUME NamesAreNoKeywords, LInv, Restarted, OwnersHold, DeclarationsAnswered, [LoadNext]_all
    PROVE  OwnersHold'
<1>0. /\ \A p : StatementAt(p)' = StatementAt(p)
      /\ Positions' = Positions /\ program' = program
  BY ProgramKept
<1> SUFFICES ASSUME NEW id \in Ids, index'["schema"][id] # 0
             PROVE  \E q \in Positions :
                        /\ Holds(q)' /\ StatementAt(q).id = id
                        /\ Stored("schema", id)'.owner = program[q[1]].owner
  BY <1>0 DEF OwnersHold
<1>1. CASE ~(Visit /\ phase = 0 /\ Statements[at].key = "schema")
  <2>1. PICK q \in Positions : /\ Holds(q) /\ StatementAt(q).id = id
                               /\ Stored("schema", id).owner = program[q[1]].owner
    BY <1>1, OwnersKept DEF OwnersHold
  <2>2. Stored("schema", id)'.owner = program[q[1]].owner
    BY <1>1, <2>1, OwnersKept
  <2>3. ASSUME NEW p \in Positions, Visit, phase = 0, p = <<group, at>>, IsSchema(p)
        PROVE  FALSE
    BY <1>1, <2>3, OneVisited DEF IsSchema, LInv
  <2>4. Holds(q)'
    BY <2>1, <2>3, HoldsOn
  <2> QED BY <2>1, <2>2, <2>4
<1>2. ASSUME Visit, phase = 0, NEW s, s = Statements[at], s.key = "schema",
             NEW o, o = <<group, at>>
      PROVE  \E q \in Positions :
                 /\ Holds(q)' /\ StatementAt(q).id = id
                 /\ Stored("schema", id)'.owner = program[q[1]].owner
  <2>1. /\ o \in Positions /\ StatementAt(o) = s /\ IsSchema(o)
        /\ ~Visited(o, 1) /\ Visited(o, 1)'
        /\ \A p \in Positions : Before(o, p) => ~Visited(p, 1)'
    BY <1>2, OneVisited DEF LInv, IsSchema
  <2>2. ~Reported(o, Refusals)
    BY <2>1 DEF DeclarationsAnswered
  <2>3. CASE ~Reported(o, Refusals)' /\ id = s.id
    <3>1. Stored("schema", id)'.owner = program[o[1]].owner
      BY <1>2, <2>2, <2>3, FormVisited
    <3>2. Holds(o)'
      BY <1>0, <2>1, <2>3 DEF Holds, IsSchema, Before
    <3> QED BY <2>1, <2>3, <3>1, <3>2
  <2>4. CASE Reported(o, Refusals)' \/ id # s.id
    <3>1. index["schema"][id] # 0 /\ Stored("schema", id)' = Stored("schema", id)
      BY <1>2, <2>2, <2>4, FormVisited
    <3>2. PICK q \in Positions : /\ Holds(q) /\ StatementAt(q).id = id
                                 /\ Stored("schema", id).owner = program[q[1]].owner
      BY <3>1 DEF OwnersHold
    <3>3. Holds(q)'
      BY <1>2, <2>1, <2>4, <3>2, HoldsOn
    <3> QED BY <3>1, <3>2, <3>3
  <2> QED BY <2>3, <2>4
<1> QED BY <1>1, <1>2

LEMMA StepDeclarationsAnswered ==
    ASSUME NamesAreNoKeywords, LInv, Restarted, DeclarationsAnswered, [LoadNext]_all
    PROVE  DeclarationsAnswered'
<1>0. /\ \A p : StatementAt(p)' = StatementAt(p)
      /\ Positions' = Positions
  BY ProgramKept
<1> SUFFICES ASSUME NEW q \in Positions, IsSchema(q)
             PROVE  /\ (Visited(q, 1)' /\ ~Reported(q, Refusals)') =>
                            index'["schema"][StatementAt(q).id] # 0
                    /\ Reported(q, Refusals)' => Visited(q, 1)'
  BY <1>0 DEF DeclarationsAnswered, IsSchema
<1>1. StatementAt(q).id \in Ids
  BY PositionType DEF LInv, Statement
<1>2. ASSUME Visited(q, 1)', ~Reported(q, Refusals)'
      PROVE  index'["schema"][StatementAt(q).id] # 0
  <2>1. ~Reported(q, Refusals)
    BY <1>2, ReportsKept DEF Reported
  <2>2. CASE Visited(q, 1)
    <3>1. index["schema"][StatementAt(q).id] # 0
      BY <2>1, <2>2 DEF DeclarationsAnswered
    <3> QED BY <1>1, <3>1, IndexKept, LoadStepIsRegistryStep DEF LInv, Kinds
  <2>3. CASE ~Visited(q, 1)
    <3>1. Visit /\ phase = 0 /\ q = <<group, at>> /\ StatementAt(q) = Statements[at]
      BY <1>2, <2>3, VisitedMore DEF LInv
    <3> QED BY <1>2, <2>1, <3>1, FormVisited DEF IsSchema
  <2> QED BY <2>2, <2>3
<1>3. ASSUME Reported(q, Refusals)' PROVE Visited(q, 1)'
  <2>1. CASE Reported(q, Refusals)
    <3>1. Visited(q, 1)
      BY <2>1 DEF DeclarationsAnswered
    <3> QED BY <3>1, VisitedKept DEF LInv
  <2>2. CASE ~Reported(q, Refusals)
    <3>1. Visit /\ phase = 0 /\ q = <<group, at>>
      BY <1>3, <2>2, RefusedInPassOne
    <3> QED BY <3>1, OneVisited DEF LInv
  <2> QED BY <2>1, <2>2
<1> QED BY <1>2, <1>3

\* The second pass takes a manifest from every instance of `library`.
LEMMA StepManifestsCollected ==
    ASSUME NamesAreNoKeywords, LInv, Restarted, ManifestsCollected, [LoadNext]_all
    PROVE  ManifestsCollected'
<1> DEFINE Kept == [group : Nat, at : Nat, owner : Owners, provides : SUBSET Ids \cup {Undeclared}]
           Noted == {libraries[i] : i \in DOMAIN libraries}
           Written == {q \in Positions : IsManifest(q) /\ Visited(q, 2)}
<1>0. /\ \A p : StatementAt(p)' = StatementAt(p)
      /\ Positions' = Positions /\ program' = program
  BY ProgramKept
<1>1. ASSUME NEW q \in Positions, Visit, phase = 1, q = <<group, at>>, IsManifest(q)
      PROVE  ManifestsCollected'
  <2>1. StatementAt(q) = Statements[at] /\ Visited(q, 2)'
    BY <1>1, OneVisited DEF LInv
  <2>2. q[1] = group /\ q[2] = at /\ Owner = program[q[1]].owner
    BY <1>1 DEF Owner
  <2>3. FoldDeclarations(Statements[at])
    BY <1>1 DEF Visit, Passes
  <2>4. Statements[at].key \notin Forms \cup {"object"} /\ Statements[at].key = Library
    BY <1>1, <2>1 DEF NamesAreNoKeywords, IsManifest
  <2>5. CollectManifest(Statements[at])
    BY <2>3, <2>4 DEF FoldDeclarations, Forms
  <2>6. libraries' = Append(libraries, ManifestAt(q))
    BY <2>1, <2>2, <2>4, <2>5 DEF CollectManifest, ManifestAt
  <2>7. Owner \in Owners /\ Statements[at] \in Statement
    BY <1>1, VisitedStatement DEF LInv, Visit
  <2>8. ManifestAt(q) \in Kept
    BY <2>1, <2>2, <2>7 DEF ManifestAt, Statement, LInv, PositionOK
  <2>9. libraries \in Seq(Kept)
    BY DEF ManifestsCollected
  <2> HIDE DEF Kept
  <2>10. libraries' \in Seq(Kept)
    BY <2>6, <2>8, <2>9
  <2>11. Noted' = Noted \cup {ManifestAt(q)}
    BY <2>6, <2>8, <2>9
  <2>12. Written' = Written \cup {q}
    <3>1. \A p \in Positions : Visited(p, 2) => Visited(p, 2)'
      BY VisitedKept DEF LInv
    <3>2. \A p \in Positions : Visited(p, 2)' => Visited(p, 2) \/ p = q
      BY <1>1, VisitedMore DEF LInv
    <3> QED BY <1>0, <1>1, <2>1, <3>1, <3>2 DEF IsManifest
  <2>13. \A p : ManifestAt(p)' = ManifestAt(p)
    BY <1>0 DEF ManifestAt
  <2> QED BY <2>10, <2>11, <2>12, <2>13 DEF ManifestsCollected, Kept
<1>2. ASSUME \A q \in Positions : ~(Visit /\ phase = 1 /\ q = <<group, at>> /\ IsManifest(q))
      PROVE  ManifestsCollected'
  <2>1. UNCHANGED libraries
    <3>1. CASE Visit /\ phase = 1
      <4>1. ASSUME NEW q, q = <<group, at>> PROVE Statements[at].key # Library
        BY <1>2, <3>1, <4>1, OneVisited DEF LInv, IsManifest
      <4>2. Statements[at].key # Library
        BY <4>1
      <4>3. FoldDeclarations(Statements[at])
        BY <3>1 DEF Visit, Passes
      <4> QED BY <4>2, <4>3 DEF FoldDeclarations, FoldDeclaration, CollectManifest, lists
    <3>2. CASE Visit /\ phase # 1
      <4>1. ReadSchemas(Statements[at]) \/ NoteObjects(Statements[at]) \/ CheckTopLevel(Statements[at])
        BY <3>2 DEF Visit, Passes, LInv, PositionOK
      <4> QED BY <4>1 DEF ReadSchemas, NoteObjects, CheckTopLevel, lists
    <3> QED BY <3>1, <3>2 DEF LoadNext, NextPass, NextGroup, CheckRequirements,
                              CheckLibraryManifests, lists, all
  <2>2. \A p \in Positions : IsManifest(p) => (Visited(p, 2)' <=> Visited(p, 2))
    BY <1>2, VisitedMore, VisitedKept DEF LInv
  <2>3. Written' = Written
    BY <1>0, <2>2 DEF IsManifest
  <2>4. \A p : ManifestAt(p)' = ManifestAt(p)
    BY <1>0 DEF ManifestAt
  <2> QED BY <2>1, <2>3, <2>4 DEF ManifestsCollected
<1> QED BY <1>1, <1>2

LEMMA StepNoneEarly ==
    ASSUME LInv, NoneEarly, [LoadNext]_all
    PROVE  NoneEarly'
<1> SUFFICES ASSUME ~Loaded' PROVE \A r \in reports' : r.code # "ProvidesMismatch"
  BY DEF NoneEarly
<1>1. CASE Loaded
  BY <1>1 DEF Loaded, LoadNext, Visit, NextPass, NextGroup, CheckRequirements,
               CheckLibraryManifests, all
<1>2. CASE ~Loaded
  <2>1. \A r \in reports : r.code # "ProvidesMismatch"
    BY <1>2 DEF NoneEarly
  <2>2. CASE Visit
    <3> DEFINE s == Statements[at]
    <3>1. last'.answer \in Answers
      BY StepLInv DEF LInv, IInv, TypeOK
    <3>2. ReadSchemas(s) \/ FoldDeclarations(s) \/ NoteObjects(s) \/ CheckTopLevel(s)
      BY <2>2 DEF Visit
    <3> HIDE DEF s
    <3>3. \/ ReportAnswer(s) \/ UNCHANGED reports
          \/ Report(s, "CoreReserved") \/ Report(s, "UnknownKey")
          \/ Report(s, "KeyMissing") \/ Report(s, "RefUnresolved")
      BY <3>2 DEF ReadSchemas, FoldDeclarations, FoldDeclaration, NoteObjects, CheckTopLevel
    <3>4. "ProvidesMismatch" \notin Answers
      BY DEF Answers, Refusals
    <3> QED BY <2>1, <3>1, <3>3, <3>4 DEF ReportAnswer, Report
  <2>3. CASE CheckRequirements
    BY <2>1, <2>3 DEF CheckRequirements, Failure
  <2>4. CASE UNCHANGED reports
    BY <2>1, <2>4
  <2>5. ~CheckLibraryManifests
    BY DEF CheckLibraryManifests, Loaded
  <2> QED BY <2>2, <2>3, <2>4, <2>5 DEF LoadNext, NextPass, NextGroup, all
<1> QED BY <1>1, <1>2

\* When all has been visited, the forms of an owner are those whose ids its
\* declarations hold.
LEMMA FormsAreHeld ==
    ASSUME LInv, OwnersHold, DeclarationsAnswered, group = Len(program) + 1, NEW owner
    PROVE  FormsOf(owner) =
             {StatementAt(q).id : q \in {q \in Positions : /\ LastDeclared(q)
                                                           /\ program[q[1]].owner = owner}}
<1>1. ASSUME NEW q \in Positions PROVE Visited(q, 1) /\ (LastDeclared(q) <=> Holds(q))
  <2>1. \A p \in Positions : Visited(p, 1)
    BY PositionType, ProgramsAssumption DEF LInv, PositionOK, Visited
  <2> QED BY <2>1 DEF LastDeclared, Holds, IsSchema
<1>2. ASSUME NEW id \in FormsOf(owner)
      PROVE  \E q \in Positions : /\ LastDeclared(q) /\ program[q[1]].owner = owner
                                  /\ StatementAt(q).id = id
  <2>1. PICK i \in DOMAIN stores["schemas"] : /\ stores["schemas"][i].owner = owner
                                              /\ stores["schemas"][i].id = id
    BY <1>2 DEF FormsOf
  <2> DEFINE d == stores["schemas"][i]
  <2>2. stores["schemas"] \in Seq(Decl)
    BY DEF LInv, IInv, TypeOK, StoresTypeOK, Stores
  <2>3. d \in Decl
    BY <2>1, <2>2, ElementType
  <2>4. StoreOf(d.kind) = "schemas" /\ index[d.kind][d.id] = i
    BY <2>1 DEF LInv, IInv, StoresIndexed, Stores
  <2>5. d.kind = "schema" /\ d.id \in Ids
    BY <2>3, <2>4 DEF Decl, Kinds, StoreOf
  <2>6. index["schema"][id] = i /\ i # 0 /\ Stored("schema", id).owner = owner /\ id \in Ids
    BY <2>1, <2>2, <2>4, <2>5 DEF Stored, StoreOf
  <2>7. PICK q \in Positions : /\ Holds(q) /\ StatementAt(q).id = id
                               /\ Stored("schema", id).owner = program[q[1]].owner
    BY <2>6 DEF OwnersHold
  <2> QED BY <1>1, <2>6, <2>7
<1>3. ASSUME NEW q \in Positions, LastDeclared(q), program[q[1]].owner = owner
      PROVE  StatementAt(q).id \in FormsOf(owner)
  <2> DEFINE id == StatementAt(q).id
  <2>1. Holds(q) /\ id \in Ids
    BY <1>1, <1>3, PositionType DEF LInv, Statement
  <2>2. index["schema"][id] # 0
    BY <2>1 DEF DeclarationsAnswered, Holds
  <2>3. PICK p \in Positions : /\ Holds(p) /\ StatementAt(p).id = id
                               /\ Stored("schema", id).owner = program[p[1]].owner
    BY <2>1, <2>2 DEF OwnersHold
  <2>4. ~Before(p, q) /\ ~Before(q, p)
    BY <2>1, <2>3 DEF Holds
  <2>5. p = q
    <3>1. /\ p = <<p[1], p[2]>> /\ q = <<q[1], q[2]>>
          /\ p[1] \in Nat /\ p[2] \in Nat /\ q[1] \in Nat /\ q[2] \in Nat
      BY PositionType DEF LInv
    <3> QED BY <2>4, <3>1 DEF Before
  <2>6. Stored("schema", id).owner = owner
    BY <1>3, <2>3, <2>5
  <2>7. /\ index["schema"][id] \in DOMAIN stores["schemas"]
        /\ Stored("schema", id) = stores["schemas"][index["schema"][id]]
        /\ Stored("schema", id).id = id
    BY <2>1, <2>2, IndexedSlot, SMTT(30) DEF LInv, IInv, TypeOK, StoresTypeOK, Kinds, Stored, StoreOf, Stores
  <2> QED BY <2>6, <2>7 DEF FormsOf
<1> QED BY <1>2, <1>3

LEMMA StepManifestsChecked ==
    ASSUME LInv, OwnersHold, DeclarationsAnswered, ManifestsCollected, NoneEarly,
           ManifestsChecked, [LoadNext]_all
    PROVE  ManifestsChecked'
<1>0. /\ \A p : StatementAt(p)' = StatementAt(p)
      /\ Positions' = Positions /\ program' = program
  BY ProgramKept
<1> SUFFICES ASSUME Loaded' PROVE ManifestsChecked'
  BY DEF ManifestsChecked
<1>1. CASE UNCHANGED all
  BY <1>0, <1>1 DEF ManifestsChecked, Loaded, LastDeclared, Reported, all
<1>2. CASE ~UNCHANGED all
  <2>1. CheckLibraryManifests
    BY <1>2 DEF Loaded, LoadNext, Visit, NextPass, NextGroup, CheckRequirements,
                LInv, PositionOK, Passes
  <2>2. group = Len(program) + 1 /\ ~Loaded
    BY <2>1 DEF CheckLibraryManifests, Loaded
  <2>3. \A r \in reports : r.code # "ProvidesMismatch"
    BY <2>2 DEF NoneEarly
  <2>4. ASSUME NEW p \in Positions
        PROVE  Reported(p, {"ProvidesMismatch"})' <=>
                   \E i \in DOMAIN libraries :
                       Mismatched(libraries[i]) /\ <<libraries[i].group, libraries[i].at>> = p
    <3>1. ASSUME NEW i \in DOMAIN libraries, Mismatched(libraries[i]),
                 <<libraries[i].group, libraries[i].at>> = p
          PROVE  Reported(p, {"ProvidesMismatch"})'
      <4> DEFINE r == [group |-> libraries[i].group, at |-> libraries[i].at,
                       code |-> "ProvidesMismatch"]
      <4>1. r \in reports' /\ <<r.group, r.at>> = p /\ r.code = "ProvidesMismatch"
        BY <2>1, <3>1 DEF CheckLibraryManifests
      <4> HIDE DEF r
      <4> QED BY <4>1 DEF Reported
    <3>2. ASSUME Reported(p, {"ProvidesMismatch"})'
          PROVE  \E i \in DOMAIN libraries :
                     Mismatched(libraries[i]) /\ <<libraries[i].group, libraries[i].at>> = p
      BY <2>1, <2>3, <3>2 DEF CheckLibraryManifests, Reported
    <3> QED BY <3>1, <3>2
  <2>5. ASSUME NEW p \in Positions
        PROVE  (\E i \in DOMAIN libraries :
                    Mismatched(libraries[i]) /\ <<libraries[i].group, libraries[i].at>> = p)
                 <=> IsManifest(p) /\ Mismatched(ManifestAt(p))
    <3>1. \A q \in Positions : Visited(q, 2) /\ <<q[1], q[2]>> = q
      BY <2>2, PositionType, ProgramsAssumption DEF LInv, PositionOK, Visited
    <3>2. \A q : ManifestAt(q).group = q[1] /\ ManifestAt(q).at = q[2]
      BY DEF ManifestAt
    <3>3. {libraries[i] : i \in DOMAIN libraries} =
              {ManifestAt(q) : q \in {q \in Positions : IsManifest(q) /\ Visited(q, 2)}}
      BY DEF ManifestsCollected
    <3>4. ASSUME NEW i \in DOMAIN libraries, Mismatched(libraries[i]),
                 <<libraries[i].group, libraries[i].at>> = p
          PROVE  IsManifest(p) /\ Mismatched(ManifestAt(p))
      <4>1. PICK q \in Positions : IsManifest(q) /\ libraries[i] = ManifestAt(q)
        BY <3>3
      <4>2. q = p
        BY <3>1, <3>2, <3>4, <4>1
      <4> QED BY <3>4, <4>1, <4>2
    <3>5. ASSUME IsManifest(p), Mismatched(ManifestAt(p))
          PROVE  \E i \in DOMAIN libraries :
                     Mismatched(libraries[i]) /\ <<libraries[i].group, libraries[i].at>> = p
      <4>1. PICK i \in DOMAIN libraries : libraries[i] = ManifestAt(p)
        BY <3>1, <3>3, <3>5
      <4> QED BY <3>1, <3>2, <3>5, <4>1
    <3> QED BY <3>4, <3>5
  <2>6. ASSUME NEW p \in Positions
        PROVE  Mismatched(ManifestAt(p)) <=>
                 /\ StatementAt(p).provides # Undeclared
                 /\ StatementAt(p).provides #
                      {StatementAt(q).id : q \in {q \in Positions : /\ LastDeclared(q)
                                  /\ program[q[1]].owner = program[p[1]].owner}}
    <3>1. /\ ManifestAt(p).provides = StatementAt(p).provides
          /\ ManifestAt(p).owner = program[p[1]].owner
      BY DEF ManifestAt
    <3> QED BY <2>2, <3>1, FormsAreHeld DEF Mismatched
  <2>7. \A q : LastDeclared(q)' <=> LastDeclared(q)
    <3>1. \A q : Reported(q, Refusals)' <=> Reported(q, Refusals)
      BY <2>1 DEF CheckLibraryManifests, Reported, Refusals
    <3> QED BY <1>0, <3>1 DEF LastDeclared, Before
  <2> QED BY <1>0, <2>4, <2>5, <2>6, <2>7 DEF ManifestsChecked, IsManifest
<1> QED BY <1>1, <1>2

\* "A mismatch against the schemas the library actually declares is a warning"
\* (spec 13.3) and a match is none, for every program whose names are no
\* keywords: what the check reads off the registry once all has loaded is who
\* declared or superseded each form last, and no manifest is missed.
THEOREM ManifestsAreChecked ==
    ASSUME NamesAreNoKeywords
    PROVE  LoadSpec => []ManifestsChecked
<1>1. LoadInit => MInv
  <2> SUFFICES ASSUME LoadInit PROVE MInv
    OBVIOUS
  <2>1. PositionOK /\ libraries = <<>> /\ reports = {} /\ ~Loaded
    BY ProgramsAssumption DEF LoadInit, PositionOK, Loaded
  <2>2. \A q \in Positions : ~Visited(q, 1) /\ ~Visited(q, 2)
    BY <2>1, PositionType DEF LoadInit, Visited
  <2>3. OwnersHold
    BY DEF LoadInit, Init, OwnersHold, Kinds
  <2>4. DeclarationsAnswered
    BY <2>1, <2>2 DEF DeclarationsAnswered, Reported
  <2>5. ManifestsCollected
    BY <2>1, <2>2 DEF ManifestsCollected
  <2> QED BY <2>1, <2>3, <2>4, <2>5 DEF LoadInit, MInv, Restarted, Passes, NoneEarly,
                                        ManifestsChecked
<1>2. LInv /\ MInv /\ [LoadNext]_all => MInv'
  <2> SUFFICES ASSUME LInv, MInv, [LoadNext]_all PROVE MInv'
    OBVIOUS
  <2>1. Restarted'
    BY DEF LInv, PositionOK, MInv, Restarted, Passes, LoadNext, Visit, NextPass, NextGroup,
           CheckRequirements, CheckLibraryManifests, all
  <2> QED BY <2>1, StepOwnersHold, StepDeclarationsAnswered, StepManifestsCollected,
             StepNoneEarly, StepManifestsChecked DEF MInv
<1>3. MInv => ManifestsChecked
  BY DEF MInv
<1> QED BY <1>1, <1>2, <1>3, AlwaysLInv, PTL DEF LoadSpec

-----------------------------------------------------------------------------
(* Duplicates *)

Dups == {"SchemaDuplicate", "SchemaSealed"}
Unknown == {"UnknownKey", "RefUnresolved"}

\* What a statement declares does not change while the program loads: no name
\* is both a form's and a class's, and no extension gives a form the key its
\* instances are told apart by.
NamesKeepTheirMeaning ==
    /\ \A p, q \in Positions :
          (StatementAt(p).key = "schema" /\ StatementAt(q).key = "class") =>
              StatementAt(p).id # StatementAt(q).id
    /\ \A p \in Positions, n \in Names :
          (StatementAt(p).key = "schema_extension" /\ StatementAt(p).members[n] # Undeclared) =>
              UniqueIn[StatementAt(p).members[n]] = NoSpace

PlainProgram == /\ NamesKeepTheirMeaning
                /\ \A p \in Positions : StatementAt(p).replaces = NoReplaces

\* Where the statement declares its id, and the pass that offers it.
Space(q) == Namespace(StatementAt(q))
PassOf(space) == IF space = "schema" THEN 1 ELSE IF space = "object" THEN 3 ELSE 2

\* It was offered; and nothing was found unknown in it.
Done(q) == Space(q) # NoSpace /\ Visited(q, PassOf(Space(q)))
Live(q) == Done(q) /\ ~Reported(q, Unknown)
SameId(q, p) == Space(q) = Space(p) /\ StatementAt(q).id = StatementAt(p).id

\* The statement is offered by the pass that visits it.
Offers(s) == Namespace(s) # NoSpace /\ phase = PassOf(Namespace(s)) - 1

\* A form or a class is one that a statement declares.
NamesDeclared ==
    \A k \in {"schema", "class"}, id \in Ids : At(k, id) # 0 =>
        \E q \in Positions : StatementAt(q).key = k /\ StatementAt(q).id = id

\* What declared nothing when its group was checked never will, or was
\* reported then.
Never(s) ==
    \/ s.key \notin Ids \cup {"object"}
    \/ s.key \in Ids /\ IsForm(s.key)
    \/ s.key = "object" /\ s.of \notin Ids

NothingLate ==
    \A p \in Positions :
        /\ (Visited(p, 4) /\ Space(p) = NoSpace) =>
              Never(StatementAt(p)) \/ Reported(p, Unknown)
        /\ Reported(p, Unknown) => Visited(p, 4)

\* The ledger has an entry for what was declared, and for nothing else.
LedgerIsLive ==
    /\ \A p \in Positions : Live(p) => At(Space(p), StatementAt(p).id) # 0
    /\ \A space \in Spaces, id \in Ids : At(space, id) # 0 =>
          \E q \in Positions : Live(q) /\ Space(q) = space /\ StatementAt(q).id = id

\* A refused duplicate is one that another declaration stands before.
DuplicatesKnown ==
    \A p \in Positions :
        /\ Reported(p, Dups) => Done(p)
        /\ Live(p) => ((\E q \in Positions : Before(q, p) /\ Live(q) /\ SameId(q, p))
                          <=> Reported(p, Dups))

\* The inductive invariant.
DInv == PlainProgram => NothingLate /\ LedgerIsLive /\ DuplicatesKnown

\* No name is a keyword, no form declares its ids in a namespace of the
\* registry's own, and the values that stand for nothing are none of these.
NamesApart ==
    /\ NamesAreNoKeywords
    /\ GenericSpaces \cap Kinds = {}
    /\ NoSpace \notin Spaces /\ Undeclared \notin Ids

\* No name is both a form's and a class's.
Clear == \A id : ~(IsForm(id) /\ IsClass(id))

SpacesOfForms ==
    \A s \in Statement : (IsForm(s.key) /\ WritesId(s)) => SpaceOf(s.key) \in GenericSpaces

\* What the namespaces rest on, and needs no history.
NInv == Restarted /\ DeclaredIsStored /\ (PlainProgram => NamesDeclared)
BInv == LInv /\ NInv /\ SpacesOfForms /\ (PlainProgram => Clear)

\* The step offers the id of that statement.
Offered(q) == Visit /\ q = <<group, at>> /\ Offers(StatementAt(q))

\* No name is both a form's and a class's.
LEMMA OneMeaning ==
    ASSUME LInv, NamesKeepTheirMeaning, NamesDeclared, NEW id
    PROVE  ~(IsForm(id) /\ IsClass(id))
<1> SUFFICES ASSUME IsForm(id), IsClass(id) PROVE FALSE
  OBVIOUS
<1>1. id \in Ids /\ index["schema"][id] # 0 /\ index["class"][id] # 0
  BY DEF IsForm, IsClass
<1>2. At("schema", id) # 0 /\ At("class", id) # 0
  BY <1>1 DEF LInv, IInv, StoredIsDeclared, Kinds
<1>3. PICK p \in Positions : StatementAt(p).key = "schema" /\ StatementAt(p).id = id
  BY <1>1, <1>2 DEF NamesDeclared
<1>4. PICK q \in Positions : StatementAt(q).key = "class" /\ StatementAt(q).id = id
  BY <1>1, <1>2 DEF NamesDeclared
<1> QED BY <1>3, <1>4 DEF NamesKeepTheirMeaning

\* What is declared where.
LEMMA SpaceShape ==
    ASSUME NamesApart, LInv, NEW s \in Statement
    PROVE  /\ Namespace(s) \in Spaces \cup {NoSpace}
           /\ \A k \in {"schema", "class", "trait", "enum", "global"} : Namespace(s) = k <=> s.key = k
           /\ s.key \in {"schema_extension", "class_extension", "core_requirement"} =>
                 Namespace(s) = NoSpace
           /\ Namespace(s) = "object" => ObjectClass(s) # Undeclared
           /\ (ObjectClass(s) # Undeclared /\ ~(IsForm(s.key) /\ WritesId(s))) =>
                 Namespace(s) = "object"
           /\ (IsForm(s.key) /\ WritesId(s)) =>
                 Namespace(s) = SpaceOf(s.key) /\ Namespace(s) \in GenericSpaces
<1> DEFINE Own == {"schema", "class", "trait", "enum", "global"}
<1>1. /\ Own \cap Ids = {} /\ "object" \notin Ids
      /\ {"schema_extension", "class_extension", "core_requirement"} \cap Ids = {}
  BY DEF NamesApart, NamesAreNoKeywords, Forms
<1>2. Own \subseteq Spaces /\ "object" \in Spaces /\ GenericSpaces \subseteq Spaces
      /\ Own \cap GenericSpaces = {} /\ "object" \notin GenericSpaces
  BY DEF NamesApart, Spaces, Kinds
<1>3. NoSpace \notin Spaces
  BY DEF NamesApart
<1>4. (IsForm(s.key) /\ WritesId(s)) => SpaceOf(s.key) \in GenericSpaces
  BY SpaceOfForm DEF LInv, IInv
<1>5. IsForm(s.key) => s.key \in Ids
  BY DEF IsForm
<1>6. ObjectClass(s) # Undeclared => s.key = "object" \/ s.key \in Ids
  BY DEF ObjectClass, IsClass
<1>7. Namespace(s) = IF s.key \in Own THEN s.key
                     ELSE IF IsForm(s.key) /\ WritesId(s) THEN SpaceOf(s.key)
                     ELSE IF ObjectClass(s) # Undeclared THEN "object"
                     ELSE NoSpace
  BY DEF Namespace
<1>8. CASE s.key \in Own
  BY <1>1, <1>2, <1>3, <1>5, <1>6, <1>7, <1>8
<1>9. CASE s.key \notin Own
  <2>1. CASE IsForm(s.key) /\ WritesId(s)
    BY <1>1, <1>2, <1>3, <1>4, <1>5, <1>7, <1>9, <2>1
  <2>2. CASE ~(IsForm(s.key) /\ WritesId(s)) /\ ObjectClass(s) # Undeclared
    BY <1>1, <1>2, <1>3, <1>6, <1>7, <1>9, <2>2
  <2>3. CASE ~(IsForm(s.key) /\ WritesId(s)) /\ ObjectClass(s) = Undeclared
    BY <1>2, <1>3, <1>7, <1>9, <2>3
  <2> QED BY <2>1, <2>2, <2>3
<1> QED BY <1>8, <1>9

\* A visit offers the statement's id in its namespace when that is the pass
\* for it, and otherwise leaves the ledger alone.
LEMMA VisitOffers ==
    ASSUME NamesApart, LInv, Visit, \A id : ~(IsForm(id) /\ IsClass(id)),
           NEW s, s = Statements[at]
    PROVE  \/ /\ Offers(s)
              /\ \E d \in Declaration : /\ d.space = Namespace(s) /\ d.id = s.id
                                        /\ Offer(d, s.replaces) /\ ReportAnswer(s)
           \/ /\ ~Offers(s)
              /\ UNCHANGED <<declarations, declaration_index>>
              /\ UNCHANGED reports \/ \E code : code \notin Dups /\ Report(s, code)
<1>1. Owner \in Owners /\ s \in Statement
  BY VisitedStatement DEF LInv, Visit
<1>2. /\ s.id \in Ids /\ s.members \in Members /\ s.sealed \in BOOLEAN /\ s.root \in BOOLEAN
      /\ s.replaces \in Annotations /\ s.key \in Forms \cup {"object"} \cup Ids
  BY <1>1 DEF Statement
<1>3. Ids \cap (Forms \cup {"object"}) = {}
  BY DEF NamesApart, NamesAreNoKeywords
<1> DEFINE Given(space) == \E d \in Declaration : /\ d.space = space /\ d.id = s.id
                                                  /\ Offer(d, s.replaces) /\ ReportAnswer(s)
           Quiet == /\ UNCHANGED <<declarations, declaration_index>>
                    /\ UNCHANGED reports \/ \E code : code \notin Dups /\ Report(s, code)
<1>4. ASSUME NEW decl, decl.kind \in Kinds, decl.id = s.id, decl.owner = Owner, decl.sealed \in BOOLEAN,
             Declare(decl, s.replaces), ReportAnswer(s)
      PROVE  Given(decl.kind)
  <2>1. Entry(decl) \in Declaration /\ Entry(decl).space = decl.kind /\ Entry(decl).id = s.id
    BY <1>1, <1>2, <1>4 DEF Entry, Declaration, Spaces
  <2>2. Offer(Entry(decl), s.replaces)
    BY <1>4 DEF Declare
  <2> QED BY <1>4, <2>1, <2>2
<1>5. phase \in 0..3
  BY DEF LInv, PositionOK, Visit, Passes
<1>6. /\ Namespace(s) \in Spaces \cup {NoSpace}
      /\ \A k \in {"schema", "class", "trait", "enum", "global"} : Namespace(s) = k <=> s.key = k
      /\ s.key \in {"schema_extension", "class_extension", "core_requirement"} =>
            Namespace(s) = NoSpace
      /\ Namespace(s) = "object" => ObjectClass(s) # Undeclared
      /\ (ObjectClass(s) # Undeclared /\ ~(IsForm(s.key) /\ WritesId(s))) =>
            Namespace(s) = "object"
      /\ (IsForm(s.key) /\ WritesId(s)) =>
            Namespace(s) = SpaceOf(s.key) /\ Namespace(s) \in GenericSpaces
  BY <1>1, SpaceShape
<1>7. NoSpace \notin Spaces /\ GenericSpaces \cap Kinds = {} /\ GenericSpaces \subseteq Spaces
      /\ {"schema", "class", "trait", "enum", "global", "object"} = Kinds /\ Kinds \subseteq Spaces
  BY DEF NamesApart, Spaces, Kinds
<1>8. /\ PassOf("schema") = 1 /\ PassOf("object") = 3
      /\ \A k : k \notin {"schema", "object"} => PassOf(k) = 2
  BY DEF PassOf
<1>9. /\ phase = 0 => ReadSchemas(s)
      /\ phase = 1 => FoldDeclarations(s)
      /\ phase = 2 => NoteObjects(s)
      /\ phase = 3 => CheckTopLevel(s)
  BY DEF Visit, Passes
<1>10. UNCHANGED <<vars, reports>> => Quiet
  BY DEF vars
<1> SUFFICES \/ Offers(s) /\ Given(Namespace(s))
             \/ ~Offers(s) /\ Quiet
  OBVIOUS
<1> HIDE DEF Given, Quiet
<1>11. CASE phase = 0
  <2>1. Offers(s) <=> s.key = "schema"
    BY <1>6, <1>7, <1>8, <1>11 DEF Offers
  <2>2. CASE s.key = "schema"
    <3>1. DeclareSchema(s.id, Owner, s.sealed, s.members, s.replaces) /\ ReportAnswer(s)
      BY <1>9, <1>11, <2>2 DEF ReadSchemas
    <3> DEFINE decl == [kind |-> "schema", id |-> s.id, owner |-> Owner, sealed |-> s.sealed,
                        root |-> FALSE, parent |-> Undeclared, members |-> s.members]
    <3>2. decl.kind = "schema" /\ decl.id = s.id /\ decl.owner = Owner /\ decl.sealed \in BOOLEAN
          /\ Declare(decl, s.replaces)
      BY <1>2, <3>1 DEF DeclareSchema
    <3> HIDE DEF decl
    <3>3. Given("schema")
      BY <1>4, <1>7, <3>1, <3>2
    <3> QED BY <1>6, <2>1, <2>2, <3>3
  <2>3. CASE s.key # "schema"
    BY <1>9, <1>10, <1>11, <2>1, <2>3 DEF ReadSchemas
  <2> QED BY <2>2, <2>3
<1>12. CASE phase = 2
  <2>1. Offers(s) <=> Namespace(s) = "object"
    BY <1>6, <1>7, <1>8, <1>12 DEF Offers
  <2>2. CASE ObjectClass(s) # Undeclared
    <3>1. s.key = "object" \/ IsClass(s.key)
      BY <2>2 DEF ObjectClass
    <3>2. ~IsForm(s.key)
      BY <1>3, <3>1 DEF IsForm
    <3>3. Namespace(s) = "object"
      BY <1>6, <2>2, <3>2
    <3>4. DeclareObject(s.id, Owner, s.replaces) /\ ReportAnswer(s)
      BY <1>9, <1>12, <2>2 DEF NoteObjects
    <3> DEFINE decl == [kind |-> "object", id |-> s.id, owner |-> Owner, sealed |-> FALSE,
                        root |-> FALSE, parent |-> Undeclared, members |-> NoMembers]
    <3>5. decl.kind = "object" /\ decl.id = s.id /\ decl.owner = Owner /\ decl.sealed \in BOOLEAN
          /\ Declare(decl, s.replaces)
      BY <3>4 DEF DeclareObject
    <3> HIDE DEF decl
    <3>6. Given("object")
      BY <1>4, <1>7, <3>4, <3>5
    <3> QED BY <2>1, <3>3, <3>6
  <2>3. CASE ObjectClass(s) = Undeclared
    BY <1>6, <1>9, <1>10, <1>12, <2>1, <2>3 DEF NoteObjects
  <2> QED BY <2>2, <2>3
<1>13. CASE phase = 3
  <2>1. ~Offers(s)
    BY <1>8, <1>13 DEF Offers
  <2>2. UNCHANGED vars /\ (UNCHANGED reports \/ \E code \in Unknown \cup {"KeyMissing"} : Report(s, code))
    BY <1>9, <1>13 DEF CheckTopLevel, Unknown
  <2>3. (Unknown \cup {"KeyMissing"}) \cap Dups = {}
    BY DEF Unknown, Dups
  <2>4. Quiet
    BY <2>2, <2>3 DEF Quiet, vars
  <2> QED BY <2>1, <2>4
<1>14. CASE phase = 1
  <2>1. Offers(s) <=> Namespace(s) \notin {NoSpace, "schema", "object"}
    BY <1>8, <1>14 DEF Offers
  <2>2. CASE s.key \in {"class", "trait", "enum", "global"}
    <3>1. Offers(s) /\ Namespace(s) = s.key /\ s.key \in Kinds
      BY <1>6, <1>7, <2>1, <2>2
    <3>2. FoldDeclaration(s)
      BY <1>3, <1>9, <1>14, <2>2 DEF FoldDeclarations, IsForm, Forms
    <3>3. \E decl : /\ decl.kind = s.key /\ decl.id = s.id /\ decl.owner = Owner /\ decl.sealed \in BOOLEAN
                    /\ Declare(decl, s.replaces) /\ ReportAnswer(s)
      <4>1. CASE s.key = "class"
        <5> DEFINE root == s.root /\ s.parent = Undeclared
                   decl == [kind |-> "class", id |-> s.id, owner |-> Owner, sealed |-> s.sealed,
                            root |-> root /\ ~Demoted(s.id, root),
                            parent |-> s.parent, members |-> s.members]
        <5>1. Declare(decl, s.replaces) /\ ReportAnswer(s)
          BY <3>2, <4>1 DEF FoldDeclaration, DeclareClass
        <5>2. decl.kind = s.key /\ decl.id = s.id /\ decl.owner = Owner /\ decl.sealed \in BOOLEAN
          BY <1>2, <4>1
        <5> HIDE DEF decl
        <5> QED BY <5>1, <5>2
      <4>2. CASE s.key = "trait"
        <5> DEFINE decl == [kind |-> "trait", id |-> s.id, owner |-> Owner, sealed |-> s.sealed,
                            root |-> FALSE, parent |-> Undeclared, members |-> s.members]
        <5>1. Declare(decl, s.replaces) /\ ReportAnswer(s)
          BY <3>2, <4>2 DEF FoldDeclaration, DeclareTrait
        <5>2. decl.kind = s.key /\ decl.id = s.id /\ decl.owner = Owner /\ decl.sealed \in BOOLEAN
          BY <1>2, <4>2
        <5> HIDE DEF decl
        <5> QED BY <5>1, <5>2
      <4>3. CASE s.key = "enum"
        <5> DEFINE decl == [kind |-> "enum", id |-> s.id, owner |-> Owner, sealed |-> s.sealed,
                            root |-> FALSE, parent |-> Undeclared, members |-> NoMembers]
        <5>1. Declare(decl, s.replaces) /\ ReportAnswer(s)
          BY <3>2, <4>3 DEF FoldDeclaration, DeclareEnum
        <5>2. decl.kind = s.key /\ decl.id = s.id /\ decl.owner = Owner /\ decl.sealed \in BOOLEAN
          BY <1>2, <4>3
        <5> HIDE DEF decl
        <5> QED BY <5>1, <5>2
      <4>4. CASE s.key = "global"
        <5> DEFINE decl == [kind |-> "global", id |-> s.id, owner |-> Owner, sealed |-> FALSE,
                            root |-> FALSE, parent |-> Undeclared, members |-> NoMembers]
        <5>1. Declare(decl, s.replaces) /\ ReportAnswer(s)
          BY <3>2, <4>4 DEF FoldDeclaration, DeclareGlobal
        <5>2. decl.kind = s.key /\ decl.id = s.id /\ decl.owner = Owner /\ decl.sealed \in BOOLEAN
          BY <4>4
        <5> HIDE DEF decl
        <5> QED BY <5>1, <5>2
      <4> QED BY <2>2, <4>1, <4>2, <4>3, <4>4
    <3>4. PICK decl : /\ decl.kind = s.key /\ decl.id = s.id /\ decl.owner = Owner /\ decl.sealed \in BOOLEAN
                      /\ Declare(decl, s.replaces) /\ ReportAnswer(s)
      BY <3>3
    <3>5. Given(decl.kind)
      BY <1>4, <3>1, <3>4
    <3> QED BY <3>1, <3>4, <3>5
  <2>3. CASE s.key \in {"schema_extension", "class_extension", "core_requirement"}
    <3>1. ~Offers(s)
      BY <1>6, <2>1, <2>3
    <3>2. FoldDeclaration(s)
      BY <1>3, <1>9, <1>14, <2>3 DEF FoldDeclarations, IsForm, Forms
    <3>3. ASSUME UNCHANGED <<declarations, declaration_index>>, last'.answer \notin Dups, ReportAnswer(s)
          PROVE  Quiet
      BY <3>3 DEF Quiet, ReportAnswer
    <3>4. CASE s.key = "schema_extension"
      <4>1. ApplySchemaExtension(s.id, s.members) /\ ReportAnswer(s)
        BY <3>2, <3>4 DEF FoldDeclaration
      <4>2. last'.answer \notin Dups
        BY <4>1 DEF ApplySchemaExtension, Dups
      <4> QED BY <3>1, <3>3, <4>1, <4>2 DEF ApplySchemaExtension
    <3>5. CASE s.key = "class_extension" /\ s.of \in {"class", "trait"}
      <4>1. ApplyExtension(s.of, s.id, s.reparent, s.members) /\ ReportAnswer(s)
        BY <3>2, <3>5 DEF FoldDeclaration
      <4>2. last'.answer \notin Dups
        BY <4>1 DEF ApplyExtension, Dups
      <4> QED BY <3>1, <3>3, <4>1, <4>2 DEF ApplyExtension
    <3>6. CASE s.key = "class_extension" /\ s.of \notin {"class", "trait"}
      BY <1>10, <3>1, <3>2, <3>6 DEF FoldDeclaration
    <3>7. CASE s.key = "core_requirement"
      <4>1. UNCHANGED vars /\ (UNCHANGED reports \/ Report(s, "CoreReserved"))
        BY <3>2, <3>7 DEF FoldDeclaration
      <4>2. "CoreReserved" \notin Dups
        BY DEF Dups
      <4>3. Quiet
        BY <4>1, <4>2 DEF Quiet, vars
      <4> QED BY <3>1, <4>3
    <3> QED BY <2>3, <3>4, <3>5, <3>6, <3>7
  <2>4. CASE s.key \in {"schema", "object"}
    <3>1. ~Offers(s)
      BY <1>3, <1>6, <2>1, <2>4 DEF Namespace, IsForm
    <3>2. s.key \notin Ids /\ s.key \notin Forms \ {"schema"}
      BY <1>3, <2>4 DEF Forms
    <3>3. UNCHANGED <<vars, reports>>
      BY <1>9, <1>14, <2>4, <3>2 DEF FoldDeclarations, IsForm, lists
    <3> QED BY <1>10, <3>1, <3>3
  <2>5. CASE s.key \in Ids /\ IsForm(s.key) /\ WritesId(s)
    <3>1. Namespace(s) = SpaceOf(s.key) /\ Namespace(s) \in GenericSpaces
      BY <1>6, <2>5
    <3>2. Offers(s)
      BY <1>7, <2>1, <3>1
    <3>7. s.key \notin Forms \cup {"object"} /\ s.key \notin {"schema", "object"}
      BY <1>3, <2>5 DEF Forms
    <3>3. OfferGeneric(SpaceOf(s.key), s.id, Owner, s.replaces) /\ ReportAnswer(s)
      BY <1>9, <1>14, <2>5, <3>7 DEF FoldDeclarations
    <3> DEFINE d == [space |-> SpaceOf(s.key), id |-> s.id, owner |-> Owner, sealed |-> FALSE]
    <3>4. d \in Declaration /\ d.space = Namespace(s) /\ d.id = s.id
      BY <1>1, <1>2, <1>7, <3>1 DEF Declaration
    <3>5. Offer(d, s.replaces)
      BY <3>3 DEF OfferGeneric
    <3> HIDE DEF d
    <3>6. Given(Namespace(s))
      BY <3>3, <3>4, <3>5 DEF Given
    <3> QED BY <3>2, <3>6
  <2>6. CASE s.key \in Ids /\ ~(IsForm(s.key) /\ WritesId(s))
    <3>1. Namespace(s) \in {"object", NoSpace}
      BY <1>3, <2>6 DEF Namespace, Forms
    <3>2. UNCHANGED <<vars, reports>>
      BY <1>3, <1>9, <1>14, <2>6 DEF FoldDeclarations
    <3> QED BY <1>10, <2>1, <3>1, <3>2
  <2> QED BY <1>2, <2>2, <2>3, <2>4, <2>5, <2>6 DEF Forms
<1> QED BY <1>5, <1>11, <1>12, <1>13, <1>14

\* The visit enters what it offers, and nothing else.
LEMMA LedgerGrows ==
    ASSUME NamesApart, LInv, Visit, Clear, NEW s, s = Statements[at], s.replaces = NoReplaces,
           NEW k \in Spaces, NEW i \in Ids
    PROVE  declaration_index'[<<k, i>>] # 0 <=>
               At(k, i) # 0 \/ (Offers(s) /\ k = Namespace(s) /\ i = s.id)
<1>1. LedgerTypeOK /\ NoReplaces \in Annotations
  BY DEF LInv, IInv, TypeOK, Annotations
<1>2. \A id : ~(IsForm(id) /\ IsClass(id))
  BY DEF Clear
<1>3. CASE ~Offers(s)
  BY <1>2, <1>3, VisitOffers DEF At
<1>4. CASE Offers(s)
  <2>1. PICK d \in Declaration : /\ d.space = Namespace(s) /\ d.id = s.id
                                 /\ Offer(d, NoReplaces) /\ ReportAnswer(s)
    BY <1>2, <1>4, VisitOffers
  <2>2. Len(declarations) \in Nat /\ declaration_index \in [Spaces \X Ids -> Nat]
    BY <1>1 DEF LedgerTypeOK
  <2>3. CASE At(Namespace(s), s.id) = 0
    <3>1. Verdict(d, NoReplaces) = "Fresh"
      BY <2>1, <2>3 DEF Verdict
    <3>2. declaration_index' = [declaration_index EXCEPT ![<<d.space, d.id>>] = Len(declarations) + 1]
      BY <1>1, <2>1, <3>1, OfferCases DEF Refusals
    <3>3. declaration_index'[<<k, i>>] = IF k = d.space /\ i = d.id THEN Len(declarations) + 1
                                         ELSE declaration_index[<<k, i>>]
      BY <2>2, <3>2
    <3>4. Len(declarations) + 1 # 0
      BY <2>2
    <3> QED BY <1>4, <2>1, <3>3, <3>4 DEF At
  <2>4. CASE At(Namespace(s), s.id) # 0
    <3>1. Verdict(d, NoReplaces) \in Dups
      BY <2>1, <2>4 DEF Verdict, Dups
    <3>2. declaration_index' = declaration_index
      BY <1>1, <2>1, <3>1, OfferCases DEF Dups
    <3> QED BY <1>4, <2>4, <3>2 DEF At
  <2> QED BY <2>3, <2>4
<1> QED BY <1>3, <1>4

\* The visit reports a duplicate of the statement whose id is taken.
LEMMA DuplicatesGrow ==
    ASSUME NamesApart, LInv, Visit, Clear, NEW s, s = Statements[at], s.replaces = NoReplaces,
           NEW p
    PROVE  Reported(p, Dups)' <=>
               \/ Reported(p, Dups)
               \/ Offers(s) /\ p = <<group, at>> /\ At(Namespace(s), s.id) # 0
<1>1. LedgerTypeOK /\ NoReplaces \in Annotations
  BY DEF LInv, IInv, TypeOK, Annotations
<1>2. \A id : ~(IsForm(id) /\ IsClass(id))
  BY DEF Clear
<1>3. CASE ~Offers(s)
  <2>1. UNCHANGED reports \/ \E code : code \notin Dups /\ Report(s, code)
    BY <1>2, <1>3, VisitOffers
  <2> QED BY <1>3, <2>1 DEF Reported, Report
<1>4. CASE Offers(s)
  <2>1. PICK d \in Declaration : /\ d.space = Namespace(s) /\ d.id = s.id
                                 /\ Offer(d, NoReplaces) /\ ReportAnswer(s)
    BY <1>2, <1>4, VisitOffers
  <2>2. last'.answer = Verdict(d, NoReplaces)
    BY <1>1, <2>1, OfferCases
  <2>3. CASE At(Namespace(s), s.id) = 0
    <3>1. Verdict(d, NoReplaces) = "Fresh"
      BY <2>1, <2>3 DEF Verdict
    <3>2. UNCHANGED reports
      BY <2>1, <2>2, <3>1 DEF ReportAnswer
    <3> QED BY <2>3, <3>2 DEF Reported
  <2>4. CASE At(Namespace(s), s.id) # 0
    <3>1. Verdict(d, NoReplaces) \in Dups
      BY <2>1, <2>4 DEF Verdict, Dups
    <3>2. Report(s, last'.answer)
      BY <2>1, <2>2, <3>1 DEF ReportAnswer, Dups
    <3>3. PICK r : r = [group |-> group, at |-> at, code |-> last'.answer]
      OBVIOUS
    <3>4. reports' = reports \cup {r} /\ <<r.group, r.at>> = <<group, at>> /\ r.code \in Dups
      BY <2>2, <3>1, <3>2, <3>3 DEF Report
    <3> QED BY <1>4, <2>4, <3>4 DEF Reported
  <2> QED BY <2>3, <2>4
<1> QED BY <1>3, <1>4

\* What a visit does to the declarations that are stored.
LEMMA VisitStores ==
    ASSUME LInv, Visit, NEW s, s = Statements[at], s.replaces = NoReplaces
    PROVE  \/ UNCHANGED <<stores, index>>
           \/ \E decl \in Decl : Declare(decl, NoReplaces)
           \/ s.key = "schema_extension" /\ ApplySchemaExtension(s.id, s.members)
           \/ s.of \in {"class", "trait"} /\ ApplyExtension(s.of, s.id, s.reparent, s.members)
<1>1. Owner \in Owners /\ s \in Statement
  BY VisitedStatement DEF LInv, Visit
<1>2. /\ s.id \in Ids /\ s.members \in Members /\ s.sealed \in BOOLEAN /\ s.root \in BOOLEAN
      /\ s.parent \in Parents \cup {Undeclared} /\ NoMembers \in Members
  BY <1>1 DEF Statement, NoMembers, Members
<1> DEFINE Stored1 == \E decl \in Decl : Declare(decl, NoReplaces)
<1> SUFFICES \/ UNCHANGED <<stores, index>>
             \/ Stored1
             \/ s.key = "schema_extension" /\ ApplySchemaExtension(s.id, s.members)
             \/ s.of \in {"class", "trait"} /\ ApplyExtension(s.of, s.id, s.reparent, s.members)
  OBVIOUS
<1>3. DeclareSchema(s.id, Owner, s.sealed, s.members, NoReplaces) => Stored1
  <2> DEFINE decl == [kind |-> "schema", id |-> s.id, owner |-> Owner, sealed |-> s.sealed,
                      root |-> FALSE, parent |-> Undeclared, members |-> s.members]
  <2>1. decl \in Decl
    BY <1>1, <1>2 DEF Decl, Kinds
  <2>2. DeclareSchema(s.id, Owner, s.sealed, s.members, NoReplaces) => Declare(decl, NoReplaces)
    BY DEF DeclareSchema
  <2> HIDE DEF decl
  <2> QED BY <2>1, <2>2
<1>4. DeclareClass(s.id, Owner, s.sealed, s.root /\ s.parent = Undeclared, s.parent,
                   s.members, NoReplaces) => Stored1
  <2> DEFINE root == (s.root /\ s.parent = Undeclared)
                       /\ ~Demoted(s.id, s.root /\ s.parent = Undeclared)
             decl == [kind |-> "class", id |-> s.id, owner |-> Owner, sealed |-> s.sealed,
                      root |-> root, parent |-> s.parent, members |-> s.members]
  <2>1. root \in BOOLEAN
    OBVIOUS
  <2>2. decl \in Decl
    BY <1>1, <1>2, <2>1 DEF Decl, Kinds
  <2>3. DeclareClass(s.id, Owner, s.sealed, s.root /\ s.parent = Undeclared, s.parent,
                     s.members, NoReplaces) => Declare(decl, NoReplaces)
    BY DEF DeclareClass
  <2> HIDE DEF decl
  <2> QED BY <2>2, <2>3
<1>5. DeclareTrait(s.id, Owner, s.sealed, s.members, NoReplaces) => Stored1
  <2> DEFINE decl == [kind |-> "trait", id |-> s.id, owner |-> Owner, sealed |-> s.sealed,
                      root |-> FALSE, parent |-> Undeclared, members |-> s.members]
  <2>1. decl \in Decl
    BY <1>1, <1>2 DEF Decl, Kinds
  <2>2. DeclareTrait(s.id, Owner, s.sealed, s.members, NoReplaces) => Declare(decl, NoReplaces)
    BY DEF DeclareTrait
  <2> HIDE DEF decl
  <2> QED BY <2>1, <2>2
<1>6. DeclareEnum(s.id, Owner, s.sealed, NoReplaces) => Stored1
  <2> DEFINE decl == [kind |-> "enum", id |-> s.id, owner |-> Owner, sealed |-> s.sealed,
                      root |-> FALSE, parent |-> Undeclared, members |-> NoMembers]
  <2>1. decl \in Decl
    BY <1>1, <1>2 DEF Decl, Kinds
  <2>2. DeclareEnum(s.id, Owner, s.sealed, NoReplaces) => Declare(decl, NoReplaces)
    BY DEF DeclareEnum
  <2> HIDE DEF decl
  <2> QED BY <2>1, <2>2
<1>7. DeclareGlobal(s.id, Owner, NoReplaces) => Stored1
  <2> DEFINE decl == [kind |-> "global", id |-> s.id, owner |-> Owner, sealed |-> FALSE,
                      root |-> FALSE, parent |-> Undeclared, members |-> NoMembers]
  <2>1. decl \in Decl
    BY <1>1, <1>2 DEF Decl, Kinds
  <2>2. DeclareGlobal(s.id, Owner, NoReplaces) => Declare(decl, NoReplaces)
    BY DEF DeclareGlobal
  <2> HIDE DEF decl
  <2> QED BY <2>1, <2>2
<1>8. DeclareObject(s.id, Owner, NoReplaces) => Stored1
  <2> DEFINE decl == [kind |-> "object", id |-> s.id, owner |-> Owner, sealed |-> FALSE,
                      root |-> FALSE, parent |-> Undeclared, members |-> NoMembers]
  <2>1. decl \in Decl
    BY <1>1, <1>2 DEF Decl, Kinds
  <2>2. DeclareObject(s.id, Owner, NoReplaces) => Declare(decl, NoReplaces)
    BY DEF DeclareObject
  <2> HIDE DEF decl
  <2> QED BY <2>1, <2>2
<1> HIDE DEF Stored1
<1>9. ReadSchemas(s) \/ FoldDeclarations(s) \/ NoteObjects(s) \/ CheckTopLevel(s)
  BY DEF Visit
<1>10. CASE FoldDeclaration(s)
  BY <1>4, <1>5, <1>6, <1>7, <1>10 DEF FoldDeclaration, vars
<1> QED BY <1>3, <1>8, <1>9, <1>10
        DEF ReadSchemas, FoldDeclarations, NoteObjects, CheckTopLevel, OfferGeneric, vars

\* The statement that is visited is one of the program.
LEMMA PositionVisited ==
    ASSUME LInv, Visit, NEW o, o = <<group, at>>, NEW pass, pass = phase + 1
    PROVE  /\ o \in Positions /\ StatementAt(o) = Statements[at] /\ phase \in 0..3
           /\ ~Visited(o, pass) /\ Visited(o, pass)'
           /\ \A p \in Positions : Before(o, p) => ~Visited(p, pass)'
<1>1. phase \in 0..3
  BY DEF LInv, PositionOK, Visit, Passes
<1>2. pass \in 1..4 /\ phase = pass - 1
  BY <1>1
<1> QED BY <1>1, <1>2, OneVisited DEF LInv

\* What names an instance of a form stays what it is.
LEMMA FormsKept ==
    ASSUME LInv, PlainProgram, [LoadNext]_all, NEW id \in Ids, index["schema"][id] # 0
    PROVE  /\ index'["schema"][id] # 0
           /\ UniqueKeys(id)' = UniqueKeys(id)
           /\ \A n \in UniqueKeys(id) :
                 Stored("schema", id)'.members[n] = Stored("schema", id).members[n]
<1>1. index'["schema"][id] # 0
  BY IndexKept, LoadStepIsRegistryStep DEF LInv, Kinds
<1>2. Stored("schema", id) \in Decl
  BY IndexedSlot DEF LInv, IInv, TypeOK, Kinds
<1>3. Stored("schema", id)' = Stored("schema", id) => UniqueKeys(id)' = UniqueKeys(id)
  BY DEF UniqueKeys
<1>4. CASE Stored("schema", id)' = Stored("schema", id)
  BY <1>1, <1>3, <1>4
<1>5. CASE ~Visit \/ UNCHANGED <<stores, index>>
  <2>1. UNCHANGED <<stores, index>>
    BY <1>5 DEF LoadNext, NextPass, NextGroup, CheckRequirements, CheckLibraryManifests, all, vars
  <2> QED BY <1>4, <2>1 DEF Stored
<1>6. CASE Visit
  <2> DEFINE s == Statements[at]
             o == <<group, at>>
  <2>1. s \in Statement
    BY <1>6, VisitedStatement DEF LInv, Visit
  <2>2. o \in Positions /\ StatementAt(o) = s
    BY <1>6, PositionVisited
  <2>3. s.replaces = NoReplaces
    BY <2>2 DEF PlainProgram
  <2> HIDE DEF o
  <2>4. \/ UNCHANGED <<stores, index>>
        \/ \E decl \in Decl : Declare(decl, NoReplaces)
        \/ s.key = "schema_extension" /\ ApplySchemaExtension(s.id, s.members)
        \/ s.of \in {"class", "trait"} /\ ApplyExtension(s.of, s.id, s.reparent, s.members)
    <3> HIDE DEF s
    <3> QED BY <1>6, <2>3, VisitStores DEF s
  <2>5. s.id \in Ids /\ s.members \in Members
    BY <2>1 DEF Statement
  <2>6. \A n \in Names : (s.key = "schema_extension" /\ s.members[n] # Undeclared)
                             => UniqueIn[s.members[n]] = NoSpace
    BY <2>2 DEF PlainProgram, NamesKeepTheirMeaning
  <2> HIDE DEF s
  <2>7. ASSUME NEW decl \in Decl, Declare(decl, NoReplaces)
        PROVE  Stored("schema", id)' = Stored("schema", id)
    <3>1. CASE decl.kind # "schema" \/ decl.id # id
      BY <2>7, <3>1, DeclareEffect DEF LInv, IInv, Kinds, Annotations
    <3>2. CASE decl.kind = "schema" /\ decl.id = id
      <4>1. At("schema", id) # 0
        BY DEF LInv, IInv, StoredIsDeclared, Kinds
      <4>2. Verdict(Entry(decl), NoReplaces) \in Refusals
        BY <3>2, <4>1 DEF Verdict, Entry, Refusals
      <4>3. UNCHANGED registry
        BY <2>7, <4>2, DeclareEffect DEF LInv, IInv, Annotations
      <4> QED BY <4>3 DEF registry, Stored
    <3> QED BY <3>1, <3>2
  <2>8. ASSUME NEW kind \in {"schema", "class", "trait"}, index[kind][s.id] # 0,
               ExtendMembers(kind, s.id, s.members), UNCHANGED index
        PROVE  \/ Stored("schema", id)' = Stored("schema", id)
               \/ /\ kind = "schema"
                  /\ Stored("schema", id)' = [Stored("schema", id) EXCEPT
                                                 !.members = Merge(Stored("schema", id).members, s.members)]
    <3>1. kind \in Kinds /\ "schema" \in Kinds
      BY DEF Kinds
    <3> QED BY <2>5, <2>8, <3>1, ExtendEffect DEF LInv, IInv
  <2>9. \/ Stored("schema", id)' = Stored("schema", id)
        \/ /\ s.key = "schema_extension"
           /\ Stored("schema", id)' = [Stored("schema", id) EXCEPT
                                          !.members = Merge(Stored("schema", id).members, s.members)]
    BY <2>4, <2>7, <2>8 DEF ApplySchemaExtension, ApplyExtension, Stored
  <2>10. CASE /\ s.key = "schema_extension"
              /\ Stored("schema", id)' = [Stored("schema", id) EXCEPT
                                             !.members = Merge(Stored("schema", id).members, s.members)]
    <3> DEFINE old == Stored("schema", id).members
               new == s.members
    <3>1. Stored("schema", id)'.members = Merge(old, new)
      BY <1>2, <2>10 DEF Decl
    <3>2. \A n \in Names : Merge(old, new)[n] = IF old[n] = Undeclared THEN new[n] ELSE old[n]
      BY DEF Merge
    <3>3. \A n \in Names : new[n] # Undeclared => UniqueIn[new[n]] = NoSpace
      BY <2>6, <2>10
    <3>4. UniqueKeys(id) = {n \in Names : old[n] # Undeclared /\ UniqueIn[old[n]] # NoSpace}
      BY DEF UniqueKeys
    <3>5. UniqueKeys(id)' = {n \in Names : Merge(old, new)[n] # Undeclared
                                             /\ UniqueIn[Merge(old, new)[n]] # NoSpace}
      BY <3>1 DEF UniqueKeys
    <3> HIDE DEF old, new
    <3>6. UniqueKeys(id)' = UniqueKeys(id)
      BY <3>2, <3>3, <3>4, <3>5
    <3>7. \A n \in UniqueKeys(id) : Merge(old, new)[n] = old[n]
      BY <3>2, <3>4
    <3> QED BY <1>1, <3>1, <3>6, <3>7 DEF old
  <2> QED BY <1>4, <2>9, <2>10
<1> QED BY <1>5, <1>6
LEMMA StepNamesDeclared ==
    ASSUME NamesApart, LInv, PlainProgram, NamesDeclared, [LoadNext]_all
    PROVE  NamesDeclared'
<1>1. /\ \A p : StatementAt(p)' = StatementAt(p)
      /\ Positions' = Positions
  BY ProgramKept
<1>2. \A id : ~(IsForm(id) /\ IsClass(id))
  BY OneMeaning DEF PlainProgram
<1> SUFFICES ASSUME NEW k \in {"schema", "class"}, NEW id \in Ids, declaration_index'[<<k, id>>] # 0
             PROVE  \E q \in Positions : StatementAt(q).key = k /\ StatementAt(q).id = id
  BY <1>1 DEF NamesDeclared, At
<1>3. CASE At(k, id) # 0
  BY <1>3 DEF NamesDeclared
<1>4. CASE Visit /\ At(k, id) = 0
  <2>0. PICK s, o, space : s = Statements[at] /\ o = <<group, at>> /\ space = Namespace(s)
    OBVIOUS
  <2>1. o \in Positions /\ StatementAt(o) = s /\ s \in Statement
    BY <1>4, <2>0, PositionVisited, VisitedStatement DEF LInv, Visit
  <2>2. s.replaces = NoReplaces
    BY <2>1 DEF PlainProgram
  <2>3. k \in Spaces
    BY DEF Spaces, Kinds
  <2>4. k = space /\ id = s.id
    <3>1. Clear
      BY <1>2 DEF Clear
    <3>2. At(k, id) # 0 \/ (k = Namespace(s) /\ id = s.id)
      BY <1>4, <2>0, <2>2, <2>3, <3>1, LedgerGrows
    <3> QED BY <1>4, <2>0, <3>2
  <2>5. s.key = k
    BY <2>0, <2>1, <2>4, SpaceShape
  <2> QED BY <2>1, <2>4, <2>5
<1>5. CASE ~Visit
  <2>1. UNCHANGED vars
    BY <1>5 DEF LoadNext, NextPass, NextGroup, CheckRequirements, CheckLibraryManifests, all, vars
  <2> QED BY <1>3, <2>1 DEF vars, At
<1> QED BY <1>3, <1>4, <1>5

LEMMA AlwaysBInv ==
    ASSUME NamesApart
    PROVE  LoadSpec => []BInv
<1>1. LoadInit => NInv
  BY DEF LoadInit, Init, NInv, Restarted, Passes, DeclaredIsStored, NamesDeclared, At, Spaces, Kinds
<1>2. LInv /\ NInv /\ [LoadNext]_all => NInv'
  <2> SUFFICES ASSUME LInv, NInv, [LoadNext]_all PROVE NInv'
    OBVIOUS
  <2>1. Restarted'
    BY DEF LInv, PositionOK, NInv, Restarted, Passes, LoadNext, Visit, NextPass, NextGroup,
           CheckRequirements, CheckLibraryManifests, all
  <2>2. DeclaredIsStored'
    BY LoadStepIsRegistryStep, StepDeclaredIsStored DEF LInv, NInv, NamesApart
  <2>3. PlainProgram' => PlainProgram
    BY ProgramKept DEF PlainProgram, NamesKeepTheirMeaning
  <2>4. PlainProgram' => NamesDeclared'
    BY <2>3, StepNamesDeclared DEF NInv
  <2> QED BY <2>1, <2>2, <2>4 DEF NInv
<1>3. LInv /\ NInv => BInv
  <2> SUFFICES ASSUME LInv, NInv PROVE BInv
    OBVIOUS
  <2>1. SpacesOfForms
    BY SpaceOfForm DEF SpacesOfForms, LInv, IInv
  <2>2. PlainProgram => Clear
    BY OneMeaning DEF Clear, NInv, PlainProgram
  <2> QED BY <2>1, <2>2 DEF BInv
<1> QED BY <1>1, <1>2, <1>3, AlwaysLInv, PTL DEF LoadSpec

\* The namespace of a statement that has one stays what it is.
LEMMA NamesKept ==
    ASSUME NamesApart, BInv, BInv', PlainProgram, [LoadNext]_all,
           NEW s \in Statement, Namespace(s) # NoSpace
    PROVE  Namespace(s)' = Namespace(s)
<1>1. PlainProgram'
  BY ProgramKept DEF PlainProgram, NamesKeepTheirMeaning
<1>2. Clear' /\ LInv
  BY <1>1 DEF BInv
<1>3. Ids \cap {"schema", "class", "trait", "enum", "global", "object"} = {}
  BY DEF NamesApart, NamesAreNoKeywords, Forms
<1>4. \A id \in Ids : index["class"][id] # 0 => index'["class"][id] # 0
  BY <1>2, IndexKept, LoadStepIsRegistryStep DEF LInv, Kinds
<1>5. CASE s.key \in {"schema", "class", "trait", "enum", "global"}
  BY <1>5 DEF Namespace
<1>6. CASE s.key \notin {"schema", "class", "trait", "enum", "global"} /\ IsForm(s.key) /\ WritesId(s)
  <2>1. s.key \in Ids /\ index["schema"][s.key] # 0
    BY <1>6 DEF IsForm
  <2>2. /\ index'["schema"][s.key] # 0
        /\ UniqueKeys(s.key)' = UniqueKeys(s.key)
        /\ \A n \in UniqueKeys(s.key) :
              Stored("schema", s.key)'.members[n] = Stored("schema", s.key).members[n]
    BY <1>2, <2>1, FormsKept
  <2>3. IsForm(s.key)' /\ WritesId(s)'
    BY <1>6, <2>1, <2>2 DEF IsForm, WritesId
  <2>4. SpaceOf(s.key)' = SpaceOf(s.key)
    <3> DEFINE n == CHOOSE n \in UniqueKeys(s.key) : TRUE
    <3>1. n \in UniqueKeys(s.key)
      BY <1>6 DEF WritesId
    <3>2. SpaceOf(s.key) = UniqueIn[Stored("schema", s.key).members[n]]
      BY DEF SpaceOf
    <3>3. SpaceOf(s.key)' = UniqueIn[Stored("schema", s.key)'.members[n]]
      BY <2>2 DEF SpaceOf
    <3> HIDE DEF n
    <3> QED BY <2>2, <3>1, <3>2, <3>3
  <2> QED BY <1>6, <2>3, <2>4 DEF Namespace
<1>7. CASE /\ s.key \notin {"schema", "class", "trait", "enum", "global"}
           /\ ~(IsForm(s.key) /\ WritesId(s))
  <2>1. ObjectClass(s) # Undeclared
    BY <1>7 DEF Namespace
  <2> DEFINE named == IF s.key = "object" THEN s.of ELSE s.key
  <2>2. IsClass(named) /\ named # Undeclared
    BY <2>1 DEF ObjectClass
  <2>3. IsClass(named)'
    BY <1>4, <2>2 DEF IsClass
  <2>4. ObjectClass(s)' # Undeclared
    BY <2>2, <2>3 DEF ObjectClass
  <2>5. ~IsForm(s.key)'
    <3>1. CASE s.key = "object"
      BY <1>3, <3>1 DEF IsForm
    <3>2. CASE s.key # "object"
      BY <1>2, <2>3, <3>2 DEF Clear
    <3> QED BY <3>1, <3>2
  <2> QED BY <1>7, <2>1, <2>4, <2>5 DEF Namespace
<1> QED BY <1>5, <1>6, <1>7

\* A statement gets its namespace before the pass that offers in it.
LEMMA NamesGained ==
    ASSUME NamesApart, BInv, BInv', PlainProgram, [LoadNext]_all,
           NEW s \in Statement, Namespace(s) = NoSpace, Namespace(s)' # NoSpace
    PROVE  Visit /\ phase < PassOf(Namespace(s)') - 1 /\ ~Never(s)
<1>1. PlainProgram'
  BY ProgramKept DEF PlainProgram, NamesKeepTheirMeaning
<1>2. Clear /\ Clear' /\ LInv /\ LInv' /\ SpacesOfForms' /\ DeclaredIsStored
  BY <1>1 DEF BInv, NInv
<1>3. Ids \cap {"schema", "class", "trait", "enum", "global", "object"} = {}
  BY DEF NamesApart, NamesAreNoKeywords, Forms
<1>4. s.key \notin {"schema", "class", "trait", "enum", "global"}
  <2>1. NoSpace \notin {"schema", "class", "trait", "enum", "global"}
    BY DEF NamesApart, Spaces, Kinds
  <2> QED BY <2>1 DEF Namespace
<1>5. ~(IsForm(s.key) /\ WritesId(s)) /\ ObjectClass(s) = Undeclared
  <2>1. SpacesOfForms /\ NoSpace \notin Spaces /\ GenericSpaces \subseteq Spaces /\ "object" \in Spaces
    BY DEF BInv, NamesApart, Spaces, Kinds
  <2> QED BY <1>4, <2>1 DEF Namespace, SpacesOfForms
<1>6. ASSUME NEW k \in {"schema", "class"}, NEW id \in Ids, index[k][id] = 0, index'[k][id] # 0
      PROVE  Visit /\ phase = PassOf(k) - 1
  <2>1. k \in Kinds /\ k \in Spaces
    BY DEF Kinds, Spaces
  <2>2. At(k, id) = 0 /\ declaration_index'[<<k, id>>] # 0
    BY <1>2, <1>6, <2>1 DEF DeclaredIsStored, LInv, IInv, StoredIsDeclared, At
  <2>3. Visit
    BY <2>2 DEF LoadNext, NextPass, NextGroup, CheckRequirements, CheckLibraryManifests, all, vars, At
  <2>10. PICK v, o, space : v = Statements[at] /\ o = <<group, at>> /\ space = Namespace(v)
    OBVIOUS
  <2>4. o \in Positions /\ StatementAt(o) = v
    BY <1>2, <2>3, <2>10, PositionVisited
  <2>5. v.replaces = NoReplaces
    BY <2>4 DEF PlainProgram
  <2>6. Offers(v) /\ k = Namespace(v)
    <3>1. At(k, id) # 0 \/ (Offers(v) /\ k = Namespace(v) /\ id = v.id)
      BY <1>2, <2>1, <2>2, <2>3, <2>5, <2>10, LedgerGrows
    <3> QED BY <2>2, <3>1
  <2> QED BY <2>3, <2>6 DEF Offers
<1>7. CASE IsForm(s.key)' /\ WritesId(s)'
  <2>1. s.key \in Ids /\ index'["schema"][s.key] # 0
    BY <1>7 DEF IsForm
  <2>2. index["schema"][s.key] = 0
    <3> SUFFICES ASSUME index["schema"][s.key] # 0 PROVE FALSE
      OBVIOUS
    <3>1. UniqueKeys(s.key)' = UniqueKeys(s.key)
      BY <1>2, <2>1, FormsKept
    <3>2. IsForm(s.key) /\ WritesId(s)
      BY <1>7, <2>1, <3>1 DEF IsForm, WritesId
    <3> QED BY <1>5, <3>2
  <2>3. Visit /\ phase = 0
    BY <1>6, <2>1, <2>2 DEF PassOf
  <2>4. Namespace(s)' \in GenericSpaces
    BY <1>2, <1>4, <1>7 DEF Namespace, SpacesOfForms
  <2>5. PassOf(Namespace(s)') = 2
    BY <2>4 DEF PassOf, NamesApart, Kinds
  <2>6. ~Never(s)
    BY <1>3, <2>1, <2>2 DEF Never, IsForm
  <2> QED BY <2>3, <2>5, <2>6
<1>8. CASE ~(IsForm(s.key)' /\ WritesId(s)')
  <2> DEFINE named == IF s.key = "object" THEN s.of ELSE s.key
  <2>1. Namespace(s)' = "object" /\ ObjectClass(s)' # Undeclared
    BY <1>4, <1>8 DEF Namespace
  <2>2. IsClass(named)' /\ named # Undeclared
    BY <2>1 DEF ObjectClass
  <2>3. ~IsClass(named)
    BY <1>5, <2>2 DEF ObjectClass
  <2>4. named \in Ids /\ index["class"][named] = 0 /\ index'["class"][named] # 0
    BY <2>2, <2>3 DEF IsClass
  <2>5. Visit /\ phase = 1
    BY <1>6, <2>4 DEF PassOf
  <2>6. PassOf(Namespace(s)') = 3
    BY <2>1 DEF PassOf
  <2>7. ~Never(s)
    <3>1. CASE s.key = "object"
      BY <1>3, <2>4, <3>1 DEF Never
    <3>2. CASE s.key # "object"
      <4>1. IsClass(s.key)' /\ s.key \in Ids
        BY <2>2, <2>4, <3>2
      <4>2. ~IsForm(s.key)'
        BY <1>2, <4>1 DEF Clear
      <4>3. IsForm(s.key) => IsForm(s.key)'
        BY <1>2, FormsKept DEF IsForm
      <4> QED BY <3>2, <4>1, <4>2, <4>3 DEF Never
    <3> QED BY <3>1, <3>2
  <2> QED BY <2>5, <2>6, <2>7
<1> QED BY <1>7, <1>8

\* A statement is reported unknown by pass four, and then it declares nothing.
LEMMA UnknownGrows ==
    ASSUME NamesApart, LInv, DeclaredIsStored, [LoadNext]_all, NEW p \in Positions,
           Reported(p, Unknown)', ~Reported(p, Unknown)
    PROVE  Visit /\ phase = 3 /\ p = <<group, at>> /\ Namespace(StatementAt(p)) = NoSpace
<1>1. Ids \cap (Forms \cup {"object"}) = {}
  BY DEF NamesApart, NamesAreNoKeywords
<1>2. PICK s : s = StatementAt(p)
  OBVIOUS
<1>3. Visit /\ p = <<group, at>> /\ s = Statements[at] /\ \E code \in Unknown : Report(s, code)
  <2>1. "ProvidesMismatch" \notin Unknown
    BY DEF Unknown
  <2> QED BY <1>2, <2>1, ReportsOfVisit
<1>4. PICK code \in Unknown : Report(s, code)
  BY <1>3
<1>5. s \in Statement /\ ~Reported(<<group, at>>, {code})
  BY <1>2, <1>3, <1>4, PositionType DEF LInv, Reported
<1>6. phase = 3
  BY <1>1, <1>3, <1>4, <1>5, ReportMeans DEF Unknown
<1>7. reports' # reports /\ \A other : Report(s, other) => other = code
  BY <1>4, <1>5, NewReport
<1>8. CheckTopLevel(s)
  BY <1>3, <1>6 DEF Visit, Passes
<1>9. CASE s.key \in Ids /\ ~IsForm(s.key) /\ ~IsClass(s.key)
  BY <1>1, <1>2, <1>3, <1>6, <1>9 DEF Namespace, ObjectClass, Forms
<1>10. CASE s.key = "object" /\ s.of \in Ids /\ At("class", s.of) = 0
  <2>1. ~IsClass(s.of)
    BY <1>10 DEF IsClass, LInv, IInv, StoredIsDeclared, Kinds
  <2> QED BY <1>1, <1>2, <1>3, <1>6, <1>10, <2>1 DEF Namespace, ObjectClass, IsForm
<1>11. s.key = "object" /\ s.of \notin Ids /\ Report(s, "KeyMissing") => FALSE
  BY <1>7 DEF Unknown
<1> QED BY <1>7, <1>8, <1>9, <1>10, <1>11 DEF CheckTopLevel

\* What pass four lets be has a namespace, or is no declaration at all.
LEMMA CheckedHasSpace ==
    ASSUME NamesApart, LInv, DeclaredIsStored, NEW s \in Statement, CheckTopLevel(s),
           Namespace(s) = NoSpace, NEW o, o = <<group, at>>
    PROVE  Never(s) \/ Reported(o, Unknown)'
<1>1. Ids \cap (Forms \cup {"object"}) = {} /\ Undeclared \notin Ids
  BY DEF NamesApart, NamesAreNoKeywords
<1>2. CASE s.key \in Ids /\ ~IsForm(s.key) /\ IsClass(s.key)
  <2>1. ObjectClass(s) = s.key /\ s.key # Undeclared
    BY <1>1, <1>2 DEF ObjectClass
  <2>2. Namespace(s) = "object"
    BY <1>1, <1>2, <2>1 DEF Namespace, Forms
  <2> QED BY <2>2 DEF NamesApart, Spaces, Kinds
<1>3. CASE s.key = "object" /\ s.of \in Ids /\ At("class", s.of) # 0
  <2>1. index["class"][s.of] # 0
    BY <1>3 DEF DeclaredIsStored, Kinds
  <2>2. ObjectClass(s) = s.of /\ s.of # Undeclared
    BY <1>1, <1>3, <2>1 DEF ObjectClass, IsClass
  <2>3. Namespace(s) = "object"
    BY <1>1, <1>3, <2>2 DEF Namespace, IsForm
  <2> QED BY <2>3 DEF NamesApart, Spaces, Kinds
<1>4. ASSUME NEW code \in Unknown, Report(s, code)
      PROVE  Reported(o, Unknown)'
  <2>1. PICK r : r = [group |-> group, at |-> at, code |-> code]
    OBVIOUS
  <2>2. r \in reports' /\ <<r.group, r.at>> = o /\ r.code \in Unknown
    BY <1>4, <2>1 DEF Report
  <2> QED BY <2>2 DEF Reported
<1>5. "UnknownKey" \in Unknown /\ "RefUnresolved" \in Unknown
  BY DEF Unknown
<1> QED BY <1>2, <1>3, <1>4, <1>5 DEF CheckTopLevel, Never

\* A program's statements stay where they are.
LEMMA PlainKept ==
    ASSUME [LoadNext]_all
    PROVE  PlainProgram' <=> PlainProgram
BY ProgramKept DEF PlainProgram, NamesKeepTheirMeaning

LEMMA PassOfType ==
    ASSUME NEW space
    PROVE  PassOf(space) \in 1..3
BY DEF PassOf

\* What was reported stays so.
LEMMA ReportedKept ==
    ASSUME [LoadNext]_all, NEW p, NEW codes, Reported(p, codes)
    PROVE  Reported(p, codes)'
BY ReportsKept DEF Reported

\* Where a statement declares its id does not change once it declares one.
LEMMA SpaceKept ==
    ASSUME NamesApart, BInv, BInv', PlainProgram, [LoadNext]_all,
           NEW q \in Positions, Space(q) # NoSpace
    PROVE  Space(q)' = Space(q)
<1>1. PICK s : s = StatementAt(q)
  OBVIOUS
<1>2. s \in Statement /\ StatementAt(q)' = s
  BY <1>1, PositionType, ProgramKept DEF BInv, LInv
<1>3. Namespace(s) # NoSpace
  BY <1>1 DEF Space
<1>4. Namespace(s)' = Namespace(s)
  BY <1>2, <1>3, NamesKept
<1> QED BY <1>1, <1>2, <1>4 DEF Space

LEMMA SpaceGained ==
    ASSUME NamesApart, BInv, BInv', PlainProgram, [LoadNext]_all,
           NEW q \in Positions, Space(q) = NoSpace, Space(q)' # NoSpace
    PROVE  Visit /\ phase < PassOf(Space(q)') - 1 /\ ~Never(StatementAt(q))
<1>1. PICK s : s = StatementAt(q)
  OBVIOUS
<1>2. s \in Statement /\ StatementAt(q)' = s
  BY <1>1, PositionType, ProgramKept DEF BInv, LInv
<1>3. Namespace(s) = NoSpace /\ Namespace(s)' # NoSpace /\ Space(q)' = Namespace(s)'
  BY <1>1, <1>2 DEF Space
<1>4. Visit /\ phase < PassOf(Namespace(s)') - 1 /\ ~Never(s)
  BY <1>2, <1>3, NamesGained
<1> QED BY <1>1, <1>3, <1>4

\* A declaration that was offered stays offered, and understood.
LEMMA LiveKept ==
    ASSUME NamesApart, BInv, BInv', PlainProgram, [LoadNext]_all, NEW q \in Positions
    PROVE  /\ Done(q) => Done(q)'
           /\ Live(q) => Live(q)' /\ Space(q)' = Space(q)
<1>1. ASSUME Done(q) PROVE Done(q)' /\ Space(q)' = Space(q)
  <2>1. PICK space : space = Space(q)
    OBVIOUS
  <2>2. Space(q)' = space /\ space # NoSpace
    BY <1>1, <2>1, SpaceKept DEF Done
  <2>3. PICK pass : pass = PassOf(space)
    OBVIOUS
  <2>4. Visited(q, pass) /\ pass \in 1..4
    BY <1>1, <2>1, <2>3, PassOfType DEF Done
  <2>5. Visited(q, pass)'
    BY <2>4, VisitedKept DEF BInv, LInv
  <2>6. PassOf(Space(q)') = pass
    BY <2>2, <2>3
  <2> QED BY <2>1, <2>2, <2>3, <2>5 DEF Done, PassOf
<1>2. ASSUME Live(q), Reported(q, Unknown)' PROVE FALSE
  BY <1>2, UnknownGrows DEF Live, Done, Space, BInv, NInv
<1> QED BY <1>1, <1>2 DEF Live

\* What never declares anything goes on so.
LEMMA NeverKept ==
    ASSUME LInv, [LoadNext]_all, NEW s, Never(s)
    PROVE  Never(s)'
<1>1. IsForm(s.key) => IsForm(s.key)'
  BY IndexKept, LoadStepIsRegistryStep DEF LInv, Kinds, IsForm
<1> QED BY <1>1 DEF Never

LEMMA StepNothingLate ==
    ASSUME NamesApart, BInv, BInv', PlainProgram, NothingLate, [LoadNext]_all
    PROVE  NothingLate'
<1>1. /\ Positions' = Positions
      /\ \A p : StatementAt(p)' = StatementAt(p)
  BY ProgramKept
<1>2. LInv /\ PositionOK /\ DeclaredIsStored /\ Restarted
  BY DEF BInv, NInv, LInv
<1>3. ASSUME NEW p \in Positions, Reported(p, Unknown)' PROVE Visited(p, 4)'
  <2>1. CASE Reported(p, Unknown)
    BY <1>2, <2>1, VisitedKept DEF NothingLate
  <2>2. CASE ~Reported(p, Unknown)
    <3>1. Visit /\ phase = 3 /\ p = <<group, at>>
      BY <1>2, <1>3, <2>2, UnknownGrows
    <3> QED BY <1>2, <3>1, OneVisited
  <2> QED BY <2>1, <2>2
<1>4. ASSUME NEW p \in Positions, Visited(p, 4)', Space(p)' = NoSpace
      PROVE  Never(StatementAt(p))' \/ Reported(p, Unknown)'
  <2>1. Space(p) = NoSpace
    BY <1>4, SpaceKept
  <2>2. PICK s : s = StatementAt(p)
    OBVIOUS
  <2>3. s \in Statement /\ StatementAt(p)' = s
    BY <1>1, <1>2, <2>2, PositionType
  <2>4. Never(s)' \/ Reported(p, Unknown)'
    <3>1. CASE Visited(p, 4)
      BY <1>2, <2>1, <2>2, <3>1, NeverKept, ReportedKept DEF NothingLate
    <3>2. CASE ~Visited(p, 4)
      <4>1. Visit /\ phase = 3 /\ p = <<group, at>> /\ s = Statements[at]
        BY <1>2, <1>4, <2>2, <3>2, VisitedMore
      <4>2. CheckTopLevel(s)
        BY <4>1 DEF Visit, Passes
      <4>3. Never(s) \/ Reported(p, Unknown)'
        BY <1>2, <2>1, <2>2, <2>3, <4>1, <4>2, CheckedHasSpace DEF Space
      <4> QED BY <1>2, <4>3, NeverKept
    <3> QED BY <3>1, <3>2
  <2> QED BY <2>3, <2>4
<1> QED BY <1>1, <1>3, <1>4 DEF NothingLate

\* A declaration is new only when its pass offers it.
LEMMA LiveGained ==
    ASSUME NamesApart, BInv, BInv', PlainProgram, NothingLate, [LoadNext]_all,
           NEW q \in Positions, Live(q)', ~Live(q)
    PROVE  Offered(q)
<1>1. PositionOK /\ Restarted
  BY DEF BInv, NInv, LInv
<1>2. ~Reported(q, Unknown) /\ ~Done(q) /\ Done(q)'
  BY ReportedKept DEF Live
<1>3. CASE Space(q) = NoSpace
  <2>1. PICK space : space = Space(q)'
    OBVIOUS
  <2>2. Visit /\ phase < PassOf(space) - 1 /\ ~Never(StatementAt(q))
    BY <1>2, <1>3, <2>1, SpaceGained DEF Done
  <2>3. ~Visited(q, 4)
    BY <1>2, <1>3, <2>2 DEF NothingLate
  <2>4. PICK pass \in 1..4 : pass = PassOf(space)
    BY PassOfType
  <2>5. Visited(q, pass)'
    BY <1>2, <2>1, <2>4 DEF Done, PassOf
  <2>6. group' = group /\ phase' = phase /\ phase \in Nat
    BY <1>1, <2>2 DEF Visit, PositionOK
  <2>7. q[1] < group
    BY <2>2, <2>4, <2>5, <2>6 DEF Visited
  <2> QED BY <2>3, <2>7 DEF Visited
<1>4. CASE Space(q) # NoSpace
  <2>1. PICK space : space = Space(q)
    OBVIOUS
  <2>2. Space(q)' = space
    BY <1>4, <2>1, SpaceKept
  <2>3. PICK pass \in 1..4 : pass = PassOf(space)
    BY PassOfType
  <2>4. ~Visited(q, pass) /\ Visited(q, pass)'
    BY <1>2, <1>4, <2>1, <2>2, <2>3 DEF Done, PassOf
  <2>5. Visit /\ phase = pass - 1 /\ q = <<group, at>>
    BY <1>1, <2>4, VisitedMore
  <2> QED BY <1>4, <2>1, <2>3, <2>5 DEF Offered, Offers, Space
<1> QED BY <1>3, <1>4

\* What a pass offers was not offered before, nor is anything behind it in its
\* namespace.
LEMMA OfferedNow ==
    ASSUME NamesApart, BInv, BInv', PlainProgram, NothingLate, DuplicatesKnown, [LoadNext]_all,
           NEW q \in Positions, Offered(q)
    PROVE  /\ Visit /\ q = <<group, at>> /\ StatementAt(q) = Statements[at]
           /\ Offers(StatementAt(q)) /\ Space(q) \in Spaces
           /\ Space(q)' = Space(q) /\ ~Live(q) /\ Live(q)' /\ ~Reported(q, Dups)
           /\ \A p \in Positions : (Before(q, p) /\ Space(p)' = Space(q)) => ~Done(p)'
<1>1. PositionOK /\ LInv
  BY DEF BInv, LInv
<1>2. Visit /\ q = <<group, at>> /\ Offers(StatementAt(q))
  BY DEF Offered
<1>3. PICK space : space = Space(q)
  OBVIOUS
<1>4. PICK pass \in 1..4 : pass = PassOf(space)
  BY PassOfType
<1>5. space # NoSpace /\ phase = pass - 1 /\ pass \in 1..3
  BY <1>2, <1>3, <1>4, PassOfType DEF Offers, Space
<1>6. Space(q)' = space
  BY <1>3, <1>5, SpaceKept
<1>7. /\ StatementAt(q) = Statements[at]
      /\ ~Visited(q, pass) /\ Visited(q, pass)'
      /\ \A p \in Positions : Before(q, p) => ~Visited(p, pass)'
  BY <1>1, <1>2, <1>5, OneVisited
<1>8. ~Done(q) /\ Done(q)'
  BY <1>3, <1>4, <1>5, <1>6, <1>7 DEF Done, PassOf
<1>9. ~Visited(q, 4)'
  BY <1>1, <1>2, <1>5 DEF Visit, Visited, PositionOK
<1>10. ~Reported(q, Unknown)'
  <2>1. NothingLate' /\ q \in Positions'
    BY StepNothingLate, ProgramKept
  <2> QED BY <1>9, <2>1 DEF NothingLate
<1>11. space \in Spaces
  <2>1. StatementAt(q) \in Statement
    BY <1>1, PositionType
  <2> QED BY <1>1, <1>3, <1>5, <2>1, SpaceShape DEF Space
<1>12. ASSUME NEW p \in Positions, Before(q, p), Space(p)' = space PROVE ~Done(p)'
  <2>1. ~Visited(p, pass)'
    BY <1>7, <1>12
  <2> QED BY <1>4, <1>12, <2>1 DEF Done, PassOf
<1> QED BY <1>2, <1>3, <1>6, <1>7, <1>8, <1>10, <1>11, <1>12 DEF Live, DuplicatesKnown

\* A step enters in the ledger what it offers,
LEMMA EnteredIfOffered ==
    ASSUME NamesApart, BInv, PlainProgram, [LoadNext]_all, NEW k \in Spaces, NEW i \in Ids
    PROVE  declaration_index'[<<k, i>>] # 0 <=>
               \/ At(k, i) # 0
               \/ \E q \in Positions : Offered(q) /\ Space(q) = k /\ StatementAt(q).id = i
<1>1. LInv /\ Clear
  BY DEF BInv
<1>2. CASE Visit
  <2>1. PICK s, o, pass : s = Statements[at] /\ o = <<group, at>> /\ pass = phase + 1
    OBVIOUS
  <2>2. o \in Positions /\ StatementAt(o) = s
    BY <1>1, <1>2, <2>1, PositionVisited
  <2>3. s.replaces = NoReplaces
    BY <2>2 DEF PlainProgram
  <2>4. declaration_index'[<<k, i>>] # 0 <=>
            At(k, i) # 0 \/ (Offers(s) /\ k = Namespace(s) /\ i = s.id)
    BY <1>1, <1>2, <2>1, <2>3, LedgerGrows
  <2>5. \A q : Offered(q) <=> q = o /\ Offers(s)
    BY <1>2, <2>1, <2>2 DEF Offered
  <2> QED BY <2>2, <2>4, <2>5 DEF Space
<1>3. CASE ~Visit
  <2>1. UNCHANGED vars
    BY <1>3 DEF LoadNext, NextPass, NextGroup, CheckRequirements, CheckLibraryManifests, all, vars
  <2> QED BY <1>3, <2>1 DEF vars, At, Offered
<1> QED BY <1>2, <1>3

\* and reports it a duplicate if there is an entry.
LEMMA ReportedIfTaken ==
    ASSUME NamesApart, BInv, PlainProgram, [LoadNext]_all, NEW p \in Positions
    PROVE  Reported(p, Dups)' <=>
               \/ Reported(p, Dups)
               \/ Offered(p) /\ At(Space(p), StatementAt(p).id) # 0
<1>1. LInv /\ Clear
  BY DEF BInv
<1>2. CASE Visit
  <2>1. PICK s, o, pass : s = Statements[at] /\ o = <<group, at>> /\ pass = phase + 1
    OBVIOUS
  <2>2. o \in Positions /\ StatementAt(o) = s
    BY <1>1, <1>2, <2>1, PositionVisited
  <2>3. s.replaces = NoReplaces
    BY <2>2 DEF PlainProgram
  <2>4. Reported(p, Dups)' <=>
            \/ Reported(p, Dups)
            \/ Offers(s) /\ p = <<group, at>> /\ At(Namespace(s), s.id) # 0
    BY <1>1, <1>2, <2>1, <2>3, DuplicatesGrow
  <2>5. Offered(p) <=> p = o /\ Offers(s)
    BY <1>2, <2>1, <2>2 DEF Offered
  <2> QED BY <2>1, <2>2, <2>4, <2>5 DEF Space
<1>3. CASE ~Visit
  <2>1. "ProvidesMismatch" \notin Dups
    BY DEF Dups
  <2>2. Reported(p, Dups)' => Reported(p, Dups)
    BY <1>1, <1>3, <2>1, ReportsOfVisit
  <2> QED BY <1>3, <2>2, ReportedKept DEF Offered
<1> QED BY <1>2, <1>3

LEMMA StepLedgerIsLive ==
    ASSUME NamesApart, BInv, BInv', PlainProgram, NothingLate, LedgerIsLive, DuplicatesKnown,
           [LoadNext]_all
    PROVE  LedgerIsLive'
<1>1. /\ Positions' = Positions
      /\ \A p : StatementAt(p)' = StatementAt(p)
  BY ProgramKept
<1>2. \A p \in Positions : StatementAt(p) \in Statement /\ StatementAt(p).id \in Ids
  BY PositionType DEF BInv, LInv, Statement
<1>3. \A k \in Spaces, i \in Ids : At(k, i)' = declaration_index'[<<k, i>>]
  BY DEF At
<1>4. ASSUME NEW p \in Positions, Live(p)'
      PROVE  declaration_index'[<<Space(p)', StatementAt(p).id>>] # 0
  <2>1. PICK space : space = Space(p)
    OBVIOUS
  <2>2. CASE Live(p)
    <3>1. space \in Spaces
      BY <1>2, <2>1, <2>2, SpaceShape DEF Live, Done, Space, BInv
    <3>2. At(space, StatementAt(p).id) # 0 /\ Space(p)' = space
      BY <2>1, <2>2, LiveKept DEF LedgerIsLive
    <3> QED BY <1>2, <3>1, <3>2, EnteredIfOffered
  <2>3. CASE ~Live(p)
    <3>1. Offered(p)
      BY <1>4, <2>3, LiveGained
    <3>2. space \in Spaces /\ Space(p)' = space
      BY <2>1, <3>1, OfferedNow
    <3> QED BY <1>2, <2>1, <3>1, <3>2, EnteredIfOffered
  <2> QED BY <2>2, <2>3
<1>5. ASSUME NEW k \in Spaces, NEW i \in Ids, declaration_index'[<<k, i>>] # 0
      PROVE  \E q \in Positions : Live(q)' /\ Space(q)' = k /\ StatementAt(q).id = i
  <2>1. CASE At(k, i) # 0
    <3>1. PICK q \in Positions : Live(q) /\ Space(q) = k /\ StatementAt(q).id = i
      BY <2>1 DEF LedgerIsLive
    <3> QED BY <3>1, LiveKept
  <2>2. CASE At(k, i) = 0
    <3>1. PICK q \in Positions : Offered(q) /\ Space(q) = k /\ StatementAt(q).id = i
      BY <1>5, <2>2, EnteredIfOffered
    <3> QED BY <3>1, OfferedNow
  <2> QED BY <2>1, <2>2
<1> QED BY <1>1, <1>4, <1>5 DEF LedgerIsLive, At, Spaces, Kinds

LEMMA StepDuplicatesKnown ==
    ASSUME NamesApart, BInv, BInv', PlainProgram, NothingLate, LedgerIsLive, DuplicatesKnown,
           [LoadNext]_all
    PROVE  DuplicatesKnown'
<1>1. /\ Positions' = Positions
      /\ \A p : StatementAt(p)' = StatementAt(p)
  BY ProgramKept
<1>2. \A p \in Positions : /\ StatementAt(p).id \in Ids
                           /\ p = <<p[1], p[2]>> /\ p[1] \in Nat /\ p[2] \in Nat
  <2> SUFFICES ASSUME NEW p \in Positions
               PROVE  StatementAt(p).id \in Ids /\ p = <<p[1], p[2]>> /\ p[1] \in Nat /\ p[2] \in Nat
    OBVIOUS
  <2>1. program \in Seq(Group)
    BY ProgramsAssumption DEF BInv, LInv, PositionOK
  <2>2. StatementAt(p).id \in Ids
    BY PositionType DEF BInv, LInv, Statement
  <2>3. p = <<p[1], p[2]>> /\ p[1] \in 1..Len(program) /\ p[2] \in 1..Len(program[p[1]].statements)
    BY PositionType DEF BInv, LInv
  <2> QED BY <2>2, <2>3
<1>3. \A p \in Positions : Live(p) => Live(p)' /\ Space(p)' = Space(p)
  BY LiveKept
<1>4. \A p \in Positions : Live(p)' /\ ~Live(p) => Offered(p)
  BY LiveGained
<1>5. \A p \in Positions : Offered(p) =>
          /\ Space(p)' = Space(p) /\ Space(p) \in Spaces
          /\ ~Live(p) /\ Live(p)' /\ ~Reported(p, Dups)
  BY OfferedNow
<1>6. ASSUME NEW q \in Positions, Offered(q), NEW p \in Positions, Before(q, p),
             Space(p)' = Space(q), Live(p)'
      PROVE  FALSE
  <2>1. ~Done(p)'
    BY <1>6, OfferedNow
  <2> QED BY <1>6, <2>1 DEF Live
<1>7. ASSUME NEW p \in Positions, Reported(p, Dups)' PROVE Done(p)'
  <2>1. CASE Reported(p, Dups)
    BY <2>1, LiveKept DEF DuplicatesKnown
  <2>2. CASE ~Reported(p, Dups)
    BY <1>5, <1>7, <2>2, ReportedIfTaken DEF Live
  <2> QED BY <2>1, <2>2
<1>8. ASSUME NEW p \in Positions, Live(p)'
      PROVE  (\E q \in Positions : /\ Before(q, p) /\ Live(q)' /\ Space(q)' = Space(p)'
                                   /\ StatementAt(q).id = StatementAt(p).id)
                 <=> Reported(p, Dups)'
  <2>1. PICK space : space = Space(p)
    OBVIOUS
  <2>2. Space(p)' = space
    BY <1>3, <1>4, <1>5, <1>8, <2>1
  <2>3. CASE Live(p)
    <3>1. Reported(p, Dups)' <=> Reported(p, Dups)
      BY <1>5, <2>3, ReportedIfTaken
    <3>2. ASSUME NEW q \in Positions, Before(q, p)
          PROVE  (Live(q)' /\ Space(q)' = space) <=> (Live(q) /\ Space(q) = space)
      BY <1>3, <1>4, <1>5, <1>6, <1>8, <2>2, <3>2
    <3>3. (\E q \in Positions : Before(q, p) /\ Live(q) /\ SameId(q, p)) <=> Reported(p, Dups)
      BY <2>3 DEF DuplicatesKnown
    <3> QED BY <2>1, <2>2, <3>1, <3>2, <3>3 DEF SameId
  <2>4. CASE ~Live(p)
    <3>1. Offered(p) /\ ~Reported(p, Dups) /\ space \in Spaces
      BY <1>4, <1>5, <1>8, <2>1, <2>4
    <3>2. Reported(p, Dups)' <=> At(space, StatementAt(p).id) # 0
      BY <2>1, <3>1, ReportedIfTaken
    <3>3. At(space, StatementAt(p).id) # 0 <=>
              \E q \in Positions : Live(q) /\ Space(q) = space /\ StatementAt(q).id = StatementAt(p).id
      BY <1>2, <3>1 DEF LedgerIsLive
    <3>4. ASSUME NEW q \in Positions, Live(q)', Space(q)' = space
          PROVE  Before(q, p) <=> Live(q)
      <4>1. ~Before(p, q)
        BY <1>6, <2>1, <3>1, <3>4
      <4>2. Before(q, p) \/ q = p
        BY <1>2, <4>1 DEF Before
      <4>3. CASE Live(q)
        BY <2>4, <4>2, <4>3
      <4>4. CASE ~Live(q)
        <5>1. Offered(q)
          BY <1>4, <3>4, <4>4
        <5>2. q = p
          BY <3>1, <5>1 DEF Offered
        <5> QED BY <1>2, <4>4, <5>2 DEF Before
      <4> QED BY <4>3, <4>4
    <3>5. \A q \in Positions : (Live(q) /\ Space(q) = space) =>
                                  (Live(q)' /\ Space(q)' = space /\ Before(q, p))
      BY <1>3, <3>4
    <3>6. \A q \in Positions : (Live(q)' /\ Space(q)' = space /\ Before(q, p)) =>
                                  (Live(q) /\ Space(q) = space)
      BY <1>3, <3>4
    <3> QED BY <2>2, <3>2, <3>3, <3>5, <3>6
  <2> QED BY <2>3, <2>4
<1>9. \A q, p : SameId(q, p)' <=> Space(q)' = Space(p)' /\ StatementAt(q).id = StatementAt(p).id
  BY <1>1 DEF SameId
<1> QED BY <1>1, <1>7, <1>8, <1>9 DEF DuplicatesKnown, Before

\* In every load of a program without @replaces whose names keep their meaning
\* the second and later declarations of an id in its namespace are reported,
\* and nothing else is (spec 7.6); and in every load a manifest is reported
\* exactly when it does not list the forms of its library (spec 13.3).
THEOREM ReportsAreExact ==
    ASSUME NamesApart
    PROVE  LoadSpec => [](NamesKeepTheirMeaning => ReportedExactly)
<1>1. LoadInit => DInv
  <2> SUFFICES ASSUME LoadInit PROVE DInv
    OBVIOUS
  <2>1. PositionOK /\ reports = {} /\ \A k \in Spaces, i \in Ids : At(k, i) = 0
    BY ProgramsAssumption DEF LoadInit, PositionOK, Init, At
  <2>2. \A p : \A codes : ~Reported(p, codes)
    BY <2>1 DEF Reported
  <2>3. \A p \in Positions, pass \in 1..4 : ~Visited(p, pass)
    BY <2>1, PositionType DEF LoadInit, Visited
  <2>4. \A p \in Positions : ~Done(p)
    BY <2>3, PassOfType DEF Done
  <2> QED BY <2>1, <2>2, <2>3, <2>4 DEF DInv, NothingLate, LedgerIsLive, DuplicatesKnown, Live
<1>2. BInv /\ BInv' /\ DInv /\ [LoadNext]_all => DInv'
  BY PlainKept, StepNothingLate, StepLedgerIsLive, StepDuplicatesKnown DEF DInv
<1>3. BInv /\ DInv /\ NamesKeepTheirMeaning => DuplicatesReported
  <2> SUFFICES ASSUME BInv, DInv, NamesKeepTheirMeaning, Loaded,
                      \A p \in Positions : StatementAt(p).replaces = NoReplaces,
                      NEW p \in Positions, DeclaresId(p)
               PROVE  Redeclares(p) <=> Reported(p, {"SchemaDuplicate", "SchemaSealed"})
    BY DEF DuplicatesReported
  <2>1. DuplicatesKnown
    BY DEF DInv, PlainProgram
  <2>2. \A q \in Positions, pass \in 1..4 : Visited(q, pass)
    BY PositionType, ProgramsAssumption DEF BInv, LInv, PositionOK, Visited, Loaded
  <2>3. \A q \in Positions : Live(q) <=> DeclaresId(q)
    BY <2>2, PassOfType DEF Live, Done, DeclaresId, Space, Unknown
  <2> QED BY <2>1, <2>3 DEF DuplicatesKnown, Redeclares, SameId, Space, Dups
<1>4. LoadSpec => []BInv
  BY AlwaysBInv
<1>5. LoadSpec => []ManifestsChecked
  BY ManifestsAreChecked DEF NamesApart
<1>6. DuplicatesReported /\ ManifestsChecked => ReportedExactly
  BY DEF ReportedExactly
<1> QED BY <1>1, <1>2, <1>3, <1>4, <1>5, <1>6, PTL DEF LoadSpec
=============================================================================
