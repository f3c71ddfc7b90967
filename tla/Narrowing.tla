----------------------------- MODULE Narrowing -----------------------------
(***************************************************************************)
(* Reading a property the object may not have (starcore/narrowing.cpp,     *)
(* spec 8.8): one file, its actions collected first, then every staged     *)
(* statement walked stage by stage with what is known of each slot.        *)
(***************************************************************************)
EXTENDS Conditions

CONSTANTS Root, Room     \* core's root class and its class of rooms

\* The stages of each form, in order (the schemas of builtin/schema.star).
StageOrder ==
    [action |-> <<"restrictions", "effects", "successMsg", "failureMsg">>,
     rule |-> <<"when", "conditions", "restrictions", "effects", "successMsg", "failureMsg">>,
     turn_hook |-> <<"when", "effects">>,
     quest |-> <<>>]

VARIABLES file,       \* the statements of the file
          pass,       \* "collect", "reads", "messages" or "done"
          at, stage,  \* the statement and the stage that are next
          by_action,  \* action id -> the types of its slots
          slots,      \* of the statement being walked: slot -> type, or Nothing
          scope,      \* and what is known of each slot
          reads       \* reports: where, which, and the slot's type there

registry == <<class, trait, object, local_properties>>
walk == <<slots, scope>>

-----------------------------------------------------------------------------
(* The static types of slots *)

Known(id) == id \in Declared \cup DeclaredTraits

Fixed == [s \in Slots |-> CASE s = "location" -> Room
                            [] s \in {"noun", "second"} -> Nothing
                            [] OTHER -> Root]

Position(s) == CASE s = "noun" -> 1 [] s = "second" -> 2 [] OTHER -> 0

\* Lines of tokens' types.  Where two disagree, the slot is an object.
SlotsOfAction(match) ==
    LET token(types, line) ==
            [s \in Slots |->
                LET i == Position(s)
                IN  IF i \notin DOMAIN line THEN types[s]
                    ELSE IF ~Known(line[i]) THEN types[s]
                    ELSE IF types[s] = Nothing THEN line[i]
                    ELSE IF types[s] = line[i] THEN types[s] ELSE Root]
    IN  FoldLeft(token, Fixed, match)

\* A rule has the slots of the action it responds to.
SlotsOf(s) ==
    LET own == SlotsOfAction(s.match)
    IN  [slot \in Slots |-> IF own[slot] = Nothing /\ s.of_action \in DOMAIN by_action
                            THEN by_action[s.of_action][slot] ELSE own[slot]]

-----------------------------------------------------------------------------
(* One read *)

NothingKnown == [narrowed |-> [s \in Slots |-> Nothing], proven |-> [s \in Slots |-> {}]]

TypeOf(slot, known) ==
    LET type == IF known.narrowed[slot] # Nothing THEN known.narrowed[slot] ELSE slots[slot]
    IN  IF Known(type) THEN type ELSE Nothing

\* classify_property, of a class or of a trait.  No class descends from a trait.
ClassifyAny(property, type) ==
    IF type \in Declared THEN Classify(property, type)
    ELSE IF trait[type][property] # Nothing THEN "Present" ELSE "Absent"

Report(slot, property, path, known) ==
    LET type == TypeOf(slot, known)
    IN  IF type = Nothing THEN {}
        ELSE IF property \in known.proven[slot] THEN {}
        ELSE IF ClassifyAny(property, type) = "Present" THEN {}
        ELSE {[path |-> path, code |-> ClassifyAny(property, type), type |-> type]}

-----------------------------------------------------------------------------
(* Blocks: what is known after them, and what they report *)

Seen(known, reports) == [known |-> known, reports |-> reports]

\* Statement after statement, each knowing what the ones before it left.
InOrder(Visit(_, _, _), body, path, known) ==
    LET next(seen, i) == LET v == Visit(body[i], Append(path, i), seen.known)
                         IN  Seen(v.known, seen.reports \cup v.reports)
    IN  FoldLeftDomain(next, Seen(known, {}), body)

\* Alternatives, each knowing what was known before them all.
Apart(Visit(_, _, _), body, path, known) ==
    Seen(known, UNION {Visit(body[i], Append(path, i), known).reports : i \in DOMAIN body})

\* A predicate that names a class or a trait says which the slot holds, in
\* place of what was known; any other name says nothing.
Narrowed(known, slot, id) ==
    IF Known(id) THEN [known EXCEPT !.narrowed[slot] = id] ELSE known
Proven(known, slot, property) == [known EXCEPT !.proven[slot] = @ \cup {property}]

\* (A mutant: an alternative knows what the one before it established.)
RECURSIVE ObjectScopeSharing(_, _, _, _)
ObjectScopeSharing(slot, s, path, known) ==
    LET inside(t, p, k) == ObjectScopeSharing(slot, t, p, k)
    IN  CASE s.key \in {"of_class", "has_trait", "is"} -> Seen(Narrowed(known, slot, s.named), {})
          [] s.key = "has_prop" -> Seen(Proven(known, slot, s.named), {})
          [] s.key \in Barriers -> Seen(known, InOrder(inside, s.body, path, known).reports)
          [] s.key = "AND" -> InOrder(inside, s.body, path, known)
          [] s.key = "test" -> Seen(known, Report(slot, s.named, path, known))
          [] OTHER -> Seen(known, {})

\* One statement of a block about `slot`.
RECURSIVE ObjectScope(_, _, _, _)
ObjectScope(slot, s, path, known) ==
    LET inside(t, p, k) == ObjectScope(slot, t, p, k)
    IN  CASE s.key \in {"of_class", "has_trait", "is"} -> Seen(Narrowed(known, slot, s.named), {})
          [] s.key = "has_prop" -> Seen(Proven(known, slot, s.named), {})
          [] s.key = "NOT" -> Seen(known, InOrder(inside, s.body, path, known).reports)
          [] s.key \in {"OR", "COUNT_AT_LEAST"} -> Apart(inside, s.body, path, known)
          [] s.key = "AND" -> InOrder(inside, s.body, path, known)
          [] s.key = "test" -> Seen(known, Report(slot, s.named, path, known))
          [] OTHER -> Seen(known, {})

\* (A mutant: what a NOT establishes is known after it.)
RECURSIVE ConditionsLeaking(_, _, _)
ConditionsLeaking(s, path, known) ==
    LET about(t, p, k) == ObjectScope(s.key, t, p, k)
    IN  CASE s.key \in {"OR", "COUNT_AT_LEAST"} -> Apart(ConditionsLeaking, s.body, path, known)
          [] s.key \in {"AND", "NOT"} -> InOrder(ConditionsLeaking, s.body, path, known)
          [] s.key \in Slots -> InOrder(about, s.body, path, known)
          [] OTHER -> Seen(known, {})

\* One statement of a block of conditions.  NOT is a block of its own, of
\* which nothing is known afterwards.
RECURSIVE ConditionsOne(_, _, _)
ConditionsOne(s, path, known) ==
    LET about(t, p, k) == ObjectScope(s.key, t, p, k)
    IN  CASE s.key = "NOT" -> Seen(known, InOrder(ConditionsOne, s.body, path, known).reports)
          [] s.key \in {"OR", "COUNT_AT_LEAST"} -> Apart(ConditionsOne, s.body, path, known)
          [] s.key = "AND" -> InOrder(ConditionsOne, s.body, path, known)
          [] s.key \in Slots -> InOrder(about, s.body, path, known)
          [] OTHER -> Seen(known, {})

-----------------------------------------------------------------------------
(* The walk of the file *)

At == file[at]
Order == StageOrder[At.form]
Value == At.stages[Order[stage]]
Here == <<at, Place(Order[stage])>>
Written == stage \in DOMAIN Order /\ Order[stage] \in DOMAIN At.stages

ReadsInit ==
    /\ pass = "collect"
    /\ at = 1
    /\ stage = 0
    /\ by_action = <<>>
    /\ slots = Fixed
    /\ scope = NothingKnown
    /\ reads = {}

\* The first action of an id is the one a rule of it responds to.
Collect ==
    /\ pass = "collect"
    /\ at <= Len(file)
    /\ by_action' = IF At.form = "action" /\ At.id \notin DOMAIN by_action
                    THEN [id \in DOMAIN by_action \cup {At.id} |->
                             IF id = At.id THEN SlotsOfAction(At.match) ELSE by_action[id]]
                    ELSE by_action
    /\ at' = at + 1
    /\ UNCHANGED <<registry, file, pass, stage, walk, reads>>

Collected ==
    /\ pass = "collect"
    /\ at > Len(file)
    /\ pass' = "reads"
    /\ at' = 1
    /\ UNCHANGED <<registry, file, stage, by_action, walk, reads>>

\* A form without stages has nothing for a narrowing to flow through.
Unstaged ==
    /\ pass = "reads"
    /\ at <= Len(file)
    /\ Order = <<>>
    /\ at' = at + 1
    /\ UNCHANGED <<registry, file, pass, stage, by_action, walk, reads>>

Open ==
    /\ pass = "reads"
    /\ at <= Len(file)
    /\ stage = 0 /\ Order # <<>>
    /\ stage' = 1
    /\ slots' = SlotsOf(At)
    /\ scope' = NothingKnown
    /\ UNCHANGED <<registry, file, pass, at, by_action, reads>>

\* (A mutant: every stage starts from nothing.)
ForgetfulStage ==
    /\ pass = "reads" /\ at <= Len(file) /\ Written
    /\ Value.kind = "block"
    /\ LET seen == InOrder(ConditionsOne, Value.body, Here, NothingKnown)
       IN  scope' = seen.known /\ reads' = reads \cup seen.reports
    /\ stage' = stage + 1
    /\ UNCHANGED <<registry, file, pass, at, by_action, slots>>

ConditionStage ==
    /\ pass = "reads" /\ at <= Len(file) /\ Written
    /\ Value.kind = "block"
    /\ LET seen == InOrder(ConditionsOne, Value.body, Here, scope)
       IN  scope' = seen.known /\ reads' = reads \cup seen.reports
    /\ stage' = stage + 1
    /\ UNCHANGED <<registry, file, pass, at, by_action, slots>>

\* Every path in the expressions of a template, as [slot, property].
TextStage ==
    /\ pass = "reads" /\ at <= Len(file) /\ Written
    /\ Value.kind = "text"
    /\ reads' = reads \cup UNION {Report(Value.paths[i].slot, Value.paths[i].property,
                                         Append(Here, i), scope) :
                                     i \in {i \in DOMAIN Value.paths : Value.paths[i].slot \in Slots}}
    /\ stage' = stage + 1
    /\ UNCHANGED <<registry, file, pass, at, by_action, walk>>

NoStage ==
    /\ pass = "reads" /\ at <= Len(file) /\ stage \in DOMAIN Order
    /\ ~Written
    /\ stage' = stage + 1
    /\ UNCHANGED <<registry, file, pass, at, by_action, walk, reads>>

Close ==
    /\ pass = "reads"
    /\ at <= Len(file)
    /\ stage > Len(Order)
    /\ stage' = 0
    /\ at' = at + 1
    /\ UNCHANGED <<registry, file, pass, by_action, walk, reads>>

ReadsDone ==
    /\ pass = "reads"
    /\ at > Len(file)
    /\ pass' = "messages"
    /\ at' = 1
    /\ UNCHANGED <<registry, file, stage, by_action, walk, reads>>

CheckPropertyReads ==
    \/ Collect \/ Collected \/ Unstaged \/ Open
    \/ ConditionStage \/ TextStage \/ NoStage \/ Close \/ ReadsDone
=============================================================================
