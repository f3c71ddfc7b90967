------------------------------- MODULE Checks -------------------------------
(***************************************************************************)
(* The two passes of starcore that judge conditions without running them,  *)
(* over one file of a program whose declarations are all loaded: reads of  *)
(* properties first (Narrowing), then failure messages (Messages), a       *)
(* statement at a time.  What they report is held against every world the  *)
(* file can run in (Conditions).                                           *)
(***************************************************************************)
EXTENDS Narrowing, Messages

CONSTANT Programs        \* pairs of a registry and a file

ASSUME SlotAssumption == {"noun", "second", "location"} \subseteq Slots

VARIABLE reports         \* of the second pass: a code and a place

checks == <<registry, file, pass, at, stage, by_action, walk, reads, reports>>

ChecksInit ==
    /\ \E p \in Programs :
          /\ class = p.class /\ trait = p.trait
          /\ object = p.object /\ local_properties = p.local_properties
          /\ file = p.file
    /\ ReadsInit
    /\ reports = {}

CheckFailureMessages ==
    /\ pass = "messages"
    /\ at <= Len(file)
    /\ reports' = reports \cup Declaration(At, <<at>>, FALSE)
    /\ at' = at + 1
    /\ UNCHANGED <<registry, file, pass, stage, by_action, walk, reads>>

MessagesDone ==
    /\ pass = "messages"
    /\ at > Len(file)
    /\ pass' = "done"
    /\ UNCHANGED <<registry, file, at, stage, by_action, walk, reads, reports>>

ChecksNext ==
    \/ CheckPropertyReads /\ UNCHANGED reports
    \/ CheckFailureMessages
    \/ MessagesDone

ChecksSpec == ChecksInit /\ [][ChecksNext]_checks

-----------------------------------------------------------------------------
(* The worlds a statement runs in: a line the player has typed puts        *)
(* objects of its tokens' types into slots, and chance settles the rest    *)

Token == <<"noun", "second">>
Bound(line) == {Token[i] : i \in DOMAIN line} \cup (Slots \ {"noun", "second"})

\* The lines that lead to a statement: its own, or those of its action.
Lines(s) ==
    LET actions == {i \in DOMAIN file : file[i].form = "action" /\ file[i].id = s.of_action}
    IN  Range(s.match) \cup UNION {Range(file[i].match) : i \in actions}

Holdings(line) ==
    {h \in [Bound(line) -> Made] :
        /\ \A i \in DOMAIN line : IsA(h[Token[i]], line[i])
        /\ IsA(h["location"], Room)}

Blocks(s) == {key \in DOMAIN s.stages : s.stages[key].kind = "block"}

\* Unbound slots hold what `location` holds: they are never asked about.
Worlds(s, path) ==
    LET chances == UNION {Chances(s.stages[key].body, Append(path, Place(key))) : key \in Blocks(s)}
    IN  UNION {{[bound |-> Bound(line),
                 holds |-> [slot \in Slots |-> IF slot \in Bound(line) THEN h[slot]
                                               ELSE h["location"]],
                 chance |-> c] : h \in Holdings(line), c \in SUBSET chances} :
                  line \in Lines(s)}

StageHolds(s, path, key, world) ==
    Conjunction(Nothing, s.stages[key].body, Append(path, Place(key)), world)

\* A stage is reached when those before it hold, but a failureMsg when the
\* restrictions fail.
Earlier(s, key) == {k \in Blocks(s) : Place(k) < Place(key)}
Passed(s, path, key, world) ==
    \A k \in Earlier(s, key) : StageHolds(s, path, k, world)
Refused(s, path, world) ==
    /\ "restrictions" \in Blocks(s)
    /\ Passed(s, path, "restrictions", world)
    /\ ~StageHolds(s, path, "restrictions", world)

\* The reads a stage comes to: [path, slot, property].
ReadsOf(s, path, key, world) ==
    LET value == s.stages[key]
        here == Append(path, Place(key))
    IN  IF value.kind = "block" THEN Tests(Nothing, value.body, here, world)
        ELSE {[path |-> Append(here, i), slot |-> value.paths[i].slot,
               property |-> value.paths[i].property] : i \in DOMAIN value.paths}

\* Read r finds what it asks for, or was reported.
Answered(r, world) ==
    \/ r.slot \notin world.bound
    \/ ObjectHas(world.holds[r.slot], r.property)
    \/ \E x \in reads : x.path = r.path

Staged == {i \in DOMAIN file : StageOrder[file[i].form] # <<>>}

-----------------------------------------------------------------------------
(* Properties of the reads *)

\* What the walk carries from stage to stage is true of every world that
\* passes the stages walked: nothing learnt in a branch has escaped it.
ScopeTrue ==
    (pass = "reads" /\ stage > 0) =>
        \A w \in Worlds(At, <<at>>) :
            (\A k \in Blocks(At) : (\E i \in 1..(stage - 1) : i \in DOMAIN Order /\ Order[i] = k)
                                      => StageHolds(At, <<at>>, k, w))
            => \A slot \in w.bound :
                  /\ scope.narrowed[slot] # Nothing => IsA(w.holds[slot], scope.narrowed[slot])
                  /\ \A n \in scope.proven[slot] : ObjectHas(w.holds[slot], n)

\* A read nothing was reported about finds its property in every world that
\* comes to it, by way of any stage that the stages before it gate.
GatedReadsSound ==
    pass = "done" =>
        \A i \in Staged : \A key \in DOMAIN file[i].stages \ {"failureMsg"} :
            \A w \in Worlds(file[i], <<i>>) : Passed(file[i], <<i>>, key, w) =>
                \A r \in ReadsOf(file[i], <<i>>, key, w) : Answered(r, w)

\* A read of a slot typed by a class that is called definitely absent fails
\* in every world that comes to it.
AbsentReadsFail ==
    pass = "done" =>
        \A i \in Staged : \A key \in DOMAIN file[i].stages \ {"failureMsg"} :
            \A w \in Worlds(file[i], <<i>>) : Passed(file[i], <<i>>, key, w) =>
                \A r \in ReadsOf(file[i], <<i>>, key, w) :
                    (\E x \in reads : /\ x.path = r.path /\ x.code = "Absent"
                                      /\ x.type \in Declared)
                    => ~ObjectHas(w.holds[r.slot], r.property)

\* A read is judged truly: let through only where it succeeds, and called
\* definitely absent only where it fails.
ReadsJudgedTruly == GatedReadsSound /\ AbsentReadsFail

\* A read let through in the message that refuses, which is read when the
\* restrictions have failed, finds its property too.
FailureReadsSound ==
    pass = "done" =>
        \A i \in Staged : "failureMsg" \in DOMAIN file[i].stages =>
            \A w \in Worlds(file[i], <<i>>) : Refused(file[i], <<i>>, w) =>
                \A r \in ReadsOf(file[i], <<i>>, "failureMsg", w) : Answered(r, w)

\* A statement whose conditions are slots' blocks, each slot named of one
\* class at most, and whose lines say nothing of classes.
Plain(s) ==
    LET tops == {[key |-> k, i |-> i] : k \in Blocks(s), i \in 1..2}
        written == {t \in tops : t.i \in DOMAIN s.stages[t.key].body}
        top(t) == s.stages[t.key].body[t.i]
        classes(t) == {j \in DOMAIN top(t).body : top(t).body[j].key = "of_class"}
    IN  /\ \A k \in Blocks(s) : Len(s.stages[k].body) <= 2
        /\ \A t \in written : /\ top(t).key \in Slots
                              /\ \A j \in DOMAIN top(t).body :
                                    top(t).body[j].key \in {"of_class", "test"}
                              /\ Cardinality(classes(t)) <= 1
        /\ \A t, u \in written :
              top(t).key = top(u).key /\ t # u => classes(t) = {} \/ classes(u) = {}
        /\ \A line \in Lines(s), n \in 1..2 : n \in DOMAIN line => line[n] = Root

\* In a plain statement no narrowing is overlooked: what is reported does
\* fail in some world that comes to it, if any does.
PlainAlarmsReal ==
    pass = "done" =>
        \A i \in Staged : Plain(file[i]) => \A key \in DOMAIN file[i].stages \ {"failureMsg"} :
            LET coming == {w \in Worlds(file[i], <<i>>) : Passed(file[i], <<i>>, key, w)}
            IN  \A x \in reads :
                  (\E w \in coming : \E r \in ReadsOf(file[i], <<i>>, key, w) : r.path = x.path)
                  => \E w \in coming : \E r \in ReadsOf(file[i], <<i>>, key, w) :
                        r.path = x.path /\ ~ObjectHas(w.holds[r.slot], r.property)

-----------------------------------------------------------------------------
(* Properties of the messages *)

\* The restrictions of a file: those of its declarations and of the rules in
\* them, with whether a message further out covers them.
Restrictions ==
    {r \in {[s |-> file[i], path |-> <<i>>, covered |-> Covered(file[i])] : i \in DOMAIN file}
        \cup UNION {{[s |-> file[i].rules[j], path |-> <<i, Nested(j)>>,
                      covered |-> Covered(file[i]) \/ Covered(file[i].rules[j])] :
                        j \in DOMAIN file[i].rules} : i \in DOMAIN file} :
        "restrictions" \in Blocks(r.s)}

BodyOf(r) == r.s.stages["restrictions"].body
PlaceOf(r) == Append(r.path, Place("restrictions"))

\* The worlds in which it refuses.
Refusals(r) ==
    {w \in {[holds |-> [slot \in Slots |-> o], chance |-> c] :
               o \in Made, c \in SUBSET Chances(BodyOf(r), PlaceOf(r))} :
        ~Conjunction(Nothing, BodyOf(r), PlaceOf(r), w)}

ShownBy(r, w) == Shown(Nothing, BodyOf(r), PlaceOf(r), w)

RECURSIVE AllMessages(_, _)
AllMessages(body, path) ==
    {Append(path, i) : i \in MessagesOf(body)}
      \cup UNION {AllMessages(body[i].body, Append(path, i)) : i \in DOMAIN body}

\* A message that is rejected is one that no refusal shows.
RejectedNeverShown ==
    pass = "done" =>
        \A r \in Restrictions : \A w \in Refusals(r) : \A p \in ShownBy(r, w) :
            \A x \in reports : x.path # p

\* A message that stands alone in its block and is not rejected is shown by
\* some refusal.
LoneMessageShown ==
    pass = "done" =>
        \A r \in Restrictions : \A p \in AllMessages(BodyOf(r), PlaceOf(r)) :
            (/\ AllMessages(BodyOf(r), PlaceOf(r)) = {p}
             /\ \A x \in reports : x.path # p)
            => \E w \in Refusals(r) : p \in ShownBy(r, w)

\* A message is rejected only where no refusal shows it, and one that stands
\* alone is let through only where some refusal does.
MessagesShown == RejectedNeverShown /\ LoneMessageShown

\* A refusal that never shows anything is reported, as a missing message or
\* as one in the wrong place; and one that is reported missing never shows
\* anything, nor is there a message further out.
RefusalsExplained ==
    pass = "done" =>
        \A r \in Restrictions :
            LET dumb == /\ ~r.covered
                        /\ Refusals(r) # {}
                        /\ \A w \in Refusals(r) : ShownBy(r, w) = {}
            IN  /\ dumb => \E x \in reports :
                              \/ x = [code |-> "Missing", path |-> PlaceOf(r)]
                              \/ /\ x.code = "Unreachable"
                                 /\ x.path \in AllMessages(BodyOf(r), PlaceOf(r))
                /\ [code |-> "Missing", path |-> PlaceOf(r)] \in reports => dumb
=============================================================================
