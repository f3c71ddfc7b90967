------------------------------ MODULE Messages ------------------------------
(***************************************************************************)
(* Where a failureMsg may stand (starcore/messages.cpp, spec 10.5): one    *)
(* declaration, with the declarations nested in it.  A report is a code    *)
(* and a place; a stage has the place of its key, and the nested           *)
(* declarations the places after those of the stages.                      *)
(***************************************************************************)
EXTENDS Conditions

\* The keys of each form that hold conditions.  A quest is a library's form,
\* and its key none of the stages the pass knows.
ConditionKeys(s) ==
    CASE s.form = "action" -> {"restrictions"}
      [] s.form = "rule" -> {"when", "conditions", "restrictions"}
      [] s.form = "turn_hook" -> {"when"}
      [] s.form = "quest" -> {"complete_when"}

SilentStages == {"conditions", "when"}

Stages(s) == {key \in ConditionKeys(s) \cap DOMAIN s.stages : s.stages[key].kind = "block"}

\* A failureMsg of the declaration's own.
Covered(s) == "failureMsg" \in DOMAIN s.stages

-----------------------------------------------------------------------------
(* One block of conditions *)

RECURSIVE AnyMessage(_)
AnyMessage(body) == \/ MessagesOf(body) # {}
                    \/ \E i \in DOMAIN body : AnyMessage(body[i].body)

\* (A mutant: a barrier hides its own message too.)
RECURSIVE ScanOnTheWayIn(_, _, _, _, _)
ScanOnTheWayIn(body, path, silent, owner, barrier) ==
    LET hidden == barrier \/ owner \in Barriers
        code == IF silent THEN "Silent" ELSE "Unreachable"
    IN  {[code |-> code, path |-> Append(path, i)] :
            i \in {i \in MessagesOf(body) : silent \/ hidden}}
        \cup UNION {ScanOnTheWayIn(body[i].body, Append(path, i), silent, body[i].key, hidden) :
                       i \in DOMAIN body}

\* A barrier hides what its children say and not what it says itself, so it
\* takes effect on the way out of its block.
RECURSIVE Scan(_, _, _, _, _)
Scan(body, path, silent, owner, barrier) ==
    LET code == IF silent THEN "Silent" ELSE "Unreachable"
    IN  {[code |-> code, path |-> Append(path, i)] :
            i \in {i \in MessagesOf(body) : silent \/ barrier}}
        \cup UNION {Scan(body[i].body, Append(path, i), silent, body[i].key,
                         barrier \/ owner \in Barriers) : i \in DOMAIN body}

RECURSIVE HasReachableMessage(_, _)
HasReachableMessage(body, owner) ==
    \/ MessagesOf(body) # {}
    \/ /\ owner \notin Barriers
       /\ \E i \in DOMAIN body : HasReachableMessage(body[i].body, body[i].key)

ConditionStageReports(body, path, key, covers) ==
    LET missing == /\ key = "restrictions" /\ ~covers
                   /\ ~AnyMessage(body)
                   /\ body # <<>> /\ ~HasReachableMessage(body, key)
    IN  Scan(body, path, key \in SilentStages, key, FALSE)
        \cup (IF missing THEN {[code |-> "Missing", path |-> path]} ELSE {})

-----------------------------------------------------------------------------
(* One declaration *)

\* (A mutant: a message of the action does not cover its rules.)
RECURSIVE DeclarationAlone(_, _, _)
DeclarationAlone(s, path, supplied) ==
    LET covers == supplied \/ Covered(s)
    IN  UNION {ConditionStageReports(s.stages[key].body, Append(path, Place(key)), key, covers) :
                  key \in Stages(s)}
        \cup UNION {DeclarationAlone(s.rules[i], Append(path, Nested(i)), FALSE) :
                       i \in DOMAIN s.rules}

\* What the pass reports of a declaration; `supplied` is a message further out.
RECURSIVE Declaration(_, _, _)
Declaration(s, path, supplied) ==
    LET covers == supplied \/ Covered(s)
    IN  UNION {ConditionStageReports(s.stages[key].body, Append(path, Place(key)), key, covers) :
                  key \in Stages(s)}
        \cup UNION {Declaration(s.rules[i], Append(path, Nested(i)), covers) :
                       i \in DOMAIN s.rules}
=============================================================================
