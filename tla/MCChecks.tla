------------------------------ MODULE MCChecks ------------------------------
(***************************************************************************)
(* The programs of the run.  One registry: weapons have damage, blades     *)
(* an edge by their trait, rooms light; a rock declares damage for itself. *)
(***************************************************************************)
EXTENDS Checks

MCMixins == {<<>>, <<"sharp">>}

Has(names) == [n \in Names |-> IF n \in names THEN "int" ELSE Nothing]
Of(parent, traits, names) ==
    [of_class |-> parent, root |-> parent = Nothing, traits |-> traits, properties |-> Has(names)]
Object(c, local) == [class |-> c, traits |-> <<>>, local |-> local]

Registry ==
    [class |-> [id \in Ids |-> CASE id = "thing" -> Of(Nothing, <<>>, {})
                                 [] id = "room" -> Of("thing", <<>>, {"lit"})
                                 [] id = "weapon" -> Of("thing", <<>>, {"damage"})
                                 [] id = "blade" -> Of("weapon", <<"sharp">>, {})],
     trait |-> [id \in TraitIds |-> Has({"edge"})],
     object |-> [o \in Objects |-> CASE o = "hall" -> Object("room", {})
                                     [] o = "club" -> Object("weapon", {})
                                     [] o = "sword" -> Object("blade", {})
                                     [] o = "rock" -> Object("thing", {"damage"})],
     local_properties |-> {[name |-> "damage", class |-> "thing"]}]

Program(f) == [file |-> f] @@ Registry

-----------------------------------------------------------------------------
(* Statements *)

Block(body) == [kind |-> "block", body |-> body]
Text(paths) == [kind |-> "text", paths |-> paths]
Path(slot, property) == [slot |-> slot, property |-> property]

Action(id, match, stages, rules) ==
    [form |-> "action", id |-> id, of_action |-> Nothing, match |-> match,
     stages |-> stages, rules |-> rules]
Form(form, of_action, stages) ==
    [form |-> form, id |-> Nothing, of_action |-> of_action, match |-> <<>>,
     stages |-> stages, rules |-> <<>>]

Ask(p) == Statement("test", p, <<>>)
OfClass(c) == Statement("of_class", c, <<>>)
Msg == Statement("failureMsg", Nothing, <<>>)
P == Statement("visited", Nothing, <<>>)
Count(n) == Statement("n", n, <<>>)
Group(key, body) ==
    Statement(key, Nothing, IF key = "COUNT_AT_LEAST" THEN <<Count(1)>> \o body ELSE body)

Combinators == {"NOT", "OR", "AND", "COUNT_AT_LEAST"}
Something == <<<<"thing">>>>
Noun(body) == Group("noun", body)

-----------------------------------------------------------------------------
(* Reads inside one object's block *)

Leaves == {OfClass("weapon"), OfClass("thing"), Statement("has_trait", "sharp", <<>>),
           Statement("has_prop", "damage", <<>>), Ask("damage"), Ask("edge")}
Asks == {Ask("damage"), Ask("edge"), Ask("lit")}

Deeper == {Group(k, <<x, y>>) : k \in Combinators, x \in Leaves, y \in Leaves}

ObjectBlocks ==
    {<<x, y>> : x \in Leaves \cup Deeper, y \in Asks}
      \cup {<<x, y, z>> : x \in Leaves, y \in Leaves, z \in Asks}
      \cup {<<Statement("is", i, <<>>), Ask("damage")>> : i \in {"club", "weapon"}}

InOneBlock ==
    {<<Action("hit", Something, [restrictions |-> Block(<<Noun(b)>>)], <<>>)>> : b \in ObjectBlocks}

(* Reads of two slots, under combinators of their blocks *)

SlotBlocks == {Noun(<<OfClass("weapon")>>), Noun(<<Ask("damage")>>),
               Noun(<<OfClass("blade"), Ask("edge")>>), Group("second", <<Ask("damage")>>)}

Mixed ==
    {<<Action("hit", <<<<"thing", "thing">>>>,
              [restrictions |-> Block(<<Group(k, <<x, y>>), z>>)], <<>>)>> :
        k \in Combinators, x \in SlotBlocks, y \in SlotBlocks,
        z \in {Noun(<<Ask("damage")>>), Group("second", <<Ask("damage")>>)}}

(* Reads in later stages, and in the stages of rules *)

Guards == {OfClass("weapon"), OfClass("blade"), Statement("has_prop", "damage", <<>>),
           Group("NOT", <<OfClass("blade")>>), Ask("damage")}
Said == {Text(<<Path("noun", "damage"), Path("noun", "edge"), Path("noun", "lit")>>),
         Text(<<Path("location", "lit"), Path("me", "damage")>>)}

Matches == {<<<<"thing">>>>, <<<<"weapon">>>>, <<<<"weapon">>, <<"room">>>>, <<<<"weapon">>, <<"blade">>>>,
           <<<<"blade">>, <<"blade", "weapon">>>>, <<<<"unheard of">>>>, <<>>}

Later ==
    {<<Action("hit", match, [restrictions |-> Block(<<Noun(<<g>>)>>), successMsg |-> said], <<>>)>> :
        match \in Matches, g \in Guards, said \in Said}

OfRules ==
    {<<Form("rule", of, [when |-> Block(<<Noun(<<g>>)>>), conditions |-> Block(<<Noun(<<h>>)>>),
                         successMsg |-> said]),
       Action("hit", match, [restrictions |-> Block(<<P>>)], <<>>),
       Form("quest", Nothing, [complete_when |-> Block(<<Group("OR", <<P, Msg>>)>>)])>> :
        of \in {"hit", "miss"}, match \in Matches, g \in Guards,
        h \in {OfClass("blade"), Ask("damage")}, said \in Said}

(* Reads in the message that refuses *)

Refusing ==
    {<<Action("hit", Something, [restrictions |-> Block(<<Noun(<<g>>)>>),
                                 failureMsg |-> Text(<<Path("noun", "damage")>>)], <<>>)>> :
        g \in Guards}

-----------------------------------------------------------------------------
(* Messages *)

Around == Combinators \cup {"noun"}
Carrying == Statement("carrying", Nothing, <<Msg>>)
Inner == {<<P>>, <<P, Msg>>, <<P, Carrying>>, <<Carrying, P>>, <<Carrying>>}

Once == {Group(k, b) : k \in Around, b \in Inner}
Twice == {Group(k, b) : k \in Around, b \in {<<x>> : x \in Once} \cup {<<P, x, Msg>> : x \in Once}}

Explained ==
    {<<Action("hit", Something, [restrictions |-> Block(b)], <<>>)>> :
        b \in {<<>>} \cup Inner \cup {<<x, P>> : x \in Once} \cup {<<x, Msg>> : x \in Once}
              \cup {<<x>> : x \in Twice}}

\* A message of the action or of the rule, over a rule in the action.
Sorry == [failureMsg |-> Text(<<>>)]
Over ==
    {<<Action("hit", Something, said @@ [restrictions |-> Block(<<P>>)],
              <<Form("rule", Nothing,
                     more @@ [when |-> Block(<<P, Msg>>), restrictions |-> Block(b)])>>)>> :
        said \in {<<>>, Sorry}, more \in {<<>>, Sorry}, b \in Inner}

AllPrograms ==
    {Program(f) : f \in InOneBlock \cup Mixed \cup Later \cup OfRules \cup Explained \cup Over}
RefusingPrograms == {Program(f) : f \in Refusing}
=============================================================================
