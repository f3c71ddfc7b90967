------------------------------ MODULE Instances ------------------------------
(***************************************************************************)
(* Objects (spec 7.4, 8.5, 8.7): which class a statement instantiates, the *)
(* properties an object declares for itself (schema/schema.cpp), where it  *)
(* is placed (starcore/placement.cpp) and which of its keys mean nothing   *)
(* (starcore/instance_properties.cpp).  A block is the statements or the   *)
(* scalars between its braces; a statement is a key, an operator and a     *)
(* value.                                                                  *)
(***************************************************************************)
EXTENDS Values

IsBlock(v) == v # Nothing /\ v.is = "block"

With(block, key) == {i \in DOMAIN block.body : block.body[i].key = key}
ValueOf(block, key) ==
    IF With(block, key) = {} THEN Nothing ELSE block.body[Least(With(block, key))].value

Identifier(v) == IF v # Nothing /\ v.is = "scalar" /\ v.kind = "Identifier" THEN v.text ELSE Nothing

\* Value::as_type: a type without arguments is written as an identifier.
AsType(v) ==
    IF v # Nothing /\ v.is = "type" THEN v.type
    ELSE IF Identifier(v) # Nothing THEN Plain(Identifier(v)) ELSE Nothing

\* read_object_class: the key is the class, or the key is `object` and the
\* class is named inside.
ReadObjectClass(s) ==
    LET named == IF s.key # "object" THEN s.key
                 ELSE IF IsBlock(s.value) THEN Identifier(ValueOf(s.value, "of_class")) ELSE Nothing
    IN  IF named \in Declared THEN named ELSE Nothing

-----------------------------------------------------------------------------
(* Properties an object declares for itself *)

PropType(v) == IF IsBlock(v) THEN AsType(ValueOf(v, "type")) ELSE AsType(v)

\* The places of declarations in a block: a `prop_def` and a statement in it.
PropPlaces(block) ==
    UNION {{<<i, j>> : j \in {j \in DOMAIN block.body[i].value.body :
                                 block.body[i].value.body[j].value # Nothing}} :
              i \in {i \in With(block, "prop_def") : IsBlock(block.body[i].value)}}

PropAt(block, p) == block.body[p[1]].value.body[p[2]]

\* read_local_prop_defs
LocalPropDefs(block) ==
    {[name |-> PropAt(block, p).key, type |-> PropType(PropAt(block, p).value), place |-> p] :
       p \in {p \in PropPlaces(block) : PropType(PropAt(block, p).value) # Nothing}}

\* What read_local_prop_defs reports: a bare value, no type, an unknown marker.
PropDefReports(block, at) ==
    {Note("SchemaInvalid", Append(at, i)) : i \in {i \in With(block, "prop_def") : ~IsBlock(block.body[i].value)}}
      \cup {Note("SchemaInvalid", at \o p) :
               p \in {p \in PropPlaces(block) : PropType(PropAt(block, p).value) = Nothing}}
      \cup UNION {{Note("UnknownKey", Append(at \o p, k)) :
                      k \in {k \in DOMAIN PropAt(block, p).value.body :
                                ~HasKey(forms["prop_marker"], PropAt(block, p).value.body[k].key)}} :
                    p \in {p \in PropPlaces(block) : /\ IsBlock(PropAt(block, p).value)
                                                     /\ "prop_marker" \in DOMAIN forms}}

\* find_declared_property
FindDeclared(c, name) == IF name \in Names THEN Inherited(c, name) ELSE Nothing

Earlier(p, q) == p[1] < q[1] \/ (p[1] = q[1] /\ p[2] <= q[2])

\* resolve_property: the object's own declarations come first.
ResolveProperty(name, local, c) ==
    LET own == {d \in local : d.name = name}
    IN  IF own = {} THEN FindDeclared(c, name)
        ELSE (CHOOSE d \in own : \A e \in own : Earlier(d.place, e.place)).type

\* (A mutant: another type for an inherited property is taken for a repeat.)
CheckLocalPropDefsMild(local, c, at) ==
    {Note("PropDefRedundant", at \o d.place) : d \in {d \in local : FindDeclared(c, d.name) # Nothing}}

\* check_local_prop_defs: an inherited property keeps its type.
CheckLocalPropDefs(local, c, at) ==
    {Note(IF FindDeclared(c, d.name) = d.type THEN "PropDefRedundant" ELSE "PropDefTypeMismatch",
          at \o d.place) : d \in {d \in local : FindDeclared(c, d.name) # Nothing}}

-----------------------------------------------------------------------------
(* Placement *)

Relations == IF "relation_enum" \in DOMAIN enums THEN enums["relation_enum"] ELSE {}

Sugar(block) == {i \in DOMAIN block.body : block.body[i].key \in Relations}
LongForm(block) == With(block, "holder") \cup With(block, "relation")

\* (A mutant: a keyword beside the long form wins.)
PlacementReportsSugar(block, at) ==
    {Note("PlacementConflict", Append(at, i)) : i \in {i \in Sugar(block) : \E j \in Sugar(block) : j < i}}

\* What read_placement reports: both spellings, or two keywords.
PlacementReports(block, at) ==
    LET sugar == Sugar(block)
    IN  IF sugar # {} /\ LongForm(block) # {}
        THEN {Note("PlacementConflict", Append(at, Least(sugar)))}
        ELSE {Note("PlacementConflict", Append(at, i)) :
                 i \in {i \in sugar : i # Least(sugar) /\ \A j \in sugar : j < i => j = Least(sugar)}}

\* read_placement: the holder and the relation of an object, or Nothing for
\* one that has none or has two.
ReadPlacement(block) ==
    LET sugar == Sugar(block)
    IN  IF PlacementReports(block, <<>>) # {} \/ sugar \cup LongForm(block) = {} THEN Nothing
        ELSE IF sugar # {} THEN LET s == block.body[Least(sugar)]
                                IN  [relation |-> s.key, holder |-> Identifier(s.value)]
        ELSE [relation |-> Identifier(ValueOf(block, "relation")),
              holder |-> Identifier(ValueOf(block, "holder"))]

-----------------------------------------------------------------------------
(* Keys that mean nothing *)

Structural == {"id", "traits", "prop_def", "of_class"}

\* (A mutant: what the object declares for itself is forgotten.)
UnknownPropertiesOfClass(block, c, at) ==
    {Note("PropUnknown", Append(at, i)) :
        i \in {i \in DOMAIN block.body : /\ block.body[i].key \notin Structural \cup Relations
                                         /\ FindDeclared(c, block.body[i].key) = Nothing}}

\* check_instance_properties, for the block of one object.
UnknownProperties(block, c, at) ==
    LET local == LocalPropDefs(block)
    IN  {Note("PropUnknown", Append(at, i)) :
            i \in {i \in DOMAIN block.body :
                      /\ block.body[i].key \notin Structural \cup Relations
                      /\ ResolveProperty(block.body[i].key, local, c) = Nothing}}
=============================================================================
