---------------------------- MODULE SpatialGrammar ----------------------------
(***************************************************************************)
(* Clauses that say in fixed words what is checked, and are compiled as    *)
(* they stand, without the model (src/pipeline/spatial_rules.py).          *)
(*                                                                         *)
(* A clause is the form that it matches as a whole, with the words and     *)
(* numbers in its places; what matches no form is no clause here.          *)
(***************************************************************************)
EXTENDS NormSpec

CONSTANTS
    Inflected,      \* _ENTITIES: [words -> [name, type]]
    AllZones        \* the name that stands for every functional zone

(* plan() of a rule: no plan is made of what its contract refuses. *)
Ruled(template, params, layers, attributes) ==
    LET plan == [template |-> template, params |-> params, layers |-> layers,
                 attributes |-> attributes, scope |-> None, applicability |-> None]
    IN IF Valid(plan) THEN Some(plan) ELSE None

Place(role, words) == Layer(role, Inflected[words])
Zoned(role) == Layer(role, [name |-> AllZones, type |-> "functional_zone"])
FloorsOf(role) == [role |-> "floors", on |-> role, accepts |-> Candidates("floors")]

DistanceRule(c) ==
    IF Inflected[c.source] = Inflected[c.target] THEN None
    ELSE Ruled("distance_from_source",
               [targets |-> <<"targets">>, geometry_mode |-> "buffered",
                distance |-> Some(c.amount * LengthScale[c.unit])],
               <<Place("source", c.source), Place("targets", c.target)>>, << >>)

(* What lies in a zone as a whole, and what does so "wholly or in part". *)
JoinOf == [whole |-> "within", part |-> "intersects"]

FloorsRule(c) ==
    Ruled("zonal_attribute_threshold",
          [attribute_role |-> "floors", operator |-> "<=", threshold |-> Some(c.threshold),
           threshold_role |-> None, join |-> JoinOf[c.join]],
          <<Place("objects", c.objects), Zoned("zones")>>, <<FloorsOf("objects")>>)

(* For every house so many of its neighbours. *)
PresenceRule(c) ==
    IF Inflected[c.neighbors] # Inflected[c.contour] THEN None
    ELSE Ruled("presence_within",
               [neighbors |-> <<"neighbors">>, distance |-> c.amount * LengthScale[c.unit],
                minimum |-> c.count],
               <<Layer("objects", [name |-> House, type |-> "physical_object"]),
                 Place("neighbors", c.neighbors)>>, << >>)

(* A distance to houses for each range of their floors. *)
TableRule(c) ==
    IF Inflected[c.targets] # Inflected[c.checked] \/ Inflected[c.targets].name = House THEN None
    ELSE Ruled("distance_table",
               [targets |-> <<"targets">>, attribute_role |-> "floors",
                bands |-> [i \in DOMAIN c.rows |->
                              [min |-> c.rows[i].low, max |-> c.rows[i].high,
                               distance |-> c.rows[i].distance]]],
               <<Layer("source", [name |-> House, type |-> "physical_object"]),
                 Place("targets", c.targets)>>, <<FloorsOf("source")>>)

ShareRule(c) ==
    IF Inflected[c.objects] # Inflected[c.repeated] THEN None
    ELSE Ruled("zonal_ratio", [operator |-> "<=", threshold |-> Some(c.threshold)],
               <<Zoned("zones"), Place("numerator", c.objects)>>, << >>)

(* The words in the places of a clause; words that are not known compile to nothing. *)
WordsOf(c) ==
    CASE c.form = "distance" -> {c.source, c.target} [] c.form = "floors" -> {c.objects}
      [] c.form = "presence" -> {c.neighbors, c.contour} [] c.form = "table" -> {c.targets, c.checked}
      [] c.form = "share" -> {c.objects, c.repeated}

CompileRule(c) ==
    IF ~(WordsOf(c) \subseteq DOMAIN Inflected) THEN None
    ELSE CASE c.form = "distance" -> DistanceRule(c) [] c.form = "floors" -> FloorsRule(c)
           [] c.form = "presence" -> PresenceRule(c) [] c.form = "table" -> TableRule(c)
           [] c.form = "share" -> ShareRule(c)

=============================================================================
