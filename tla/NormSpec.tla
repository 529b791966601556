------------------------------- MODULE NormSpec -------------------------------
(***************************************************************************)
(* How the reading of a norm by the model (a spec) becomes a check plan    *)
(* (src/pipeline/norm_spec.py).  The model never writes a plan: the        *)
(* compiler turns a spec into one, or refuses it.                          *)
(*                                                                         *)
(* A text is what the patterns of the compiler and of norm_guards.py find  *)
(* in it:                                                                  *)
(*   numbers      the numbers it states                                    *)
(*   says         the wordings that are recognised, from Wordings          *)
(*   exceedBy     numbers by which a limit of another norm is exceeded     *)
(*   ranges       its ranges, in order                                     *)
(* A unit is what its spellings mean.                                      *)
(***************************************************************************)
EXTENDS PlanContract, CatalogNames

CONSTANTS
    House,               \* RESIDENTIAL_BUILDING,
    Residences,          \* names of dwellings, House and the residential zones among them
    GenericBuildings,    \* catalog types too broad to be meant,
    MeasureLabels,       \* names that are quantities, and parts of buildings
    BuildingParts,
    MinDistance          \* metres below which a distance is not a matter of territory

(* The templates and the fields of a reading. *)
SpecTemplates == {"min_distance", "prohibited_within", "max_distance", "accessibility",
                  "attribute_limit", "zone_attribute_limit", "zone_share", "provision"}

SpecFields == {"template", "operator", "checked", "other", "value", "unit", "attribute", "objects", "access",
               "accessUnit", "mode", "unconditional", "variants", "housing"}

HousingTypes == {"individual", "lowrise", "midrise", "multistorey"}

(* The schema of a reading, as far as its plan depends on it. *)
IsReading(spec) ==
    /\ SpecFields \subseteq DOMAIN spec
    /\ spec.template \in SpecTemplates \cup {"none"}
    /\ Optional(spec.value) /\ Optional(spec.objects) /\ spec.housing \subseteq HousingTypes
    /\ spec.variants \in Seq(ToSet(spec.variants))
    /\ \A v \in ToSet(spec.variants) : Optional(v.value) /\ Optional(v.objects)

Wordings == {"accessibility", "provision_table", "per_capita", "transport", "walking",
             "direction", "at_most", "at_least", "periodic", "depth"}

LengthScale == [m |-> 1, km |-> 1000]
TimeScale == [min |-> 1, h |-> 60]
AreaScale == [m2 |-> 1, ha |-> 10000]

Refused(reasons) == [plan |-> None, reasons |-> reasons]
Accepted(plan) == [plan |-> Some(plan), reasons |-> {}]

(* A ValidationError that nothing in compile catches: no plan, and no refusal either. *)
Raised == [plan |-> None, reasons |-> {"raised"}]

(* Metres per hour: walking, and transport from door to door; a route is 1.3 times as *)
(* long as the straight line.                                                         *)
Speed == [walk |-> 4800, transport |-> 25000]
StraightInMinutes(n) == (n * Speed.transport * 10) \div (60 * 13)

IsResidence(item) == item # None /\ item[1].name \in Residences

-----------------------------------------------------------------------------
(* Readings that can mean only one thing. *)

(* _as_accessibility: in a clause on accessibility a distance to dwellings is an upper *)
(* bound, and so is any "accessibility".                                               *)
AsAccessibility(spec, source) ==
    IF "accessibility" \notin source.says THEN spec
    ELSE IF spec.template = "min_distance" /\ (IsResidence(spec.checked) \/ IsResidence(spec.other))
         THEN [spec EXCEPT !.template = "accessibility", !.operator = "<="]
    ELSE IF spec.template = "accessibility" /\ spec.operator \in {">=", ">"}
         THEN [spec EXCEPT !.operator = "<="]
    ELSE spec

(* _with_range_variant: the other end of a quoted range is a variant. *)
WithRangeVariant(spec) ==
    LET ranges == spec.quote.ranges
        first == ranges[1]
        start == IF spec.template = "min_distance" THEN first.high ELSE first.low
        read == IF spec.value = None /\ ranges # << >>
                THEN [spec EXCEPT !.value = Some(start), !.unit = first.unit] ELSE spec
        ends == {i \in DOMAIN ranges : /\ ranges[i].low < ranges[i].high
                                       /\ read.value \in {Some(ranges[i].low), Some(ranges[i].high)}}
        range == ranges[CHOOSE i \in ends : \A j \in ends : i <= j]
        other == Some(IF read.value = Some(range.low) THEN range.high ELSE range.low)
        variant == [value |-> other, unit |-> Some(read.unit), objects |-> None,
                    access |-> None, accessUnit |-> None, mode |-> None, housing |-> {}]
    IN IF \/ spec.template \notin {"min_distance", "max_distance", "accessibility"}
          \/ spec.value = None /\ ranges = << >>
       THEN spec
       ELSE IF ends = {} \/ \E v \in ToSet(read.variants) : v.value = other THEN read
       ELSE [read EXCEPT !.unconditional = FALSE, !.variants = Append(@, variant)]

(* overrides: what a variant leaves open is as in the spec. *)
WithVariant(spec, v) ==
    LET either(new, old) == IF new = None THEN old ELSE new
    IN [spec EXCEPT !.value = either(v.value, @),
                    !.unit = IF v.unit = None THEN @ ELSE v.unit[1],
                    !.objects = either(v.objects, @),
                    !.access = either(v.access, @),
                    !.accessUnit = IF v.accessUnit = None THEN @ ELSE v.accessUnit[1],
                    !.mode = either(v.mode, @)]

(* _accessibility_mode: the wording of the norm wins over the model. *)
Mode(spec, labels) ==
    LET transport == "transport" \in spec.quote.says \cup labels
        walking == "walking" \in spec.quote.says
    IN IF spec.template # "accessibility" /\ spec.access = None THEN spec.mode
       ELSE IF transport # walking THEN Some(IF transport THEN "transport" ELSE "walk")
       ELSE IF spec.mode = None THEN Some("walk") ELSE spec.mode

(* Which side is checked: the service of a provision norm is in either slot; residents' *)
(* access to a service is checked at their dwellings, however the sentence runs.        *)
WithSides(spec) ==
    LET access == spec.template \in {"accessibility", "max_distance"}
    IN IF spec.template = "provision" /\ spec.other = None
       THEN [spec EXCEPT !.other = spec.checked, !.checked = None]
       ELSE IF access /\ spec.other = None /\ spec.checked # None
               /\ spec.checked[1].type = "service"
       THEN [spec EXCEPT !.other = spec.checked,
                         !.checked = Some([name |-> House, type |-> "physical_object"])]
       ELSE IF access /\ IsResidence(spec.other) /\ ~IsResidence(spec.checked)
       THEN [spec EXCEPT !.checked = spec.other, !.other = spec.checked]
       ELSE spec

-----------------------------------------------------------------------------
(* Reasons to refuse. *)

If(reason, holds) == IF holds THEN {reason} ELSE {}

(* A quote that is not in the clause says nothing. *)
Quoted(spec) == IF spec.quote.inSource THEN spec.quote ELSE [spec.quote EXCEPT !.says = {}, !.exceedBy = {}]

AttributeSpecs == {"attribute_limit", "zone_attribute_limit"}
Directed == {"min_distance", "max_distance", "accessibility"}

(* What the wording of the clause says against the reading. *)
WordingReasons(spec, source) ==
    LET residence == IsResidence(spec.checked) \/ IsResidence(spec.other)
    IN If("provision_norm_not_attribute",
          spec.template \in AttributeSpecs /\ "provision_table" \in source.says)
       \cup If("per_capita_norm_not_attribute",
               spec.template \in AttributeSpecs /\ "per_capita" \in Quoted(spec).says)
       \cup If("relative_value_not_supported",
               ToSet(spec.value) \cap Quoted(spec).exceedBy # {})
       \cup If("accessibility_not_min_distance",
               spec.template = "min_distance" /\ residence /\ "accessibility" \in source.says)
       \cup If("generic_building_type",
               /\ spec.template = "prohibited_within" /\ spec.other # None
               /\ spec.other[1].name \in GenericBuildings)
       \cup If("zone_as_checked_object",
               /\ spec.template \in {"max_distance", "accessibility"} /\ spec.checked # None
               /\ spec.checked[1].type = "functional_zone")

(* ground: a type of the catalog, a service being found as a physical object and back. *)
Ground(item, cat) ==
    LET entry == Resolve(cat, item.name, item.type)
        other == Resolve(cat, item.name, AnyType)
    IN IF entry # None THEN entry
       ELSE IF item.type # "functional_zone" /\ other # None /\ other[1].type # "functional_zone"
       THEN other ELSE None

GroundReasons(item, entry, role) ==
    IF item = None THEN {"rewrite_missing_" \o role}
    ELSE IF entry = None THEN {"entity_not_in_catalog"} ELSE {}

(* Mutant: the number is not looked up in the clause. *)
ValueReasonsUngrounded(spec, source) ==
    IF spec.template # "prohibited_within" /\ spec.value = None
    THEN {"rewrite_missing_value"} ELSE {}

(* The number, and the number of objects, must be in the clause. *)
ValueReasons(spec, source) ==
    If("value_not_in_source", ~All(spec.objects, {1} \cup source.numbers))
    \cup IF spec.template = "prohibited_within" THEN {}
         ELSE If("rewrite_missing_value", spec.value = None)
              \cup If("value_not_in_source", ~All(spec.value, source.numbers))

(* direction_conflict of norm_guards.py: only an unambiguous wording decides. *)
DirectionConflict(text, operator) ==
    LET upper == "at_most" \in text.says
        lower == "at_least" \in text.says
    IN /\ upper # lower
       /\ \/ operator \in {">", ">="} /\ upper
          \/ operator \in {"<", "<="} /\ lower

(* precision_reasons of norm_guards.py. *)
PrecisionReasons(text, operator, distance, labels) ==
    If("operator_direction_conflict", DirectionConflict(text, operator))
    \cup If("periodic_spacing_not_supported", "periodic" \in text.says)
    \cup If("depth_not_distance", distance # None /\ "depth" \in text.says)
    \cup If("distance_below_territorial_scale", ~All(distance, MinDistance..100000))
    \cup If("measure_label_as_entity", labels \cap MeasureLabels # {})
    \cup If("non_territorial_entity", labels \cap BuildingParts # {})

-----------------------------------------------------------------------------
(* The builders, one for each template of a spec: [reasons, template, params, layers, *)
(* attributes, distance], the last for the precision guards.                          *)

Layer(role, entry) == [role |-> role, entity |-> entry.name, type |-> entry.type]

Built(template, params, layers, attributes, distance) ==
    [reasons |-> {}, template |-> template, params |-> params, layers |-> layers,
     attributes |-> attributes, distance |-> distance]

NotBuilt(reason) == [reasons |-> {reason}]

(* Mutant: kilometres are taken for metres. *)
DistanceUnscaled(unit, value) ==
    IF unit \notin DOMAIN LengthScale THEN [reasons |-> {"measurement_unit_mismatch"}, m |-> 0]
    ELSE [reasons |-> If("distance_out_of_range", value \notin Metres), m |-> value]

(* _distance: metres, or why not. *)
Distance(unit, value) ==
    IF unit \notin DOMAIN LengthScale THEN [reasons |-> {"measurement_unit_mismatch"}, m |-> 0]
    ELSE [reasons |-> If("distance_out_of_range", value * LengthScale[unit] \notin Metres),
          m |-> value * LengthScale[unit]]

(* _min_distance and _prohibited_within. *)
FromSource(spec, checked, other, distance) ==
    Built("distance_from_source",
          [targets |-> <<"targets">>, distance |-> distance,
           geometry_mode |-> IF distance = None THEN "source_geometry" ELSE "buffered"],
          <<Layer("source", other), Layer("targets", checked)>>, << >>, distance)

MinDistanceOf(spec, checked, other) ==
    LET distance == Distance(spec.unit, spec.value[1])
    IN IF spec.operator \notin {">=", ">"} THEN NotBuilt("operator_direction_conflict")
       ELSE IF distance.reasons # {} THEN [reasons |-> distance.reasons]
       ELSE FromSource(spec, checked, other, Some(distance.m))

Reach(checked, other) == <<Layer("objects", checked), Layer("neighbors", other)>>

(* _max_distance: a radius includes its boundary. *)
MaxDistanceOf(spec, checked, other) ==
    LET distance == Distance(spec.unit, spec.value[1])
    IN IF spec.operator = "<" THEN NotBuilt("strict_distance_not_supported")
       ELSE IF spec.operator # "<=" THEN NotBuilt("operator_direction_conflict")
       ELSE IF distance.reasons # {} THEN [reasons |-> distance.reasons]
       ELSE Built("presence_within",
                  [neighbors |-> <<"neighbors">>, distance |-> distance.m, minimum |-> 1],
                  Reach(checked, other), << >>, Some(distance.m))

(* _accessibility. *)
AccessibilityOf(spec, checked, other) ==
    LET timed == spec.unit \in DOMAIN TimeScale
        minutes == spec.value[1] * TimeScale[spec.unit]
        distance == Distance(spec.unit, spec.value[1])
        limit == IF timed THEN [kind |-> "time", n |-> minutes]
                 ELSE [kind |-> "distance", n |-> distance.m]
    IN IF spec.operator \notin {"<=", "<"} THEN NotBuilt("operator_direction_conflict")
       ELSE IF timed /\ minutes \notin Minutes THEN NotBuilt("accessibility_out_of_range")
       ELSE IF ~timed /\ distance.reasons # {} THEN [reasons |-> distance.reasons]
       ELSE Built("accessibility_within",
                  [neighbors |-> <<"neighbors">>, limit |-> limit, minimum |-> 1,
                   mode |-> IF spec.mode = Some("transport") THEN "transport" ELSE "walk"],
                  Reach(checked, other), << >>, IF timed THEN None ELSE Some(distance.m))

(* _ATTRIBUTES: what the attribute is measured in and which data give it. *)
Direct(field) == [field |-> field, derive |-> None, quality |-> "direct"]
Derived(field) == [field |-> field, derive |-> Some("v1"), quality |-> "derived"]

Candidates(attribute) ==
    CASE attribute = "floors" -> <<Direct("floors")>>
      [] attribute = "height" -> <<Direct("height"), Derived("floors")>>
      [] attribute = "building_area" -> <<Direct("building_area"), Derived("geometry")>>
      [] attribute = "area" -> <<Derived("geometry")>>

ScaleOf(attribute) == CASE attribute = "floors" -> [floors |-> 1]
                        [] attribute = "height" -> LengthScale
                        [] OTHER -> AreaScale

(* _attribute_limit and _zone_attribute_limit, with _attribute. *)
AttributeOf(spec, checked, zones) ==
    LET attribute == spec.attribute[1]
        threshold == Some(spec.value[1] * ScaleOf(attribute)[spec.unit])
        required == <<[role |-> "attribute", on |-> "objects", accepts |-> Candidates(attribute)]>>
    IN IF spec.operator \notin Operators THEN NotBuilt("rewrite_missing_operator")
       ELSE IF spec.attribute = None THEN NotBuilt("rewrite_missing_attribute")
       ELSE IF spec.unit \notin DOMAIN ScaleOf(attribute) THEN NotBuilt("measurement_unit_mismatch")
       ELSE IF zones = None
       THEN Built("object_attribute_threshold",
                  [attribute_role |-> "attribute", operator |-> spec.operator,
                   threshold |-> threshold],
                  <<Layer("objects", checked)>>, required, None)
       ELSE Built("zonal_attribute_threshold",
                  [attribute_role |-> "attribute", operator |-> spec.operator,
                   threshold |-> threshold, threshold_role |-> None, join |-> "intersects"],
                  <<Layer("objects", checked), Layer("zones", zones[1])>>, required, None)

(* _zone_share. *)
ZoneShareOf(spec, checked, other) ==
    IF spec.unit # "percent" THEN NotBuilt("measurement_unit_mismatch")
    ELSE IF spec.operator \notin Operators THEN NotBuilt("rewrite_missing_operator")
    ELSE IF spec.value[1] \notin 0..100 THEN NotBuilt("ratio_out_of_range")
    ELSE IF other.type # "functional_zone" \/ checked.type = "functional_zone"
    THEN NotBuilt("ratio_basis_not_supported")
    ELSE Built("zonal_ratio", [operator |-> spec.operator, threshold |-> spec.value],
               <<Layer("zones", other), Layer("numerator", checked)>>, << >>, None)

(* _provision_capacity: places for a thousand residents, or residents of one object. *)
PerThousand == {"places_per_1000", "thousand_residents"}
ResidentScale == [residents |-> 1, thousand_residents |-> 1000]

Capacity(spec, unit) ==
    LET basis == IF spec.basis # None THEN spec.basis[1]
                 ELSE IF unit \in DOMAIN ResidentScale THEN "residents_per_object"
                 ELSE "places_per_1000"
        objects == IF spec.objects = None THEN 1 ELSE spec.objects[1]
    IN IF basis = "places_per_1000"
       THEN [reasons |-> If("measurement_unit_mismatch", unit \notin PerThousand),
             capacity |-> spec.value, residents |-> None]
       ELSE IF unit \notin DOMAIN ResidentScale THEN NotBuilt("measurement_unit_mismatch")
       ELSE [reasons |-> {}, capacity |-> None,
             residents |-> Some((spec.value[1] * ResidentScale[unit]) \div objects)]

(* The normative accessibility of a provision norm; the executor walks, so a transport *)
(* time becomes the straight line that transport covers in it.                         *)
AccessOf(spec) ==
    LET minutes == spec.access[1] * TimeScale[spec.accessUnit]
    IN IF spec.access = None THEN None
       ELSE IF spec.accessUnit \in DOMAIN TimeScale
       THEN IF spec.mode = Some("transport")
            THEN Some([kind |-> "distance", n |-> StraightInMinutes(minutes)])
            ELSE Some([kind |-> "time", n |-> minutes])
       ELSE Some([kind |-> "distance", n |-> spec.access[1] * LengthScale[spec.accessUnit]])

(* _provision. *)
ProvisionOf(spec, other, unit) ==
    LET capacity == Capacity(spec, unit)
    IN IF other.type # "service" THEN NotBuilt("provision_requires_service")
       ELSE IF spec.operator \notin {">=", ">", "none"} THEN NotBuilt("operator_direction_conflict")
       ELSE IF capacity.reasons # {} THEN [reasons |-> capacity.reasons]
       ELSE IF spec.access # None
               /\ spec.accessUnit \notin DOMAIN TimeScale \cup DOMAIN LengthScale
       THEN NotBuilt("measurement_unit_mismatch")
       ELSE Built("service_provision",
                  [capacity |-> capacity.capacity, residents |-> capacity.residents,
                   accessibility |-> AccessOf(spec)],
                  <<Layer("services", other)>>, << >>, None)

(* getattr(self, f"_{spec.template}"). *)
Build(spec, checked, other, unit) ==
    CASE spec.template = "min_distance" -> MinDistanceOf(spec, checked[1], other[1])
      [] spec.template = "prohibited_within" -> FromSource(spec, checked[1], other[1], None)
      [] spec.template = "max_distance" -> MaxDistanceOf(spec, checked[1], other[1])
      [] spec.template = "accessibility" -> AccessibilityOf(spec, checked[1], other[1])
      [] spec.template = "attribute_limit" ->
            IF checked[1].type = "functional_zone" THEN NotBuilt("attribute_on_zone_not_supported")
            ELSE AttributeOf(spec, checked[1], None)
      [] spec.template = "zone_attribute_limit" ->
            IF other[1].type # "functional_zone" \/ checked[1].type = "functional_zone"
            THEN NotBuilt("zone_roles_not_verified")
            ELSE AttributeOf(spec, checked[1], other)
      [] spec.template = "zone_share" -> ZoneShareOf(spec, checked[1], other[1])
      [] spec.template = "provision" -> ProvisionOf(spec, other[1], unit)

-----------------------------------------------------------------------------
(* What speaks against a reading whose sides are found (or not) in the catalog. *)
KnownReasons(spec, source, checked, other) ==
    WordingReasons(spec, source) \cup ValueReasons(spec, source)
    \cup (IF spec.template = "provision" THEN {}
          ELSE GroundReasons(spec.checked, checked, "checked"))
    \cup (IF spec.template = "attribute_limit" THEN {}
          ELSE GroundReasons(spec.other, other, "other"))
    \cup If("same_entity_spacing_not_supported",
            /\ checked # None /\ other # None
            /\ checked[1].name = other[1].name /\ checked[1].type = other[1].type
            /\ spec.template \notin {"zone_attribute_limit", "zone_share"})

(* What is left of a plan that was built after the guards and the contract. *)
Guarded(built, spec, source, labels, names) ==
    LET precise == PrecisionReasons(IF spec.quote.inSource THEN spec.quote ELSE source,
                                    spec.operator, built.distance, names)
        undirected == spec.template \in Directed /\ "direction" \notin source.says \cup labels
        plan == [template |-> built.template, params |-> built.params, layers |-> built.layers,
                 attributes |-> built.attributes, scope |-> None, applicability |-> None]
    IN IF built.reasons # {} THEN Refused(built.reasons)
       ELSE IF precise # {} THEN Refused(precise)
       ELSE IF undirected THEN Refused({"direction_not_in_source"})
       ELSE IF ~Valid(plan) THEN Refused({"invalid_plan_parameters"})
       ELSE Accepted(plan)

(* The reading with its sides, grounded. *)
CompileSides(spec, checked, other, source, labels) ==
    LET unit == IF spec.unit = "places" /\ "provision_table" \in source.says
                THEN "places_per_1000" ELSE spec.unit
        known == KnownReasons(spec, source, checked, other)
    IN IF spec.template = "provision" /\ unit \in {"m2", "ha"}
       THEN Refused({"provision_area_not_in_data"})
       ELSE IF known # {} THEN Refused(known)
       ELSE Guarded(Build(spec, checked, other, unit), spec, source, labels,
                    {e.name : e \in ToSet(checked \o other)})

(* _compile_one: a reading with a single value. *)
CompileOne(read, source, labels, cat) ==
    LET spec == WithSides([read EXCEPT !.mode = Mode(read, labels)])
        grounded(item) == IF item = None THEN None ELSE Ground(item[1], cat)
    IN CompileSides(spec,
                    IF spec.template = "provision" THEN None ELSE grounded(spec.checked),
                    IF spec.template = "attribute_limit" THEN None ELSE grounded(spec.other),
                    source, labels)

-----------------------------------------------------------------------------
(* The strictest of the values of a clause. *)

(* _accessibility_meters, in metres of 60 minutes: a limit at a speed. *)
AccessLength(limit, mode) == IF limit.kind = "time" THEN limit.n * Speed[mode] ELSE limit.n * 60

(* Mutant: the least value is taken for the strictest of lower bounds too. *)
Unsigned(operator, value) == IF operator = "==" THEN None ELSE Some(value)

(* signed in _strictness. *)
Signed(operator, value) == IF operator = "==" THEN None
                           ELSE Some(IF operator \in {"<", "<="} THEN value ELSE -value)

(* _strictness: the smaller key is the stricter plan of its kind; none if undefined. *)
Strictness(plan) ==
    LET p == plan.params
        t == plan.template
    IN CASE t = "distance_from_source" ->
              IF p.geometry_mode = "source_geometry" THEN [kind |-> <<"prohibited">>, key |-> Some(0)]
              ELSE [kind |-> <<"min_distance">>, key |-> Some(-p.distance[1])]
         [] t = "presence_within" -> [kind |-> <<"max_distance">>, key |-> Some(p.distance)]
         [] t = "accessibility_within" ->
              [kind |-> <<"accessibility">>, key |-> Some(AccessLength(p.limit, p.mode))]
         [] t \in {"object_attribute_threshold", "zonal_attribute_threshold", "zonal_ratio"} ->
              [kind |-> <<t, p.operator>>, key |-> Signed(p.operator, p.threshold[1])]
         [] t = "service_provision" ->
              IF p.residents # None THEN [kind |-> <<"residents_per_service">>, key |-> p.residents]
              ELSE IF p.capacity # None
              THEN [kind |-> <<"capacity_per_1000">>, key |-> Some(-p.capacity[1])]
              ELSE [kind |-> <<"urban_api_capacity">>, key |-> Some(0)]

(* The first of the least. *)
LeastIndex(keys) == CHOOSE i \in DOMAIN keys :
                        \A j \in DOMAIN keys : keys[i] <= keys[j] /\ (j < i => keys[i] < keys[j])

(* _tightest_accessibility: the largest demand and the shortest way to it. *)
TightestAccessibility(plan, plans) ==
    LET limit(i) == plans[i].params.accessibility
        limited == {i \in DOMAIN plans : limit(i) # None}
        tightest == LeastIndex([i \in limited |-> AccessLength(limit(i)[1], "walk")])
    IN IF plan.template # "service_provision" \/ limited = {} THEN plan
       ELSE [plan EXCEPT !.params.accessibility = limit(tightest)]

(* The plan of the strictest of the results, if each has one and they compare. *)
Strictest(results) ==
    LET refused == {i \in DOMAIN results : results[i].plan = None}
        plans == [i \in DOMAIN results |-> results[i].plan[1]]
        order == [i \in DOMAIN results |-> Strictness(plans[i])]
        comparable == \A i, j \in DOMAIN results : order[i].key # None /\ order[i].kind = order[j].kind
        best == LeastIndex([i \in DOMAIN results |-> order[i].key[1]])
    IN IF refused # {} THEN results[LeastIndex([i \in refused |-> i])]
       ELSE IF ~comparable THEN Refused({"variants_not_comparable"})
       ELSE Accepted([TightestAccessibility(plans[best], plans)
                        EXCEPT !.applicability = Some("strictest_variant")])

(* The spec itself, and with each of its variants. *)
Reading(spec, i) == IF i = 0 THEN spec ELSE WithVariant(spec, spec.variants[i])

(* _compile_variants: each value compiles on its own, and the strictest one applies. *)
CompileVariants(spec, variants, source, labels, cat) ==
    LET results == [i \in {0} \cup variants |-> CompileOne(Reading(spec, i), source, labels, cat)]
    IN IF spec.unconditional THEN results[0] ELSE Strictest(results)

-----------------------------------------------------------------------------
(* A value for one type of residential buildings. *)

(* _HOUSING_FLOORS; the last type has no upper end. *)
HousingFloors == [individual |-> [low |-> 1, high |-> Some(3)],
                  lowrise |-> [low |-> 1, high |-> Some(4)],
                  midrise |-> [low |-> 5, high |-> Some(8)],
                  multistorey |-> [low |-> 9, high |-> None]]

(* From the lowest floor of the types to the highest. *)
FloorSpan(housing) ==
    LET ranges == {HousingFloors[h] : h \in housing}
    IN [low |-> CHOOSE n \in {r.low : r \in ranges} : \A r \in ranges : n <= r.low,
        high |-> CHOOSE e \in {r.high : r \in ranges} :
                     e = None \/ \A r \in ranges : r.high # None /\ r.high[1] <= e[1]]

(* Mutant: a gap between the types is not seen. *)
FloorsOfAll(housing) == Some(FloorSpan(housing))

(* _housing_floors: the floors of all the types as one range, if there is no gap. *)
Floors(housing) ==
    LET ranges == {HousingFloors[h] : h \in housing}
        follows(r) == \E s \in ranges : s.low < r.low /\ (s.high = None \/ r.low <= s.high[1] + 1)
    IN IF \A r \in ranges : r.low = FloorSpan(housing).low \/ follows(r) THEN Some(FloorSpan(housing)) ELSE None

CheckedRole == [accessibility_within |-> "objects", presence_within |-> "objects",
                object_attribute_threshold |-> "objects", distance_from_source |-> "targets"]

(* _scoped: the plan for the buildings of the types, if dwellings are checked.  A scope  *)
(* without bounds is no CheckPlanScope: its validator raises before the scope is compared. *)
Scoped(plan, housing) ==
    LET role == CheckedRole[plan.template]
        floors == Floors(housing)
        scope == [layer |-> role, attribute |-> "scope_floors", max |-> floors[1].high,
                  min |-> IF floors[1].low > 1 THEN Some(floors[1].low) ELSE None]
        scoped == [plan EXCEPT !.scope = Some(scope),
                               !.attributes = Append(@, [role |-> "scope_floors", on |-> role,
                                                         accepts |-> Candidates("floors")])]
    IN IF \/ plan.template \notin DOMAIN CheckedRole
          \/ ~\E l \in ToSet(plan.layers) : l.role = role /\ l.entity = House
       THEN Refused({})
       ELSE IF floors = None THEN Refused({"housing_scope_not_contiguous"})
       ELSE IF ~ScopeValid(scope) THEN Raised
       ELSE IF Valid(scoped) THEN Accepted(scoped) ELSE Refused({"invalid_plan_parameters"})

(* The variants that concern buildings of the types of the spec. *)
Relevant(spec) == {i \in DOMAIN spec.variants :
                      LET housing == spec.variants[i].housing
                      IN housing = {} \/ housing \cap spec.housing # {}}

(* The reading that is compiled. *)
Read(spec, source) == WithRangeVariant(AsAccessibility(spec, source))

(* The result for the types of residential buildings of the spec: of the relevant values *)
(* within their floors, or of all if that cannot be said.                                  *)
ForHousing(housing, relevant, all) ==
    LET scoped == Scoped(relevant.plan[1], housing)
    IN IF housing = {} THEN all
       ELSE IF relevant.plan = None THEN relevant
       ELSE IF scoped.plan # None \/ scoped.reasons # {} THEN scoped
       ELSE all

(* compile. *)
Compile(raw, source, labels, cat) ==
    LET spec == Read(raw, source)
        compiled(variants) == CompileVariants(spec, variants, source, labels, cat)
    IN IF ~raw.territorial THEN Refused({"rewrite_not_territorial"})
       ELSE IF raw.template = "none" THEN Refused({"rewrite_no_template"})
       ELSE ForHousing(spec.housing, compiled(Relevant(spec)), compiled(DOMAIN spec.variants))

(* plan_fingerprint: what independent readings have to agree in. *)
Fingerprint(plan) == [template |-> plan.template, params |-> plan.params,
                      layers |-> ToSet(plan.layers)]

=============================================================================
