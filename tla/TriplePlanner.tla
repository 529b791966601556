----------------------------- MODULE TriplePlanner -----------------------------
(***************************************************************************)
(* The plan that is made of an extracted triple - subject, object and      *)
(* value - without the model (the first pass of                            *)
(* src/pipeline/check_plan_planner.py): a candidate, and the reasons why   *)
(* it must not run.                                                        *)
(*                                                                         *)
(* A label is [name, says], with the wordings of Says that are found in    *)
(* it; the text of a triple is as in NormSpec, with those of TripleSays as *)
(* well.  The label "kind" of the norm counts as part of its text.         *)
(***************************************************************************)
EXTENDS NormSpec

CONSTANTS Kindergarten, School      \* names of the types of that name

LabelSays == {"house", "residence", "kindergarten", "school", "service", "zone",
              "quantity", "part", "area", "long"}
TripleSays == {"exception", "contour", "each", "turning", "entrance", "each_other", "route",
               "counted", "areas", "size"}

Lengthy(ex) == ex.value # None /\ ex.value[1].unit \in DOMAIN LengthScale
Relative(ex) == ex.value # None /\ ex.value[1].unit = "percent"
Numbered(ex) == ex.value # None /\ ex.value[1].number # None

(* _non_spatial_entity. *)
NonSpatial(label) == "quantity" \in label.says

(* _entity_type. *)
TypeOf(label) == IF "zone" \in label.says THEN "functional_zone"
                 ELSE IF "service" \in label.says THEN "service" ELSE "physical_object"

Labelled(role, label) == Layer(role, [name |-> label.name, type |-> TypeOf(label)])

(* _education_layers: nurseries and schools for houses. *)
EducationLayers(ex) ==
    LET service(role, name) == <<Layer(role, [name |-> name, type |-> "service"])>>
    IN IF "house" \notin ex.object.says THEN << >>
       ELSE (IF "kindergarten" \in ex.subject.says THEN service("kindergartens", Kindergarten) ELSE << >>)
            \o (IF "school" \in ex.subject.says THEN service("schools", School) ELSE << >>)

(* Mutant: as the sentence runs. *)
SentenceOrder(ex) == Some(<<ex.object, ex.subject>>)

(* _checked_side: [1] is checked, and [2] must be near it. *)
CheckedSide(ex) ==
    LET subject == "residence" \in ex.subject.says
        object == "residence" \in ex.object.says
    IN IF subject = object THEN None
       ELSE Some(IF subject THEN <<ex.subject, ex.object>> ELSE <<ex.object, ex.subject>>)

(* _area_ratio_entities: the share of an area in an area, said to be one. *)
AreaRatio(ex) ==
    LET share == ex.measurement[1]
        parts == ToSet(share.numerator \o share.denominator \o share.basis)
    IN IF /\ ex.measurement # None /\ share.kind = "area_share"
          /\ share.basis # None /\ share.numerator # None /\ share.denominator # None
          /\ share.numerator[1].name # share.denominator[1].name
          /\ \A label \in parts : "part" \notin label.says
          /\ "counted" \notin ex.text.says /\ "areas" \in ex.text.says
          /\ "area" \in share.basis[1].says
       THEN Some(<<share.numerator[1], share.denominator[1]>>) ELSE None

(* _spatial_semantic_reasons. *)
SemanticReasons(ex) ==
    LET says(wording) == wording \in ex.text.says
        labels == IF EducationLayers(ex) # << >> THEN {ex.subject} ELSE {ex.subject, ex.object}
    IN If("applicability_not_verified", says("exception"))
       \cup If("contour_geometry_not_verified", says("contour"))
       \cup If("checked_entity_not_verified", says("each"))
       \cup If("non_spatial_entity", \E label \in labels : NonSpatial(label))
       \cup If("linear_size_not_distance", says("turning"))
       \cup If("specific_geometry_required", says("entrance"))
       \cup If("same_entity_spacing_not_supported",
               says("each_other") \/ (ex.subject.name = ex.object.name /\ Lengthy(ex)))

Unmeasured == {"provision", "count_share", "linear_size", "other", "attribute", "distance_table"}

(* What _first_pass has against the triple. *)
TripleReasons(ex) ==
    SemanticReasons(ex)
    \cup If("measurement_unit_mismatch",
            /\ ex.measurement # None /\ ex.measurement[1].kind = "area_share"
            /\ ~(Relative(ex) /\ Numbered(ex)))
    \cup If("entity_label_too_long", "long" \in ex.subject.says \cup ex.object.says)
    \cup If("unsupported_measurement",
            ex.measurement # None /\ ex.measurement[1].kind \in Unmeasured)
    \cup If("ratio_basis_not_supported", Relative(ex) /\ AreaRatio(ex) = None)
    \cup If("linear_size_not_distance", Lengthy(ex) /\ "size" \in ex.text.says)
    \cup If("applicability_not_verified", ex.value # None /\ ex.value[1].conditional)
    \cup If("walking_route_required", "route" \in ex.text.says)

(* A candidate; one that the contract refuses is none. *)
Tried(template, params, layers, why) ==
    LET plan == [template |-> template, params |-> params, layers |-> layers,
                 attributes |-> << >>, scope |-> None, applicability |-> None]
    IN IF Valid(plan) THEN [plan |-> Some(plan), reasons |-> why]
       ELSE Refused({"invalid_plan_parameters"})

FromSubject(ex, distance) ==
    Tried("distance_from_source",
          [targets |-> <<"targets">>, geometry_mode |-> "buffered", distance |-> Some(distance)],
          <<Labelled("source", ex.subject), Labelled("targets", ex.object)>>, {})

(* Nobody knows which side is checked if neither or both are where people live. *)
WithinReach(ex, distance) ==
    LET education == EducationLayers(ex)
        sides == CheckedSide(ex)
        side == IF sides = None THEN <<ex.object, ex.subject>> ELSE sides[1]
        checked == IF education # << >>
                   THEN Layer("objects", [name |-> House, type |-> "physical_object"])
                   ELSE Labelled("objects", side[1])
        near == IF education # << >> THEN education ELSE <<Labelled("neighbors", side[2])>>
    IN Tried("presence_within",
             [neighbors |-> [i \in DOMAIN near |-> near[i].role], distance |-> distance, minimum |-> 1],
             <<checked>> \o near,
             If("checked_entity_not_verified", education = << >> /\ sides = None))

ShareOf(ex, parts) ==
    Tried("zonal_ratio", [operator |-> ex.value[1].operator, threshold |-> ex.value[1].number],
          <<Layer("zones", [name |-> parts[2].name, type |-> "functional_zone"]),
            Labelled("numerator", parts[1])>>, {})

(* _deterministic. *)
Deterministic(ex) ==
    LET operator == ex.value[1].operator
        distance == ex.value[1].number[1] * LengthScale[ex.value[1].unit]
        ratio == AreaRatio(ex)
    IN IF Numbered(ex) /\ Lengthy(ex)
       THEN IF distance \notin Metres THEN Refused({"distance_out_of_range"})
            ELSE CASE operator \in {">", ">="} ->
                        IF NonSpatial(ex.object) THEN Refused({"invalid_plan_parameters"})
                        ELSE FromSubject(ex, distance)
                   [] operator = "<" -> Refused({"strict_distance_not_supported"})
                   [] operator = "<=" -> WithinReach(ex, distance)
                   [] OTHER -> Refused({})
       ELSE IF Numbered(ex) /\ Relative(ex) /\ ratio # None
       THEN IF \E label \in ToSet(ratio[1]) : NonSpatial(label)
            THEN Refused({"invalid_plan_parameters"}) ELSE ShareOf(ex, ratio[1])
       ELSE Refused({})

(* What the guards have against a candidate. *)
CandidateReasons(plan, ex) ==
    LET distance == CASE plan.template = "distance_from_source" -> plan.params.distance
                      [] plan.template = "presence_within" -> Some(plan.params.distance)
                      [] OTHER -> None
    IN PrecisionReasons(ex.text, ex.value[1].operator, distance,
                        {l.entity : l \in ToSet(plan.layers)})

(* _first_pass: the candidate and all that speaks against it. *)
FirstPass(ex) ==
    LET known == TripleReasons(ex)
        made == IF known \subseteq {"applicability_not_verified", "walking_route_required"}
                THEN Deterministic(ex) ELSE Refused({})
    IN [plan |-> made.plan,
        reasons |-> known \cup made.reasons
                    \cup UNION {CandidateReasons(plan, ex) : plan \in ToSet(made.plan)}]

(* _grounding_reasons: the plan of a pass, if nothing speaks against it and its layers *)
(* are types of the catalog.                                                            *)
Grounded(pass, cat) ==
    LET found(plan) == \A l \in ToSet(plan.layers) : Resolve(cat, l.entity, l.type) # None
    IN IF pass.plan # None /\ pass.reasons = {} /\ found(pass.plan[1]) THEN pass.plan ELSE None

=============================================================================
