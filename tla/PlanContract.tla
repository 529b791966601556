----------------------------- MODULE PlanContract -----------------------------
(***************************************************************************)
(* What an executable check plan must look like (src/dto/check_plan.py):   *)
(* the executor takes a plan that validate_check_plan accepts, and nothing *)
(* else.                                                                   *)
(*                                                                         *)
(* Lengths, floors, minutes, percents and people are integers; an optional *)
(* field is a sequence of at most one element.  Free texts are left out.   *)
(***************************************************************************)
EXTENDS Integers, SequencesExt

Operators == {"<", "<=", ">", ">=", "=="}

Thousand == 1000
Million == Thousand * Thousand

Metres == 1..(100 * Thousand)
Minutes == 1..240
Thresholds == -(Thousand * Million)..(Thousand * Million)
Percents == 0..100
Capacities == 1..(100 * Thousand)
Populations == 1..(10 * Million)

(* Every element of an optional field (or a sequence) is in S. *)
All(s, S) == ToSet(s) \subseteq S

LimitValid(l) == IF l.kind = "time" THEN l.n \in Minutes ELSE l.n \in Metres

(* AttributeCandidate: what is computed from other data says how. *)
CandidateValid(c) == (c.derive = << >>) <=> (c.quality = "direct")

(* DeclaredRequirements and AttributeRequirement. *)
RequirementsValid(layers, attributes) ==
    LET roles == {l.role : l \in ToSet(layers)}
    IN /\ Len(layers) <= 16 /\ Cardinality(roles) = Len(layers)
       /\ Cardinality({a.role : a \in ToSet(attributes)}) = Len(attributes)
       /\ \A a \in ToSet(attributes) :
             /\ a.on \in roles
             /\ a.accepts # << >>
             /\ \A c \in ToSet(a.accepts) : CandidateValid(c)

(* DistanceBand and bands_are_ordered_and_unambiguous: only the last band is open. *)
BandsValid(bands) ==
    /\ bands # << >>
    /\ \A i \in DOMAIN bands :
          /\ bands[i].distance \in Metres
          /\ \A max \in ToSet(bands[i].max) : bands[i].min <= max
          /\ i > 1 => /\ bands[i-1].max # << >>
                      /\ bands[i-1].max[1] < bands[i].min

(* How an object has to lie in a zone to be one of its objects. *)
Joins == {"intersects", "within", "contains"}

(* The parameters of each template. *)
ParamsValid(t, p) ==
    \/ /\ t = "distance_from_source"
       /\ p.targets # << >> /\ IsInjective(p.targets)
       /\ IF p.geometry_mode = "buffered" THEN p.distance # << >> ELSE p.distance = << >>
       /\ All(p.distance, Metres)
    \/ t = "distance_table" /\ p.targets # << >> /\ BandsValid(p.bands)
    \/ /\ t = "presence_within"
       /\ p.neighbors # << >> /\ p.distance \in Metres /\ p.minimum \in 1..1000
    \/ /\ t \in {"zonal_attribute_threshold", "object_attribute_threshold"}
       /\ p.operator \in Operators /\ All(p.threshold, Thresholds)
       /\ t = "zonal_attribute_threshold" => p.join \in Joins
    \/ t = "zonal_ratio" /\ p.operator \in Operators /\ All(p.threshold, Percents)
    \/ /\ t = "accessibility_within"
       /\ p.neighbors # << >> /\ LimitValid(p.limit) /\ p.minimum \in 1..1000
    \/ /\ t = "service_provision"
       /\ All(p.capacity, Capacities) /\ All(p.residents, Populations)
       /\ p.capacity = << >> \/ p.residents = << >>
       /\ \A l \in ToSet(p.accessibility) : LimitValid(l)

(* CheckPlanScope. *)
ScopeValid(s) == /\ s.min # << >> \/ s.max # << >>
                 /\ s.min # << >> /\ s.max # << >> => s.min[1] <= s.max[1]

UsedLayers(t, p) ==
    CASE t \in {"distance_from_source", "distance_table"} -> {"source"} \cup ToSet(p.targets)
      [] t \in {"presence_within", "accessibility_within"} -> {"objects"} \cup ToSet(p.neighbors)
      [] t = "zonal_attribute_threshold" -> {"objects", "zones"}
      [] t = "zonal_ratio" -> {"zones", "numerator"}
      [] t = "object_attribute_threshold" -> {"objects"}
      [] t = "service_provision" -> {"services"}

UsedAttributes(t, p) ==
    CASE t \in {"distance_table", "object_attribute_threshold"} -> {p.attribute_role}
      [] t = "zonal_attribute_threshold" -> {p.attribute_role} \cup ToSet(p.threshold_role)
      [] OTHER -> {}

(* _validate_declared_role_references: what is used is declared, and the attribute of a *)
(* scope on the layer of the scope.                                                     *)
RolesDeclared(plan) ==
    LET scope == ToSet(plan.scope)
        attributes == ToSet(plan.attributes)
    IN /\ \A s \in scope, a \in attributes : a.role = s.attribute => a.on = s.layer
       /\ UsedLayers(plan.template, plan.params) \cup {s.layer : s \in scope}
             \subseteq {l.role : l \in ToSet(plan.layers)}
       /\ UsedAttributes(plan.template, plan.params) \cup {s.attribute : s \in scope}
             \subseteq {a.role : a \in attributes}

Templates == {"distance_from_source", "distance_table", "presence_within",
              "zonal_attribute_threshold", "zonal_ratio", "object_attribute_threshold",
              "accessibility_within", "service_provision"}

(* validate_check_plan. *)
Valid(plan) ==
    /\ plan.template \in Templates
    /\ RequirementsValid(plan.layers, plan.attributes)
    /\ \A s \in ToSet(plan.scope) : ScopeValid(s)
    /\ ParamsValid(plan.template, plan.params)
    /\ RolesDeclared(plan)

=============================================================================
