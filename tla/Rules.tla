-------------------------------- MODULE Rules --------------------------------
(***************************************************************************)
(* The rules by which norms are read, compared and checked, each a         *)
(* function of its input: a question is chosen, and then answered as the   *)
(* code answers it.  What an answer must be is said in terms of what the   *)
(* rule is for, not of how it is computed.                                 *)
(***************************************************************************)
EXTENDS SpatialGrammar, TriplePlanner, Duplicates, KindTaxonomy

CONSTANT Questions      \* the inputs to be answered, each with the kind of its rule

(* What the model reads in a norm has the fields of the schema. *)
ASSUME ReadingsAssumption ==
    \A q \in Questions : q.kind = "norm" => IsReading(q.spec) /\ q.source.numbers \subseteq Int

(* A snapshot of the catalog lists its entries. *)
ASSUME CatalogsAssumption ==
    \A q \in Questions : q.kind \in {"norm", "name", "sentence"} => q.catalog \in Seq(Entry)

(* A row that is written again has the key and the quote that it had; no row is found twice. *)
ASSUME RowsAssumption ==
    \A q \in Questions : q.kind = "rows" =>
        /\ q.rows \in Seq(ToSet(q.rows))
        /\ \A a \in ToSet(q.rows) : a.id \in Nat \ {NoGroup}
        /\ \A a, b \in ToSet(q.rows) : a.id = b.id => a = b
        /\ q.hits \in Seq(ToSet(q.rows)) /\ IsInjective(q.hits)
        /\ q.limit \in Nat \ {0}

(* No two types of a kind share a name. *)
NamesDiffer(cat) ==
    \A i, j \in DOMAIN cat :
        i # j /\ cat[i].type = cat[j].type => {cat[i].name, cat[i].label} \cap {cat[j].name, cat[j].label} = {}

(* The item that a reading has for what a triple calls by a label. *)
Mentioned(label) == [name |-> label.name, type |-> TypeOf(label)]

(* The tables of the grammar, of the triples and of the readings take a label for the same, *)
(* and the catalog has it.                                                                     *)
LabelFits(label, cat) ==
    LET entry == Ground(Mentioned(label), cat)
        known == label.name \in DOMAIN Inflected
        says(word) == word \in label.says
        means(name, type) == entry # None /\ entry = Resolve(cat, name, type)
    IN /\ known => means(Inflected[label.name].name, Inflected[label.name].type)
       /\ says("house") => says("residence") /\ means(House, "physical_object")
       /\ says("kindergarten") => means(Kindergarten, "service")
       /\ says("school") => means(School, "service")
       /\ \A u, v \in label.says \cap {"residence", "kindergarten", "school"} : u = v
       /\ known /\ says("residence") => says("house")
       /\ says("residence") <=> label.name \in Residences
       /\ entry # None => (label.name \in Residences <=> entry[1].name \in Residences)

(* A clause of the grammar, a triple and a reading with one value say the same of the same *)
(* two things; none is on accessibility.                                                     *)
SaysOneNorm(q) ==
    LET c == q.clause
        ex == q.triple
        a == ex.subject
        b == ex.object
        v == ex.value[1]
        s == q.spec
        zones == [name |-> AllZones, type |-> "functional_zone"]
        sides(checked, other) == s.checked = Some(Mentioned(checked)) /\ s.other = Some(other)
        long == v.unit \in DOMAIN LengthScale /\ c.unit = v.unit /\ c.amount = v.number[1]
        atMost == v.operator = "<=" /\ s.operator = "<=" /\ c.threshold = v.number[1]
    IN /\ IsReading(s) /\ s.unconditional /\ s.variants = << >> /\ s.housing = {} /\ s.quote.ranges = << >>
       /\ "accessibility" \notin q.source.says /\ NamesDiffer(q.catalog)
       /\ LabelFits(a, q.catalog) /\ LabelFits(b, q.catalog)
       /\ ex.value = None <=> c.form = "table"
       /\ ex.value # None => /\ v.number = Some(v.number[1]) /\ v.number[1] \in Int
                             /\ s.value = v.number /\ s.unit = v.unit
       /\ \/ /\ c.form = "distance" /\ c.source = a.name /\ c.target = b.name
             /\ v.operator \in {">", ">="} /\ long
             /\ s.template = "min_distance" /\ sides(b, Mentioned(a))
          \/ /\ c.form = "presence" /\ c.count = 1
             /\ WordsOf(c) \subseteq DOMAIN Inflected =>
                   \E t \in {<<a, b>>, <<b, a>>} : "house" \in t[1].says /\ c.neighbors = t[2].name
             /\ v.operator \in {"<", "<="} /\ long
             /\ s.template = "max_distance" /\ (sides(a, Mentioned(b)) \/ sides(b, Mentioned(a)))
          \/ /\ c.form = "share" /\ c.objects = b.name
             /\ v.unit = "percent" /\ atMost
             /\ \A p \in ToSet(AreaRatio(ex)) : p[1] = b /\ p[2].name = AllZones
             /\ s.template = "zone_share" /\ sides(b, zones)
          \/ /\ c.form = "floors" /\ c.objects = b.name /\ c.join \in DOMAIN JoinOf
             /\ v.unit = "floors" /\ atMost
             /\ s.template = "zone_attribute_limit" /\ s.attribute = Some("floors") /\ sides(b, zones)
          \/ /\ c.form = "table" /\ s.value = None /\ s.template \in SpecTemplates \ {"prohibited_within"}

ASSUME SentencesAssumption == \A q \in Questions : q.kind = "sentence" => SaysOneNorm(q)

(* A value that can be compared has a number. *)
ASSUME NumbersAssumption ==
    \A q \in Questions : q.kind = "values" =>
        \A v \in {q.a, q.b} : Comparable(v) => v.number[1] \in Int

(* A label that is a kind of the list says what the kind's name says. *)
ASSUME LabelsAssumption ==
    \A q \in Questions : q.kind = "kind" =>
        LET label == q.norm.label
        IN label.listed # << >> => /\ label.listed[1] \in Kinds
                                   /\ KindSays[label.listed[1]] \subseteq label.says

VARIABLES question, answer

vars == <<question, answer, groupVars>>

(* Rows have to be written if this is what is asked. *)
Init ==
    /\ question \in Questions
    /\ answer = None
    /\ left = IF question.kind = "rows" THEN question.rows ELSE << >>
    /\ pending = {} /\ group = << >> /\ clusters = << >>

Asked(kind) == question.kind = kind /\ answer = None

Answered(kind) == question.kind = kind /\ answer # None

(* SpecCompiler.compile. *)
CompileSpec ==
    /\ Asked("norm")
    /\ answer' = Some(Compile(question.spec, question.source, question.labels, question.catalog))
    /\ UNCHANGED <<question, groupVars>>

(* UrbanCatalog.resolve on one snapshot. *)
ResolveName ==
    /\ Asked("name")
    /\ answer' = Some(Resolve(question.catalog, question.name, question.type))
    /\ UNCHANGED <<question, groupVars>>

(* Rows are written by one task or by several at once, and then consolidated. *)
GroupRows ==
    /\ Asked("rows")
    /\ \/ Cardinality(pending) < question.writers /\ ReadCandidates
       \/ Upsert \/ SetGroup \/ Cut \/ ClusterRow
    /\ UNCHANGED <<question, answer>>

(* A search once all rows are written and consolidated. *)
SearchRows ==
    /\ Asked("rows")
    /\ left = << >> /\ pending = {} /\ Unclustered = {}
    /\ answer' = Some([consolidated |-> Consolidated, shown |-> Shown(question.hits, question.limit)])
    /\ UNCHANGED <<question, groupVars>>

(* find_conflicts, the one written first and the other written first. *)
FindConflicts ==
    /\ Asked("values")
    /\ answer' = Some([first |-> Conflict(question.a, question.b),
                       second |-> Conflict(question.b, question.a)])
    /\ UNCHANGED <<question, groupVars>>

(* Whether the plans of two votes agree. *)
Compared(a, b) == [plans |-> {a, b} \ {None},
                   agree |-> a # None /\ b # None /\ Fingerprint(a[1]) = Fingerprint(b[1])]

(* Two of the votes of NormRefiner.refine, compiled and compared; if compile raises, so *)
(* does refine, and nothing is compared.                                                   *)
CompareVotes ==
    /\ Asked("votes")
    /\ LET vote(spec) == Compile(spec, question.source, question.labels, question.catalog)
       IN answer' = Some(IF Raised \in {vote(question.a), vote(question.b)} THEN Compared(None, None)
                         ELSE Compared(vote(question.a).plan, vote(question.b).plan))
    /\ UNCHANGED <<question, groupVars>>

(* The three passes of plan_with_trace that make a plan, each asked of the same norm: of *)
(* its clause, of the triple extracted from it and of the model's reading.                *)
PlanNorm ==
    /\ Asked("sentence")
    /\ answer' = Some([grammar |-> CompileRule(question.clause),
                       triple |-> Grounded(FirstPass(question.triple), question.catalog),
                       read |-> Compile(question.spec, question.source, {}, question.catalog).plan])
    /\ UNCHANGED <<question, groupVars>>

(* KindVocabulary.resolve. *)
ClassifyKind ==
    /\ Asked("kind")
    /\ answer' = Some(ResolvedKind(question.norm))
    /\ UNCHANGED <<question, groupVars>>

Next == \/ CompileSpec \/ ResolveName \/ GroupRows \/ SearchRows \/ FindConflicts \/ CompareVotes
        \/ PlanNorm \/ ClassifyKind

Spec == Init /\ [][Next]_vars

-----------------------------------------------------------------------------
(* What a plan demands, as the measurements that it lets pass: of an object a distance, *)
(* a way, an attribute or a share; of a provision the capacity, or the residents that   *)
(* share an object, and the way to it.                                                  *)
Compares(a, operator, b) ==
    CASE operator = "<" -> a < b [] operator = "<=" -> a <= b [] operator = ">" -> a > b
      [] operator = ">=" -> a >= b [] operator = "==" -> a = b

Passes(plan, x) ==
    LET p == plan.params
    IN CASE plan.template = "distance_from_source" -> p.distance = None \/ x >= p.distance[1]
         [] plan.template = "presence_within" -> x <= p.distance
         [] plan.template = "accessibility_within" -> x <= AccessLength(p.limit, p.mode)
         [] plan.template \in {"object_attribute_threshold", "zonal_attribute_threshold",
                               "zonal_ratio"} -> Compares(x, p.operator, p.threshold[1])
         [] plan.template = "service_provision" ->
               /\ \A c \in ToSet(p.capacity) : x.capacity >= c
               /\ \A r \in ToSet(p.residents) : x.residents <= r
               /\ \A l \in ToSet(p.accessibility) : x.way <= AccessLength(l, "walk")

(* Whether dwellings are what a plan checks. *)
ChecksHouses(plan) ==
    /\ plan.template \in DOMAIN CheckedRole
    /\ \E l \in ToSet(plan.layers) : l.role = CheckedRole[plan.template] /\ l.entity = House

(* The readings of a clause that compete for the objects a plan checks: for dwellings of   *)
(* certain types, those about these types.                                                  *)
Competing(q) ==
    LET spec == Read(q.spec, q.source)
        variants == IF spec.housing # {} /\ ChecksHouses(answer[1].plan[1]) THEN Relevant(spec)
                    ELSE DOMAIN spec.variants
    IN {Reading(spec, i) : i \in {0} \cup variants}

(* Measurements around everything that is demanded. *)
Measurements(plans) ==
    LET around(n) == {n - 1, n, n + 1}
        limits(p) == UNION {around(AccessLength(l, "walk")) : l \in ToSet(p.accessibility)}
    IN UNION {LET p == plan.params
              IN CASE plan.template = "distance_from_source" -> UNION {around(d) : d \in ToSet(p.distance)}
                   [] plan.template = "presence_within" -> around(p.distance)
                   [] plan.template = "accessibility_within" -> around(AccessLength(p.limit, p.mode))
                   [] plan.template = "service_provision" ->
                         {[capacity |-> c, residents |-> r, way |-> w] :
                             c \in {0, Million} \cup UNION {around(c) : c \in ToSet(p.capacity)},
                             r \in {0, Million} \cup UNION {around(c) : c \in ToSet(p.residents)},
                             w \in {0} \cup limits(p)}
                   [] OTHER -> around(p.threshold[1])
              : plan \in plans}

(* A clause with conditions or several values is checked by the strictest of them: what *)
(* the plan lets pass, every value of the clause for these objects lets pass as well     *)
(* (_compile_variants, _strictness and _tightest_accessibility).                         *)
StrictestApplied ==
    Answered("norm") /\ answer[1].plan # None /\ answer[1].plan[1].applicability # None =>
        LET q == question
            plan == answer[1].plan[1]
            values == {CompileOne(r, q.source, q.labels, q.catalog).plan[1] : r \in Competing(q)}
        IN \A x \in Measurements(values), v \in values : Passes(plan, x) => Passes(v, x)

(* A value for some types of residential buildings is checked on the buildings with the *)
(* floors of those types and on no others (_housing_floors and _scoped).                 *)
ScopeIsExact ==
    Answered("norm") /\ answer[1].plan # None /\ question.spec.housing # {} =>
        LET plan == answer[1].plan[1]
            meant == UNION {LET f == HousingFloors[h]
                            IN f.low..(IF f.high = None THEN 20 ELSE f.high[1])
                            : h \in question.spec.housing}
            checked == {n \in 1..20 : \A s \in ToSet(plan.scope) :
                            /\ s.min = None \/ n >= s.min[1]
                            /\ s.max = None \/ n <= s.max[1]}
            houses == \E l \in ToSet(plan.layers) : l.entity = House /\ l.role \in {"objects", "targets"}
        IN houses /\ plan.template \in DOMAIN CheckedRole => checked = meant

(* The units of what is measured, each as so many metres, minutes, square metres, percent, *)
(* floors or residents.                                                                     *)
Measures == [length |-> [m |-> 1, km |-> 1000], time |-> [min |-> 1, h |-> 60],
             area |-> [m2 |-> 1, ha |-> 10000], share |-> [percent |-> 1],
             floors |-> [floors |-> 1], residents |-> [residents |-> 1, thousand_residents |-> 1000]]

Means(x, n, unit, measure) == unit \in DOMAIN Measures[measure] /\ x = n * Measures[measure][unit]

MeasureOf(attribute) == CASE attribute = "floors" -> "floors" [] attribute = "height" -> "length"
                          [] OTHER -> "area"

(* A unit that speaks of a thousand residents, in itself or by the title of its table. *)
SaysPerThousand(unit, source) ==
    \/ unit \in {"places_per_1000", "thousand_residents"}
    \/ unit = "places" /\ "provision_table" \in source.says

(* What a plan compares with is the value of this reading, by its unit. *)
ComparesWith(plan, r, source) ==
    LET p == plan.params
        is(x, measure) == r.value # None /\ Means(x, r.value[1], r.unit, measure)
        objects == IF r.objects = None THEN 1 ELSE r.objects[1]
    IN CASE plan.template = "distance_from_source" ->
              IF r.template = "prohibited_within" THEN p.distance = None
              ELSE p.distance # None /\ is(p.distance[1], "length")
         [] plan.template = "presence_within" -> is(p.distance, "length")
         [] plan.template = "accessibility_within" ->
              is(p.limit.n, IF p.limit.kind = "time" THEN "time" ELSE "length")
         [] plan.template = "zonal_ratio" -> is(p.threshold[1], "share")
         [] plan.template = "service_provision" ->
              \/ /\ p.residents = None /\ p.capacity # None
                 /\ p.capacity = r.value /\ SaysPerThousand(r.unit, source)
              \/ /\ p.capacity = None /\ r.value # None /\ r.unit \in DOMAIN Measures.residents
                 /\ p.residents = Some((r.value[1] * Measures.residents[r.unit]) \div objects)
         [] OTHER -> is(p.threshold[1], MeasureOf(r.attribute[1]))

(* The number of a reading, and that of its objects, are in the clause. *)
InClause(r, source) ==
    /\ r.template # "prohibited_within" => All(r.value, source.numbers)
    /\ All(r.objects, {1} \cup source.numbers)

(* A way to a service is that of this reading, by its unit, or the straight line that *)
(* transport covers in its time.                                                       *)
LeadsAsRead(l, r) ==
    LET n == r.access[1]
        minutes == n * Measures.time[r.accessUnit]
    IN /\ r.access # None
       /\ \/ Means(l.n, n, r.accessUnit, IF l.kind = "time" THEN "time" ELSE "length")
          \/ /\ l.kind = "distance" /\ r.accessUnit \in DOMAIN Measures.time
             /\ l.n = StraightInMinutes(minutes)

Ways(plan) == IF plan.template = "service_provision" THEN ToSet(plan.params.accessibility) ELSE {}

(* The readings of a clause that a plan may be made of. *)
Considered(q) ==
    IF Read(q.spec, q.source).unconditional THEN {Reading(Read(q.spec, q.source), 0)} ELSE Competing(q)

ReadFrom(plan, readings, source) ==
    /\ \E r \in readings : ComparesWith(plan, r, source) /\ InClause(r, source)
    /\ \A l \in Ways(plan) : \E r \in readings : LeadsAsRead(l, r)

LayersListed(plan, cat) ==
    \A l \in ToSet(plan.layers) : \E e \in ToSet(cat) : e.name = l.entity /\ e.type = l.type

(* Nothing in a plan is guessed: its layers are types of the catalog, and what it compares *)
(* with is the value of one of the readings that concern what it checks, in the unit of     *)
(* that reading and found in the clause.  The way to a service is that of a reading too,    *)
(* but nothing looks for it in the clause: see NumbersInClause (_compile_one, ground,       *)
(* _grounded, the builders and _tightest_accessibility).                                    *)
PlansAsRead ==
    Answered("norm") /\ answer[1].plan # None =>
        /\ ReadFrom(answer[1].plan[1], Considered(question), question.source)
        /\ LayersListed(answer[1].plan[1], question.catalog)

(* Every number of a plan is one of the clause, as docs/en/pipeline.md says of the compiler: *)
(* it refuses when "the number does not occur in the clause".  Of the way to a service it     *)
(* does not hold (_provision takes accessibility_value as it was read).                        *)
NumbersInClause ==
    Answered("norm") /\ answer[1].plan # None =>
        \A l \in Ways(answer[1].plan[1]) :
            \E r \in Considered(question) : LeadsAsRead(l, r) /\ r.access[1] \in question.source.numbers

(* A reading is compiled into a plan or refused with its reasons, as the docstring of        *)
(* SpecCompiler says ("into a validated auto CheckPlan, or refuse").  For values of types of *)
(* buildings that take in all floors it does not hold: _scoped raises (CheckPlanScope).       *)
CompiledOrRefused == Answered("norm") => answer[1] # Raised

(* A name means the same type whatever the order in which the Urban API lists its       *)
(* types, as long as no two of a kind share a name: of two readings none is preferred   *)
(* (resolve of urban_catalog.py, "ambiguous and stays unresolved").                     *)
OrderFree ==
    Answered("name") =>
        LET cat == question.catalog
            reorderings == {[i \in DOMAIN cat |-> cat[f[i]]] : f \in Bijection(DOMAIN cat, DOMAIN cat)}
        IN NamesDiffer(cat) => \A other \in reorderings :
                        Resolve(other, question.name, question.type) = answer[1]

Linked(a, b) == a.key = b.key /\ SameQuote(a.quote, b.quote)

(* A chain of rows leads from a to b: whatever holds a and all that is linked to what it *)
(* holds, holds b.                                                                        *)
Chained(rows, a, b) ==
    \A closed \in SUBSET rows :
        a \in closed /\ (\A c \in closed, d \in rows : Linked(c, d) => d \in closed) => b \in closed

NormsOf(groups) ==
    \A a, b \in Stored : groups[a] = groups[b] /\ groups[a] # NoGroup => Chained(Stored, a, b)

(* No more rows of a key than are compared with one that is written. *)
AllCompared(rows, key) == Cardinality({r \in rows : r.key = key}) <= MaxCandidates + 1

(* Who shares a group states the same norm: the key is the same and a chain of similar    *)
(* quotes leads from one to the other, at every moment, whoever else is writing and what-  *)
(* ever is cut short, and also when all are consolidated; and if one task has written them *)
(* one after another, none that is like another is left without a group (group_of and       *)
(* group_all).                                                                               *)
GroupsAreNorms ==
    question.kind = "rows" =>
        /\ NormsOf(group)
        /\ answer # None => NormsOf(answer[1].consolidated)
        /\ question.writers = 1 /\ left = << >> /\ pending = {} =>
              \A a, b \in Stored :
                  a # b /\ Linked(a, b) /\ AllCompared(Stored, a.key) => group[a] # NoGroup

(* A search that shows one hit of a group hides nothing else: every hit up to the last    *)
(* one shown is shown or listed as its duplicate, all of them if fewer than the limit       *)
(* are shown, and none that is shown is a duplicate of another (_with_duplicates).          *)
NothingHidden ==
    Answered("rows") =>
        LET hits == question.hits
            shown == answer[1].shown
            places == DOMAIN shown
        IN /\ \A i \in DOMAIN hits :
                 Cardinality(places) < question.limit \/ (\E j \in places : i <= j) =>
                     \E s \in places : hits[i].id \in {shown[s].id} \cup shown[s].duplicates
           /\ \A r, s \in places : shown[r].id \notin shown[s].duplicates

(* The numbers that a value allows. *)
Holds(v, x) == IF v.operator = "=" THEN x = v.number[1] ELSE Compares(x, v.operator, v.number[1])

(* Those at which values begin or cease to hold. *)
Edges(v) == {v.number[1] + d : d \in {-1, 0, 1}}

(* Two values of one kind and unit are in conflict exactly when no number satisfies both, *)
(* whichever was written first (find_conflicts).                                           *)
ConflictsAreExact ==
    Answered("values") =>
        LET a == question.a
            b == question.b
        IN /\ answer[1].first = answer[1].second
           /\ Comparable(a) /\ Comparable(b) /\ a.kind = b.kind /\ a.unit = b.unit =>
                 (answer[1].first = "none" <=> \E x \in Edges(a) \cup Edges(b) : Holds(a, x) /\ Holds(b, x))

(* What a plan checks, with what, and what it demands; entities as types of the catalog. *)
Essence(plan, cat) ==
    LET p == plan.params
        t == plan.template
        layers == ToSet(plan.layers)
        checked == {l \in layers : l.role \in {"targets", "objects", "numerator"}}
        types(some) == {Resolve(cat, l.entity, l.type) : l \in some}
    IN [template |-> t, checked |-> types(checked), others |-> types(layers \ checked),
        demand |-> CASE t = "distance_from_source" -> p.distance
                     [] t = "presence_within" -> <<p.distance, p.minimum>>
                     [] t \in {"zonal_ratio", "zonal_attribute_threshold"} -> <<p.operator, p.threshold>>
                     [] OTHER -> << >>]

(* How the objects that are checked in a zone lie in it. *)
JoinedBy(plan) == IF plan.template = "zonal_attribute_threshold" THEN plan.params.join ELSE "none"

(* A clause about what lies in a zone as a whole. *)
SaysWhole(c) == c.form = "floors" /\ c.join = "whole"

(* One norm is checked in one way, whichever pass makes its plan: the same objects, with *)
(* the same others, against the same value; an upper bound on the dwellings, if one side  *)
(* is one, however the sentence runs (_checked_side, _compile_one and compile_spatial_rule). *)
(* The objects of a zone are those that lie in it in the same way, unless the clause asks  *)
(* for those that do as a whole: see WholeMeansWithin.                                      *)
SameNormSamePlan ==
    Answered("sentence") =>
        LET a == answer[1]
            cat == question.catalog
            plans == ToSet(a.grammar \o a.triple \o a.read)
            dwells(l) == Resolve(cat, l.entity, l.type)[1].name \in Residences
            side(p, role) == \E l \in ToSet(p.layers) : l.role \in role /\ dwells(l)
        IN /\ \A p, q \in plans : Essence(p, cat) = Essence(q, cat)
           /\ \A p \in plans : p.template = "presence_within" =>
                 (side(p, {"neighbors", "schools", "kindergartens"}) => side(p, {"objects"}))
           /\ ~SaysWhole(question.clause) => \A p, q \in plans : JoinedBy(p) = JoinedBy(q)

(* What a norm says of objects inside a zone is checked on those that lie in it as a whole, *)
(* whichever pass makes the plan: norm_refiner.py describes zone_attribute_limit to the       *)
(* model as "only for the objects inside the functional zone", and compile_spatial_rule has   *)
(* it so.  A reading is joined by "intersects" (_zone_attribute_limit).                        *)
WholeMeansWithin ==
    Answered("sentence") /\ SaysWhole(question.clause) =>
        \A p \in ToSet(answer[1].grammar \o answer[1].triple \o answer[1].read) : JoinedBy(p) = "within"

(* Of a quantity with a unit the operator decides the direction, whatever the label says *)
(* (test_kind_taxonomy.py has it so), even if the label is itself a kind of the list        *)
(* (classify_kind).                                                                          *)
KindTellsDirection ==
    Answered("kind") /\ question.norm.value # None =>
        LET value == question.norm.value[1]
            kind == answer[1].classified
        IN value.unit \in {"length", "area", "percent", "time", "floors"} =>
              /\ kind \in {"min_distance", "min_size", "min_share"} => value.operator \notin AtMost
              /\ kind \in {"max_distance", "max_size", "max_share"} => value.operator \in AtMost

(* Votes that agree check the same thing, as refine of norm_refiner.py has it: the same   *)
(* objects, compared with the same value.                                                   *)
AgreeingVotesCheckTheSame ==
    Answered("votes") /\ answer[1].agree =>
        \A p, q \in answer[1].plans : p[1].scope = q[1].scope /\ p[1].params = q[1].params

=============================================================================
