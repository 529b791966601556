------------------------------- MODULE MCRules -------------------------------
(* Inputs of the rules on which TLC answers them. *)
EXTENDS Rules

MCStem == [n \in Names |-> CASE n = "schools" -> "school"
                             [] n = "houses" -> "house"
                             [] n = "parks" -> "park"
                             [] n \in {"garden_a", "garden_o"} -> "garden"
                             [] OTHER -> n]
MCAliases == [n \in Names |-> CASE n = "lyceum" -> {"school"}
                                [] n = "campus" -> {"school", "park"}
                                [] OTHER -> {}]

-----------------------------------------------------------------------------
(* Norms. *)

Type(name, type) == [name |-> name, type |-> type, label |-> name]
City == <<Type("school", "service"), Type("park", "service"), Type("wall", "service"),
          Type("offset", "service"), Type("house", "physical_object"),
          Type("park", "physical_object"), Type("anybuilding", "physical_object"),
          Type("zone", "functional_zone")>>

Item(name, type) == [name |-> name, type |-> type]
Houses == Item("house", "physical_object")
Schools == Item("schools", "service")
Zones == Item("zone", "functional_zone")
Dwellings == Item("dwelling", "physical_object")
Unknown == Item("garden_a", "service")

(* Wordings of a clause; a quote is a part of it. *)
Text(numbers, says) == [numbers |-> numbers, says |-> says, exceedBy |-> {}, ranges |-> << >>]
Clause == Text({2, 5, 8, 10, 300, 500}, {"direction"})
Quote(says) == [inSource |-> TRUE, numbers |-> Clause.numbers, says |-> says,
                exceedBy |-> {}, ranges |-> << >>]
Silent == Quote({})
Invented == [Quote({"at_most", "periodic", "per_capita", "transport"}) EXCEPT !.inSource = FALSE]
Span(low, high, unit) == [low |-> low, high |-> high, unit |-> unit]

Base == [territorial |-> TRUE, template |-> "min_distance", checked |-> Some(Houses),
         other |-> Some(Schools), operator |-> ">=", value |-> Some(500), unit |-> "m",
         attribute |-> None, access |-> None, accessUnit |-> "none", mode |-> None,
         housing |-> {}, basis |-> None, objects |-> None, unconditional |-> TRUE,
         variants |-> << >>, quote |-> Silent]

Variant == [value |-> None, unit |-> None, objects |-> None, access |-> None, accessUnit |-> None,
            mode |-> None, housing |-> {}]

(* A reading of every template. *)
Floored == [Base EXCEPT !.template = "attribute_limit", !.operator = "<=", !.unit = "floors",
                        !.attribute = Some("floors"), !.value = Some(5)]
Plotted == [Base EXCEPT !.template = "zone_attribute_limit", !.other = Some(Zones), !.unit = "ha",
                        !.attribute = Some("area"), !.value = Some(2)]
Shared == [Base EXCEPT !.template = "zone_share", !.other = Some(Zones), !.operator = "<=",
                       !.value = Some(8), !.unit = "percent"]
Reached == [Base EXCEPT !.template = "accessibility", !.operator = "<=", !.value = Some(10),
                        !.unit = "min"]
Provided == [Base EXCEPT !.template = "provision", !.checked = None, !.unit = "places_per_1000",
                         !.access = Some(10), !.accessUnit = "min"]
Resided == [Provided EXCEPT !.unit = "thousand_residents", !.value = Some(10), !.objects = Some(2)]
Forbidden == [Base EXCEPT !.template = "prohibited_within", !.value = None]
Near == [Base EXCEPT !.template = "max_distance", !.operator = "<="]

Readings == {Base, Forbidden, Near, Reached, Floored, Plotted, Shared, Provided, Resided}

(* One thing read otherwise. *)
Otherwise ==
    UNION {{[r EXCEPT !.operator = o] : o \in {"<", "<=", ">", ">=", "==", "none"}}
           \cup {[r EXCEPT !.value = v] : v \in {None, Some(2), Some(7), Some(300)}}
           \cup {[r EXCEPT !.unit = u] :
                    u \in {"none", "m", "km", "min", "h", "m2", "ha", "percent", "places",
                           "places_per_1000", "residents", "thousand_residents", "floors"}}
           \cup {[r EXCEPT !.checked = c] :
                    c \in {None, Some(Schools), Some(Zones), Some(Unknown), Some(Dwellings)}}
           \cup {[r EXCEPT !.other = c] :
                    c \in {None, Some(Houses), Some(Unknown), Some(Dwellings),
                           Some(Item("lyceum", "service")), Some(Item("park", "physical_object")),
                           Some(Item("school", "physical_object")), Some(Item("wall", "service")),
                           Some(Item("offset", "service")), Some(Item("anybuilding", "physical_object"))}}
           \cup {[r EXCEPT !.attribute = a] :
                    a \in {None, Some("floors"), Some("height"), Some("building_area"), Some("area")}}
           \cup {[r EXCEPT !.accessUnit = u, !.access = Some(n)] : u \in {"none", "m", "km", "min", "h"}, n \in {7, 10}}
           \cup {[r EXCEPT !.mode = Some(m)] : m \in {"walk", "transport"}}
           \cup {[r EXCEPT !.basis = Some(b)] : b \in {"places_per_1000", "residents_per_object"}}
           \cup {[r EXCEPT !.quote = q] :
                    q \in {Invented, Quote({"at_most"}), Quote({"at_least"}), Quote({"per_capita"}),
                           Quote({"periodic"}), Quote({"depth"}), Quote({"transport"}),
                           Quote({"walking"}), [Silent EXCEPT !.exceedBy = {2, 5, 500}]}}
           \cup {[r EXCEPT !.objects = Some(n)] : n \in {1, 2, 7}}
           \cup {[r EXCEPT !.territorial = FALSE], [r EXCEPT !.template = "none"]}
           : r \in Readings}

(* A quoted range, of which one end or none was read. *)
Ranged ==
    {[r EXCEPT !.value = v, !.quote = [Silent EXCEPT !.ranges = <<Span(2, 5, r.unit)>>],
               !.variants = w] :
        r \in {Base, Near, Reached}, v \in {None, Some(2), Some(5), Some(8)},
        w \in {<< >>, <<[Variant EXCEPT !.value = Some(5)]>>}}

(* Case-dependent values. *)
Values == {2, 5, 8, 10, 300}

Cases ==
    {[r EXCEPT !.unconditional = FALSE, !.operator = o, !.mode = m,
               !.variants = <<[Variant EXCEPT !.value = Some(v)],
                              [Variant EXCEPT !.value = w, !.access = a]>>] :
        r \in Readings, o \in {">=", "<=", ">", "=="}, m \in {None, Some("transport")},
        v \in Values, w \in {None, Some(8)}, a \in {None, Some(5)}}

Units ==
    {[r EXCEPT !.unconditional = FALSE,
               !.variants = <<[Variant EXCEPT !.value = Some(v), !.unit = Some(u), !.mode = m]>>] :
        r \in {Base, Near, Reached, Plotted, Provided, Resided}, v \in {2, 5}, m \in {None, Some("walk")},
        u \in {"m", "km", "min", "h", "m2", "ha", "residents", "thousand_residents"}}

(* Values for some types of residential buildings. *)
Housings == SUBSET {"individual", "lowrise", "midrise", "multistorey"} \ {{}}

Housed ==
    {[r EXCEPT !.housing = h, !.unconditional = FALSE, !.checked = c,
               !.variants = <<[Variant EXCEPT !.value = Some(300), !.housing = g],
                              [Variant EXCEPT !.value = Some(10)]>>] :
        r \in Readings, c \in {Some(Houses), Some(Item("park", "service"))},
        g \in {{"individual"}, {"lowrise"}, {"multistorey"}}, h \in Housings}

Wordy == {Clause, Text(Clause.numbers, {}), Text({2}, {"direction"}),
          Text(Clause.numbers, {"direction", "accessibility"}),
          Text(Clause.numbers, {"direction", "provision_table"}),
          Text(Clause.numbers, {"direction", "at_most"})}

Norm(s, t, l) == [kind |-> "norm", spec |-> s, source |-> t, labels |-> l, catalog |-> City]

Norms == {Norm(s, t, {}) : s \in Readings \cup Otherwise \cup Ranged, t \in Wordy}
         \cup {Norm(s, Clause, l) : s \in Cases, l \in {{}, {"transport"}}}
         \cup {Norm(s, Clause, {}) : s \in Housed \cup Units}

-----------------------------------------------------------------------------
(* Names, in catalogs of three types. *)

CatalogEntries == {Type("school", "service"), Type("park", "service"), Type("park", "physical_object"),
                   Type("garden_a", "service"), Type("garden_o", "physical_object"),
                   [name |-> "zone", type |-> "functional_zone", label |-> "school"]}

Catalogs == {SetToSeq(s) : s \in UNION {kSubset(k, CatalogEntries) : k \in 0..3}}

Lookups == {[kind |-> "name", catalog |-> c, name |-> n, type |-> t] :
               c \in Catalogs, n \in {"school", "schools", "park", "garden", "garden_a", "lyceum", "campus"},
               t \in EntityTypes \cup {AnyType}}

-----------------------------------------------------------------------------
(* Rows, in the order in which they are written and found: by one task or two, the first *)
(* once more at the end, or each once.                                                     *)
Quotes == {{1, 2}, {2, 3}, {3, 4}, {1, 2, 3, 4}}

Row(id, key, quote) == [id |-> id, key |-> key, quote |-> quote]

RowsOf(keys) ==
    LET ids == DOMAIN keys
    IN {[i \in ids |-> Row(order[i], keys[order[i]], quote[order[i]])] :
           order \in Bijection(ids, ids), quote \in [ids -> Quotes]}

Writing(rows, hits, writers) ==
    [kind |-> "rows", rows |-> rows, hits |-> hits, writers |-> writers, limit |-> 2]

Rowings == {Writing(Append(r, r[1]), r, w) :
               r \in RowsOf(<<"k1", "k1">>) \cup RowsOf(<<"k1", "k1", "k1">>) \cup RowsOf(<<"k1", "k2", "k1">>),
               w \in {1, 2}}
           \cup {Writing(r, r, 1) : r \in RowsOf(<<"k1", "k1", "k1", "k1">>)}

(* Values. *)
Value(o, n, u, c) == [operator |-> o, number |-> n, unit |-> u, kind |-> "distance", condition |-> c]

Bounded == {Value(o, n, u, "always") :
               o \in {"<", "<=", "=", ">=", ">", "range"}, n \in {None, Some(5), Some(6), Some(7), Some(9)},
               u \in {"m", "km"}}

Collisions == {[kind |-> "values", a |-> a, b |-> b] :
                  a \in Bounded, b \in Bounded \cup {Value("<", Some(6), "m", "at night")}}

(* Votes: two readings of one clause. *)
Voted == Readings \cup {[Base EXCEPT !.value = Some(300)], [Base EXCEPT !.checked = Some(Zones)]}

Votings == {[kind |-> "votes", a |-> a, b |-> b, source |-> Clause, labels |-> {}, catalog |-> City] :
               a \in Voted, b \in Voted}

-----------------------------------------------------------------------------
(* Sentences: one norm as a clause of the grammar, as a triple and as a reading, about    *)
(* "a" and "b" in the order in which they are named.                                        *)
MCInflected == [houses |-> Houses, schools |-> Item("school", "service"),
                parks |-> Item("park", "physical_object")]

Town == City \o <<Type("kindergarten", "service"), Type("dwelling", "physical_object"),
                  Type("allzones", "functional_zone")>>

Label(name, says) == [name |-> name, says |-> says]
Mentions == {Label("houses", {"house", "residence"}), Label("schools", {"school", "service"}),
             Label("parks", {}), Label("dwelling", {"residence"}), Label("garden_a", {}),
             Label("kindergarten", {"kindergarten", "service"}), Label("offset", {"quantity"})}

TripleOf(a, b, operator, n, unit, says, conditional) ==
    [subject |-> a, object |-> b, measurement |-> None, text |-> Text({n}, says),
     value |-> Some([operator |-> operator, number |-> Some(n), unit |-> unit,
                     conditional |-> conditional])]

Told(says) == says \cap Wordings

ReadAs(template, checked, other, operator, n, unit, says) ==
    [Base EXCEPT !.template = template, !.checked = Some(checked), !.other = Some(other),
                 !.operator = operator, !.value = Some(n), !.unit = unit,
                 !.quote = [Silent EXCEPT !.numbers = {n}, !.says = Told(says)]]

Sentence(clause, triple, spec, n, says) ==
    [kind |-> "sentence", clause |-> clause, triple |-> triple, spec |-> spec,
     source |-> Text({n}, Told(says) \cup {"direction"}), catalog |-> Town]

Hearsay == {{}, {"exception"}, {"contour"}, {"each"}, {"route"}, {"each_other"}, {"periodic"},
            {"depth"}, {"at_most"}, {"at_least"}, {"size"}, {"entrance"}, {"turning"}}

Lengths == {<<2, "m">>, <<300, "m">>, <<5, "km">>, <<300, "km">>}

(* From a to b no less than so much. *)
Apart ==
    {Sentence([form |-> "distance", source |-> a.name, target |-> b.name, amount |-> d[1], unit |-> d[2]],
              TripleOf(a, b, o, d[1], d[2], w, FALSE),
              ReadAs("min_distance", Mentioned(b), Mentioned(a), o, d[1], d[2], w), d[1], w) :
        a \in Mentions, b \in Mentions,
        <<o, d, w>> \in ({">=", ">"} \X Lengths \X {{}}) \cup ({">="} \X {<<5, "km">>} \X Hearsay)}

(* So much of b near every a that is lived in, in either order, and read in either. *)
Orders(a, b) == {<<a, b>>, <<b, a>>}

Close ==
    UNION {{Sentence([form |-> "presence", count |-> 1, contour |-> c, amount |-> d[1], unit |-> d[2],
                      neighbors |-> IF a.name = "houses" THEN b.name ELSE a.name],
                     TripleOf(t[1], t[2], o, d[1], d[2], w, FALSE),
                     ReadAs("max_distance", Mentioned(s[1]), Mentioned(s[2]), "<=", d[1], d[2], w), d[1], w) :
               c \in {b.name, "parks"}, t \in Orders(a, b), s \in Orders(a, b),
               <<o, d, w>> \in {"<=", "<"} \X {<<300, "m">>, <<5, "km">>} \X {{}, {"route"}, {"at_least"}}} :
           a \in {l \in Mentions : "residence" \in l.says}, b \in Mentions}

(* The area of a in a zone no more than so many percent. *)
Zone == Label("allzones", {"zone"})
Share(a, basis) == [kind |-> "area_share", basis |-> Some(Label("zone", basis)),
                    numerator |-> Some(a), denominator |-> Some(Zone)]

Built100 ==
    {Sentence([form |-> "share", objects |-> a.name, repeated |-> c, threshold |-> n],
              [TripleOf(Zone, a, "<=", n, "percent", w, FALSE) EXCEPT !.measurement = Some(Share(a, b))],
              [ReadAs("zone_share", Mentioned(a), Item("allzones", "functional_zone"), "<=", n, "percent", w)
                  EXCEPT !.value = Some(n)], n, w) :
        a \in Mentions, c \in {"houses", "parks"}, n \in {60, 101}, b \in {{}, {"area"}, {"area", "part"}},
        w \in {{}, {"areas"}, {"areas", "counted"}}}

(* No more than so many floors, and distances by floors. *)
Storeys ==
    {Sentence([form |-> "floors", objects |-> a.name, threshold |-> 5, join |-> j],
              TripleOf(Zone, a, "<=", 5, "floors", {}, c),
              [ReadAs("zone_attribute_limit", Mentioned(a), Item("allzones", "functional_zone"), "<=", 5,
                      "floors", {}) EXCEPT !.attribute = Some("floors")], 5, {}) :
        a \in Mentions, c \in BOOLEAN, j \in DOMAIN JoinOf}

Bands == {[low |-> l, high |-> h, distance |-> d] : l \in {1, 5, 6}, h \in {None, Some(5), Some(8)}, d \in {10}}

Tables ==
    {Sentence([form |-> "table", targets |-> a.name, checked |-> c, rows |-> r],
              [TripleOf(a, a, "none", 10, "none", {}, TRUE) EXCEPT !.value = None],
              [ReadAs("min_distance", Mentioned(a), Houses, ">=", 11, "m", {}) EXCEPT !.value = None],
              10, {}) :
        a \in Mentions, c \in {"houses", "parks"}, r \in {<<x>> : x \in Bands} \cup Bands \X Bands}

Sentences == Apart \cup Close \cup Built100 \cup Storeys \cup Tables

-----------------------------------------------------------------------------
(* Labels of kinds. *)

Labels == {[listed |-> Some(k), says |-> KindSays[k], empty |-> FALSE] : k \in Kinds}
          \cup {[listed |-> None, says |-> w, empty |-> FALSE] :
                   w \in {{p} : p \in Phrases} \cup {{"height", "size"}, {"share", "density"}, {"prohibit", "place"},
                                                    {"time", "access"}, {"allow", "prohibit"}}}
          \cup {[listed |-> None, says |-> {}, empty |-> e] : e \in BOOLEAN}

Quantities == {Some([operator |-> o, unit |-> u]) :
                  o \in {"<=", ">", "="},
                  u \in {"length", "area", "percent", "time", "floors", "physical", "none"}}

Kinded == {[kind |-> "kind",
            norm |-> [label |-> l, indicator |-> {}, value |-> v, measure |-> m, text |-> t,
                      near |-> [kind |-> "term", enough |-> "size" \in t]]] :
              l \in Labels, v \in {None} \cup Quantities,
              m \in {"none", "distance", "area_share"},
              t \in {{"distance", "prohibit"}, {"size"}}}

MCQuestions == Norms \cup Lookups \cup Rowings \cup Collisions \cup Votings \cup Sentences \cup Kinded

(* Ways to a service that the model reads but the clause does not state. *)
Reachings ==
    {Norm([r EXCEPT !.access = Some(n), !.accessUnit = u], Clause, {}) :
        r \in {Provided, Resided}, n \in {7, 10}, u \in {"m", "km", "min", "h"}}

HousingNorms == {Norm(s, Clause, {}) : s \in Housed}

Floorings == {q \in Storeys : SaysWhole(q.clause)}

(* Votes that differ in the types of residential buildings that they name. *)
HousingVotes ==
    {[kind |-> "votes", source |-> Clause, labels |-> {}, catalog |-> City,
      a |-> [Base EXCEPT !.housing = g], b |-> [Base EXCEPT !.housing = h]] :
        g \in Housings, h \in Housings}
=============================================================================
