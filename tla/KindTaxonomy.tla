----------------------------- MODULE KindTaxonomy -----------------------------
(***************************************************************************)
(* The closed list of kinds, and how an extracted label becomes one of     *)
(* them (src/pipeline/kind_taxonomy.py and KindVocabulary.resolve): the    *)
(* number and its unit decide first, then the label, then the quote, then  *)
(* what the label is like.                                                 *)
(*                                                                         *)
(* A norm is [label, indicator, value, measure, text, near]: the label is  *)
(* [listed, says], what the patterns find in a wording is a set of         *)
(* Phrases, a value is [operator, unit] with the unit by what it measures, *)
(* and near is the listed kind nearest to the label, with whether it is    *)
(* near enough.                                                            *)
(***************************************************************************)
EXTENDS Naturals, Sequences

Phrases == {"distance", "access", "size", "height", "share", "density", "provision", "count",
            "time", "physical", "procedure", "prohibit", "allow", "place", "presence", "require"}

(* KINDS, each with what its own name says. *)
KindSays ==
    [no_placement |-> {"prohibit", "place"}, no_use |-> {"prohibit"},
     placement |-> {"place", "presence", "require"}, allowance |-> {"allow"},
     min_distance |-> {"distance"}, max_distance |-> {"distance"},
     access_time |-> {"access", "time"}, min_size |-> {"size"}, max_size |-> {"size"},
     height |-> {"height"}, min_share |-> {"share", "size"}, max_share |-> {"share", "size"},
     density |-> {"density", "share", "place"}, provision |-> {"provision"},
     count |-> {"count"}, term |-> {"time"}, physical |-> {}, requirement |-> {"require"},
     procedure |-> {}, other |-> {}]

Kinds == DOMAIN KindSays

AtMost == {"<=", "<"}

Toward(value, minimum, maximum) == IF value.operator \in AtMost THEN maximum ELSE minimum

(* The first of the rules that fits; the last one always does. *)
FirstFit(rules) ==
    LET fits == {i \in DOMAIN rules : rules[i].when}
    IN rules[CHOOSE i \in fits : \A j \in fits : i <= j].kind

Rule(kind, when) == [when |-> when, kind |-> kind]

(* _quantitative: the kind of a quantity, or "none". *)
Quantitative(value, measure, words) ==
    LET says(phrase) == phrase \in words
        is(unit) == value.unit = unit
        share == measure = "area_share" \/ (is("percent") /\ says("share"))
        distance == Toward(value, "min_distance", "max_distance")
        size == Toward(value, "min_size", "max_size")
    IN FirstFit(<<
        Rule("density", share /\ says("density")),
        Rule(Toward(value, "min_share", "max_share"), share),
        Rule("provision", measure = "provision" \/ says("provision")),
        Rule("height", is("floors") \/ (says("height") /\ ~says("size"))),
        Rule("density", says("density")),
        Rule("access_time", is("time") /\ says("access")),
        Rule("term", is("time")),
        Rule(distance, is("length") /\ measure = "distance"),
        Rule(size, is("length") /\ measure = "linear_size"),
        Rule(distance, is("length") /\ (says("distance") \/ says("access"))),
        Rule(size, is("length") /\ says("size")),
        Rule("none", is("length")),
        Rule(size, is("area")),
        Rule("physical", is("physical") \/ says("physical")),
        Rule("count", measure = "count_share" \/ says("count") \/ is("percent")),
        Rule("none", TRUE)>>)

(* _qualitative: the kind of a norm without a number. *)
Qualitative(label, text) ==
    LET says(phrase) == phrase \in label.says
        prohibits == says("prohibit") \/ (label.empty /\ "prohibit" \in text)
    IN FirstFit(<<
        Rule("allowance", says("allow")),
        Rule("no_placement", prohibits /\ says("place")),
        Rule("no_use", prohibits),
        Rule("placement", says("presence")),
        Rule("provision", says("provision")),
        Rule("height", says("height")),
        Rule("term", says("time")),
        Rule("physical", says("physical")),
        Rule("procedure", says("procedure")),
        Rule("requirement", says("require")),
        Rule("other", TRUE)>>)

(* Mutant: a listed label is taken at its word. *)
ClassifiedByLabel(n) == IF n.label.listed # << >> THEN n.label.listed[1]
                        ELSE Qualitative(n.label, n.text)

(* classify_kind. *)
Classified(n) ==
    LET words == n.label.says \cup n.indicator
        quantity(found) == IF n.value = << >> THEN "none"
                           ELSE Quantitative(n.value[1], n.measure, found)
    IN IF quantity(words) # "none" THEN quantity(words)
       ELSE IF n.label.listed # << >> THEN n.label.listed[1]
       ELSE IF quantity(words \cup n.text) # "none" THEN quantity(words \cup n.text)
       ELSE Qualitative(n.label, n.text)

(* KindVocabulary.resolve: what the rules leave over is what its label is most like. *)
ResolvedKind(n) ==
    LET kind == Classified(n)
        alike == kind = "other" /\ ~n.label.empty /\ n.label.listed = << >> /\ n.near.enough
        found == IF alike THEN n.near.kind ELSE kind
    IN [classified |-> kind, kind |-> found,
        status |-> IF found = "other" THEN "pending" ELSE "approved"]

=============================================================================
