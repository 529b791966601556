----------------------------- MODULE CatalogNames -----------------------------
(***************************************************************************)
(* How a name in a norm is resolved to a type of the Urban API             *)
(* (UrbanCatalog in src/pipeline/urban_catalog.py): as it is written, in   *)
(* another case or number, by the wording that norms use for it; never     *)
(* when it could mean two types.                                           *)
(*                                                                         *)
(* A name stands for its normalized form.  A snapshot of the catalog is a  *)
(* sequence of entries, in the order of the answer of the Urban API.       *)
(***************************************************************************)
EXTENDS SequencesExt

CONSTANTS
    Names,        \* normalized names, those of norms as those of the catalog
    Stem,         \* [Names -> Names]: a name without the endings of its words
    Aliases       \* [Names -> SUBSET Names]: catalog names whose wording a name contains

EntityTypes == {"service", "physical_object", "functional_zone"}

Entry == [name : Names, type : EntityTypes, label : Names]

AnyType == "any"

(* An answer that may be missing is a sequence of at most one element. *)
None == << >>
Some(x) == <<x>>
Optional(s) == s = None \/ s = <<s[1]>>

OfType(e, type) == type = AnyType \/ e.type = type

(* Of the entries at some places the first and the last, and the only one. *)
FirstOf(cat, places) ==
    IF places = {} THEN None ELSE Some(cat[CHOOSE i \in places : \A j \in places : i <= j])
LastOf(cat, places) == cat[CHOOSE i \in places : \A j \in places : j <= i]
SoleOf(cat, places) == IF Cardinality(places) = 1 THEN FirstOf(cat, places) ELSE None

(* _by_name: an entry is found under its name and under its label. *)
Called(cat, key) == {i \in DOMAIN cat : key \in {cat[i].name, cat[i].label}}

(* _by_stem: entries that are equal are held once. *)
Alike(cat, n, type) ==
    {e \in ToSet(cat) : OfType(e, type) /\ Stem[n] \in {Stem[e.name], Stem[e.label]}}

(* Mutant: of two entries of different types with one name the first counts. *)
ExactFirst(cat, n, type) == FirstOf(cat, {i \in Called(cat, n) : OfType(cat[i], type)})

(* _by_key: of two entries of a type with one name the first counts. *)
Exact(cat, n, type) ==
    IF type = AnyType THEN SoleOf(cat, Called(cat, n))
    ELSE FirstOf(cat, {i \in Called(cat, n) : cat[i].type = type})

(* Entries by the names that the wording stands for; the last one of a name counts. *)
Worded(cat, n, type) ==
    LET found == {i \in DOMAIN cat : /\ OfType(cat[i], type)
                                     /\ {cat[i].name, cat[i].label} \cap Aliases[n] # {}}
        last == LastOf(cat, found)
        ambiguous == type = AnyType /\ Cardinality(Called(cat, last.name)) # 1
    IN IF Cardinality({cat[i].name : i \in found}) # 1 \/ ambiguous THEN None ELSE Some(last)

Resolve(cat, n, type) ==
    LET alike == Alike(cat, n, type)
    IN IF Called(cat, n) # {} THEN Exact(cat, n, type)
       ELSE IF alike = {} THEN Worded(cat, n, type)
       ELSE IF Cardinality(alike) = 1 THEN Some(CHOOSE e \in alike : TRUE)
       ELSE None

=============================================================================
