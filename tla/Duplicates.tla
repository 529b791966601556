------------------------------ MODULE Duplicates ------------------------------
(***************************************************************************)
(* Restrictions that state the same norm, and those that contradict each   *)
(* other (src/pipeline/duplicates.py, src/pipeline/conflicts.py and their  *)
(* use in _write_restriction), and how a search shows the former           *)
(* (_with_duplicates of src/query/service.py).                             *)
(*                                                                         *)
(* A row is its id, its norm_key and a set of words that stands for its    *)
(* quote; its group is the id of a row.  Ids are numbers.  Rows are        *)
(* written by several tasks at once (the worker, requests of the admin),   *)
(* each row in three statements.                                           *)
(***************************************************************************)
EXTENDS Integers, FiniteSets, Sequences, SequencesExt, FiniteSetsExt

CONSTANT MaxCandidates      \* duplicate_candidates returns no more rows

ASSUME CandidatesAssumption == MaxCandidates \in Nat \ {0}

VARIABLES
    left,           \* the rows to be written, in their order
    pending,        \* the writes under way, from the reading of the candidates on
    group,          \* for each stored row its duplicate_group
    clusters        \* the clusters of group_all, as far as it is

groupVars == <<left, pending, group, clusters>>

NoGroup == 0

-----------------------------------------------------------------------------
(* Duplicates. *)

Stored == DOMAIN group

(* Half of all words are common, or seven tenths of the shorter quote's. *)
SameQuote(a, b) ==
    LET common == Cardinality(a \cap b)
    IN IF a = {} \/ b = {} THEN a = b
       ELSE \/ 2 * common >= Cardinality(a \cup b)
            \/ 10 * common >= 7 * Min({Cardinality(a), Cardinality(b)})

(* Mutant: the key is not looked at. *)
OfAnyKey(row) == {r \in Stored : r.id # row.id}

(* duplicate_candidates: the first rows of the same key. *)
DuplicateCandidates(row) ==
    LET others == {r \in Stored : r.id # row.id /\ r.key = row.key}
    IN {r \in others : Cardinality({o \in others : o.id < r.id}) < MaxCandidates}

(* What group_of keeps of them. *)
Matching(row) == {r \in DuplicateCandidates(row) : SameQuote(r.quote, row.quote)}

(* The least group of those that match, or else the first of them. *)
GroupFor(matching) ==
    LET groups == {group[r] : r \in matching} \ {NoGroup}
    IN IF matching = {} THEN NoGroup
       ELSE IF groups # {} THEN Min(groups) ELSE Min({r.id : r \in matching})

(* A write begins: group_of on what duplicate_candidates returns. *)
ReadCandidates ==
    /\ left # << >>
    /\ LET matching == Matching(Head(left))
           name == GroupFor(matching)
       IN pending' = pending \cup {[row |-> Head(left), group |-> name, upserted |-> FALSE,
                                    regrouped |-> {r \in matching : group[r] # name}]}
    /\ left' = Tail(left)
    /\ UNCHANGED <<group, clusters>>

(* upsert_restriction. *)
Upsert ==
    \E w \in pending :
        /\ ~w.upserted
        /\ group' = [r \in Stored \cup {w.row} |-> IF r = w.row THEN w.group ELSE group[r]]
        /\ pending' = (pending \ {w}) \cup (IF w.regrouped = {} THEN {} ELSE {[w EXCEPT !.upserted = TRUE]})
        /\ UNCHANGED <<left, clusters>>

(* set_duplicate_group: those that match join the group too. *)
SetGroup ==
    \E w \in pending :
        /\ w.upserted
        /\ group' = [r \in Stored |-> IF r \in w.regrouped THEN w.group ELSE group[r]]
        /\ pending' = pending \ {w}
        /\ UNCHANGED <<left, clusters>>

(* A write is cut short; its row is written again later. *)
Cut ==
    \E w \in pending :
        /\ w.row \in ToSet(left)
        /\ pending' = pending \ {w}
        /\ UNCHANGED <<left, group, clusters>>

(* group_all, one row in the order of ids: the first cluster of its key with a quote like *)
(* its own takes it.                                                                       *)
Clustered(row) ==
    LET fits == {i \in DOMAIN clusters : \E r \in clusters[i] : r.key = row.key /\ SameQuote(r.quote, row.quote)}
    IN IF fits = {} THEN Append(clusters, {row})
       ELSE [clusters EXCEPT ![Min(fits)] = @ \cup {row}]

Unclustered == Stored \ UNION ToSet(clusters)

ClusterRow ==
    /\ left = << >> /\ pending = {}
    /\ \E row \in Unclustered :
        /\ \A other \in Unclustered : row.id <= other.id
        /\ clusters' = Clustered(row)
    /\ UNCHANGED <<left, pending, group>>

(* The groups that group_all returns. *)
Consolidated ==
    [r \in Stored |->
        LET c == CHOOSE c \in ToSet(clusters) : r \in c
        IN IF Cardinality(c) > 1 THEN Min({m.id : m \in c}) ELSE NoGroup]

-----------------------------------------------------------------------------
(* Search. *)

Listed(hit) == IF group[hit] = NoGroup THEN {}
               ELSE {r.id : r \in {m \in Stored : group[m] = group[hit] /\ m.id # hit.id}}

(* Mutant: having no group is taken for a group. *)
OneOfEachGroup(hits) ==
    {i \in DOMAIN hits : \A j \in 1..(i - 1) : group[hits[j]] # group[hits[i]]}

(* The hits without a group and the first of every group. *)
Kept(hits) ==
    {i \in DOMAIN hits : \/ group[hits[i]] = NoGroup
                         \/ \A j \in 1..(i - 1) : group[hits[j]] # group[hits[i]]}

(* _with_duplicates: limit of them, each by its place among the hits. *)
Shown(hits, limit) ==
    [i \in {k \in Kept(hits) : Cardinality({j \in Kept(hits) : j <= k}) <= limit} |->
        [id |-> hits[i].id, duplicates |-> Listed(hits[i])]]

-----------------------------------------------------------------------------
(* Conflicts.  Numbers are multiples of _EPSILON, so that 1 stands for it; an open end *)
(* is one that is not there.                                                            *)

Comparable(v) == v.operator \in {">=", "<=", ">", "<", "="} /\ v.number # << >>

Bounds(v) ==
    LET n == v.number[1]
    IN [low |-> CASE v.operator \in {">=", "="} -> {n}
                  [] v.operator = ">" -> {n + 1}
                  [] OTHER -> {},
        high |-> CASE v.operator \in {"<=", "="} -> {n}
                   [] v.operator = "<" -> {n - 1}
                   [] OTHER -> {}]

(* Mutant: ranges that touch are incompatible. *)
IncompatibleAtEnds(a, b) ==
    LET ends(v, w) == \E high \in Bounds(v).high, low \in Bounds(w).low : high <= low
    IN ends(a, b) \/ ends(b, a)

Below(v, w) == \E high \in Bounds(v).high, low \in Bounds(w).low : high < low

Incompatible(a, b) == Below(a, b) \/ Below(b, a)

(* find_conflicts, for one neighbour: none, "certain" or "possible". *)
Conflict(a, b) ==
    IF /\ Comparable(a) /\ Comparable(b)
       /\ a.kind = b.kind /\ a.unit = b.unit
       /\ Incompatible(a, b)
    THEN IF a.condition = b.condition THEN "certain" ELSE "possible"
    ELSE "none"

=============================================================================
