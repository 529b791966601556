---------------------------- MODULE KindMaintenance ----------------------------
(***************************************************************************)
(* The upkeep of stored restrictions: the consolidation of their kinds     *)
(* (src/pipeline/kind_consolidation.py, src/pipeline/vocabulary.py), a     *)
(* manual operation of the admin, and the re-embedding passes that run in  *)
(* the background (src/pipeline/restriction_reembed.py), beside the        *)
(* extractions of the queue, which write and delete restrictions all the   *)
(* while: the lock of the manual operations (BatchLock) does not keep them *)
(* out, only a second consolidation.                                       *)
(*                                                                         *)
(* A restriction is its label, its kind, the kind that its vector embeds   *)
(* and the version of that vector.  What extractions write and delete,     *)
(* failures and restarts are MaxEvents in all.                             *)
(***************************************************************************)
EXTENDS Integers, FiniteSets, Sequences, TLC

CONSTANTS
    Ids,            \* restrictions, by number
    Listed,         \* KINDS, but for
    Other,          \* "other" (OTHER), which is listed as well
    Labels,         \* what the model calls kinds, the kinds of earlier versions among them
    Rule,           \* [Labels -> Listed \cup {Other}]: classify_kind
    Near,           \* [Labels -> kinds by similarity, as [kind, close]]: the vector index
    TopK,           \* how many of them nearest() returns
    Hashed,         \* [Ids -> kinds]: the kind that the id of a restriction is a hash of
    Stored,         \* what may be stored at first
    Passes,         \* re-embedding passes, "startup" among them
    Page, Batch,    \* sizes of the pages of a pass and of the writes of a consolidation
    MaxEvents

VARIABLES
    stored,         \* [Ids -> None or restriction]
    kinds,          \* names of the :RestrictionKind nodes
    op,             \* the consolidation: [phase, rows, todo, changed]
    pass,           \* [Passes -> [phase, after, page]]
    events,         \* extractions, deletions, failures and restarts so far
    cut,            \* a pass or a consolidation failed since the last start
    overlap         \* restrictions whose kind was changed under a pass that had read them

vars == <<stored, kinds, op, pass, events, cut, overlap>>

None == << >>
NoLabel == "none"

AllKinds == Listed \cup {Other}
Restriction == [label : Labels \cup {NoLabel}, kind : Labels \cup AllKinds,
                vector : Labels \cup AllKinds, version : {"old", "zero", "current"}]

(* A restriction of an earlier version has no label: its kind is what the model called it. *)
Row == {x \in Restriction : x.label = NoLabel => x.kind \in Labels}

IsRows(rows) == /\ rows = [r \in Ids |-> rows[r]]
                /\ \A r \in Ids : rows[r] # None => rows[r] = <<rows[r][1]>> /\ rows[r][1] \in Row

ASSUME KindsAssumption == Rule \in [Labels -> AllKinds] /\ NoLabel \notin Labels

ASSUME StoredAssumption ==
    \A rows \in Stored :
        /\ IsRows(rows)
        /\ \A r \in Ids : rows[r] # None /\ rows[r][1].version = "current"
                          => rows[r][1].vector = rows[r][1].kind

Present == {r \in Ids : stored[r] # None}
At(r) == stored[r][1]

NoOp == [phase |-> "none", rows |-> None, todo |-> {}, changed |-> FALSE]
NoPass == [phase |-> "off", after |-> 0, page |-> {}]
FirstRead == [phase |-> "read", after |-> 0, page |-> {}]

(* Types; and every kind that is listed or that a restriction has keeps its node, without *)
(* which update_restriction_kinds and upsert_restriction would write no OF_KIND edge.      *)
TypeOK ==
    /\ IsRows(stored)
    /\ AllKinds \cup {At(r).kind : r \in Present} \subseteq kinds
    /\ kinds \subseteq Labels \cup AllKinds
    /\ op.phase \in {"none", "read", "classify", "write", "remove", "end"}
    /\ \A p \in Passes : pass[p].phase \in {"off", "read", "embed"}

(* The kinds are seeded and the pass of the start runs from the first. *)
Init ==
    /\ stored \in Stored
    /\ kinds = AllKinds \cup {At(r).kind : r \in Present}
    /\ op = NoOp
    /\ pass = [p \in Passes |-> IF p = "startup" THEN FirstRead ELSE NoPass]
    /\ events = 0
    /\ cut = FALSE
    /\ overlap = {}

Event == /\ events < MaxEvents
         /\ events' = events + 1

-----------------------------------------------------------------------------
(* Kinds. *)

(* resolve of vocabulary.py: the rules, then the nearest listed kind, if it is close and *)
(* among the TopK nearest kinds that there are.                                           *)
Resolve(label) ==
    LET near == Near[label]
        nearest == {i \in DOMAIN near :
                       /\ near[i].kind \in Listed /\ near[i].close
                       /\ Cardinality({j \in 1..i : near[j].kind \in kinds}) <= TopK
                       /\ \A j \in 1..i-1 : near[j].kind \notin Listed}
    IN IF Rule[label] # Other THEN Rule[label]
       ELSE IF nearest # {} THEN near[CHOOSE i \in nearest : TRUE].kind
       ELSE Other

Label(row) == IF row.label = NoLabel THEN row.kind ELSE row.label

-----------------------------------------------------------------------------
(* Extractions, which the lock does not keep out: those of the queue. *)

(* Restrictions of a page that a pass holds, that are to be of another kind by now. *)
Overtaken(of) == {x.id : x \in {y \in UNION {pass[p].page : p \in Passes} :
                                   y.id \in DOMAIN of /\ of[y.id] # y.kind}}

(* _write_restriction and upsert_restriction: the id is a hash of the kind as well. *)
Extract(r, label) ==
    /\ Resolve(label) = Hashed[r]
    /\ Event
    /\ stored' = [stored EXCEPT ![r] = <<[label |-> label, kind |-> Hashed[r],
                                          vector |-> Hashed[r], version |-> "current"]>>]
    /\ overlap' = overlap \cup Overtaken([i \in {r} |-> Hashed[i]])
    /\ UNCHANGED <<kinds, op, pass, cut>>

Delete(r) ==
    /\ r \in Present
    /\ Event
    /\ stored' = [stored EXCEPT ![r] = None]
    /\ UNCHANGED <<kinds, op, pass, cut, overlap>>

-----------------------------------------------------------------------------
(* The consolidation. *)

Consolidate ==
    /\ op = NoOp
    /\ op' = [NoOp EXCEPT !.phase = "read"]
    /\ kinds' = kinds \cup AllKinds
    /\ UNCHANGED <<stored, pass, events, cut, overlap>>

(* restrictions_for_consolidation. *)
ReadRows ==
    /\ op.phase = "read"
    /\ op' = [op EXCEPT !.phase = "classify", !.rows = stored]
    /\ UNCHANGED <<stored, kinds, pass, events, cut, overlap>>

Target(r, row) == [id |-> r, label |-> Label(row), kind |-> Resolve(Label(row))]

(* What changes of the rows that were read. *)
Classify ==
    /\ op.phase = "classify"
    /\ LET row(r) == op.rows[r][1]
           targets == {Target(r, row(r)) : r \in {i \in Ids : op.rows[i] # None}}
           todo == {t \in targets : t.label # row(t.id).label \/ t.kind # row(t.id).kind}
       IN op' = [op EXCEPT !.phase = IF todo = {} THEN "remove" ELSE "write",
                           !.rows = None, !.todo = todo,
                           !.changed = \E t \in todo : t.kind # row(t.id).kind]
    /\ UNCHANGED <<stored, kinds, pass, events, cut, overlap>>

(* Mutant: the vector of a restriction whose kind changes is not marked. *)
UpdatedUnmarked(row, to) == [row EXCEPT !.kind = to.kind, !.label = to.label]

(* update_restriction_kinds, for one row. *)
Updated(row, to) == [row EXCEPT !.kind = to.kind, !.label = to.label,
                                !.version = IF row.kind # to.kind THEN "zero" ELSE @]

FirstOf(S, n) == {t \in S : Cardinality({u \in S : u.id < t.id}) < n}

(* One batch of writes; the rows that are gone by now match nothing. *)
WriteKinds ==
    /\ op.phase = "write"
    /\ LET batch == FirstOf(op.todo, Batch)
           hit == {t \in batch : stored[t.id] # None}
           to(r) == CHOOSE t \in hit : t.id = r
       IN /\ stored' = [r \in Ids |-> IF r \in {t.id : t \in hit} THEN <<Updated(At(r), to(r))>>
                                      ELSE stored[r]]
          /\ overlap' = overlap \cup Overtaken([r \in {t.id : t \in hit} |-> to(r).kind])
          /\ op' = [op EXCEPT !.todo = @ \ batch,
                              !.phase = IF op.todo = batch THEN "remove" ELSE "write"]
    /\ UNCHANGED <<kinds, pass, events, cut>>

(* Mutant: listed kinds that no restriction has go as well. *)
KindsInUse == {At(r).kind : r \in Present}

KindsKept == AllKinds \cup {At(r).kind : r \in Present}

(* remove_unlisted_kinds. *)
RemoveKinds ==
    /\ op.phase = "remove"
    /\ kinds' = kinds \cap KindsKept
    /\ op' = [op EXCEPT !.phase = "end"]
    /\ UNCHANGED <<stored, pass, events, cut, overlap>>

(* The answer of the endpoint: changed kinds are embedded anew by a pass of their own, *)
(* and the lock is given back.                                                           *)
EndConsolidation ==
    /\ op.phase = "end"
    /\ op' = NoOp
    /\ \/ op.changed /\ \E p \in Passes \ {"startup"} :
             pass[p].phase = "off" /\ pass' = [pass EXCEPT ![p] = FirstRead]
       \/ ~op.changed /\ UNCHANGED pass
    /\ UNCHANGED <<stored, kinds, events, cut, overlap>>

(* A statement or the embedder fails: the endpoint answers with an error. *)
ConsolidationFails ==
    /\ op.phase \in {"read", "classify", "write", "remove"}
    /\ Event
    /\ op' = NoOp
    /\ cut' = TRUE
    /\ UNCHANGED <<stored, kinds, pass, overlap>>

-----------------------------------------------------------------------------
(* A re-embedding pass, page by page. *)

(* restrictions_with_stale_embedding. *)
Stale(after) == {r \in Present : At(r).version # "current" /\ r > after}

ReadPage(p) ==
    /\ pass[p].phase = "read"
    /\ LET page == FirstOf({[id |-> r, kind |-> At(r).kind] : r \in Stale(pass[p].after)}, Page)
       IN pass' = [pass EXCEPT ![p] = IF page = {} THEN NoPass
                                      ELSE [phase |-> "embed", after |-> @.after, page |-> page]]
    /\ UNCHANGED <<stored, kinds, op, events, cut, overlap>>

LastId(page) == CHOOSE i \in {x.id : x \in page} : \A x \in page : x.id <= i

(* Mutant: the pass ends with its first full page. *)
PassAfterOnePage(page) == IF Cardinality(page) < Page
                          THEN [FirstRead EXCEPT !.after = LastId(page)] ELSE NoPass

(* next_after_id: a page that is not full is the last one. *)
PassAfter(page) == IF Cardinality(page) = Page
                   THEN [FirstRead EXCEPT !.after = LastId(page)] ELSE NoPass

(* set_restriction_embeddings, for one row: the vector, and the version of its text. *)
Embedded(row, kind) == [row EXCEPT !.vector = kind, !.version = "current"]

(* The texts were embedded, and the vectors are written. *)
WriteVectors(p) ==
    /\ pass[p].phase = "embed"
    /\ LET page == pass[p].page
           hit == {x \in page : stored[x.id] # None}
           of(r) == CHOOSE x \in hit : x.id = r
       IN /\ stored' = [r \in Ids |-> IF r \in {x.id : x \in hit}
                                      THEN <<Embedded(At(r), of(r).kind)>>
                                      ELSE stored[r]]
          /\ pass' = [pass EXCEPT ![p] = PassAfter(page)]
    /\ UNCHANGED <<kinds, op, events, cut, overlap>>

(* The embedder or the graph fails: the pass ends, and what is stale stays so. *)
PassFails(p) ==
    /\ pass[p].phase # "off"
    /\ Event
    /\ pass' = [pass EXCEPT ![p] = NoPass]
    /\ cut' = TRUE
    /\ UNCHANGED <<stored, kinds, op, overlap>>

(* The process ends in the middle of anything, and starts again. *)
Restart ==
    /\ Event
    /\ op' = NoOp
    /\ kinds' = kinds \cup AllKinds
    /\ pass' = [p \in Passes |-> IF p = "startup" THEN FirstRead ELSE NoPass]
    /\ cut' = FALSE
    /\ UNCHANGED <<stored, overlap>>

Consolidation == ReadRows \/ Classify \/ WriteKinds \/ RemoveKinds \/ EndConsolidation

Reembedding(p) == ReadPage(p) \/ WriteVectors(p)

Next ==
    \/ Consolidation \/ Consolidate \/ ConsolidationFails \/ Restart
    \/ \E p \in Passes : Reembedding(p)
    \/ \E r \in Ids : Delete(r) \/ \E label \in Labels : Extract(r, label)
    \/ \E p \in Passes : PassFails(p)

(* What was begun goes on: the event loop is fair to every step of it. *)
Spec == /\ Init /\ [][Next]_vars
        /\ WF_vars(Consolidation) /\ \A p \in Passes : WF_vars(Reembedding(p))

-----------------------------------------------------------------------------
(* A vector that counts as current embeds the kind of its restriction, except where the *)
(* kind was changed between the read and the write of a re-embedding page                *)
(* (update_restriction_kinds, upsert_restriction and set_restriction_embeddings).                            *)
VectorEmbedsKind ==
    \A r \in Present \ overlap : At(r).version = "current" => At(r).vector = At(r).kind

(* A vector that is stale, of a former text or of a former kind, is embedded anew, or its *)
(* restriction goes, unless something failed since the last start: the pass of the next     *)
(* start then finds it (run_on_startup, consolidate_kinds).                                 *)
VectorsCatchUp ==
    \A r \in Ids : (stored[r] # None /\ At(r).version # "current")
                      ~> (stored[r] = None \/ At(r).version = "current" \/ cut)

=============================================================================
