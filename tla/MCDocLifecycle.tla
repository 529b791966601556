--------------------------- MODULE MCDocLifecycle ---------------------------
(***************************************************************************)
(* Instances of DocLifecycle for TLC.                                      *)
(***************************************************************************)
EXTENDS DocLifecycle

CONSTANTS c1, c2, c3, a, b, worker, admin

Edition(pairs) == [c \in Clauses |-> IF \E p \in pairs : p[1] = c
                                     THEN (CHOOSE p \in pairs : p[1] = c)[2] ELSE NoText]

(* A new edition brings its clauses under new ids: c3 repeats the text of c1. *)
NewIds == <<{Edition({<<c1, a>>, <<c2, b>>})},
            {Edition({<<c3, a>>, <<c2, b>>}), Edition({<<c3, a>>})},
            {Edition({<<c3, a>>}), Edition({<<c2, b>>})}>>

TwoEditions == SubSeq(NewIds, 1, 2)

(* A clause keeps its id while its text becomes that of a dropped one. *)
EditedInPlace == <<{Edition({<<c1, a>>, <<c2, b>>})}, {Edition({<<c2, a>>})}>>

(* One edition of one clause. *)
OneClause == <<{Edition({<<c1, a>>})}>>

(* A clause id goes and comes back with its text. *)
BroughtBack == <<{Edition({<<c1, a>>, <<c2, b>>})}, {Edition({<<c3, a>>})},
                 {Edition({<<c1, a>>})}>>

(* Every operation but the re-extraction another document's explanations ask for. *)
EverythingButNamed == [x \in Actors |-> OpNames \ {"explained"}]

(* The sync queue's own jobs, without the admin's requests to extract. *)
QueueOnly == [x \in Actors |-> OpNames \ {"extract", "reextract", "backfill"}]

(* No Kafka broker: reconcile keeps the graph current. *)
ReconcileOnly == [x \in Actors |-> {"reconcile", "delete"}]

(* A reconcile pass deletes what is gone while the worker runs the queue's jobs. *)
PassBesideQueue == [x \in Actors |-> IF x = worker THEN {"processed", "updated", "reconcile"}
                                     ELSE {"delete"}]

(* Where an operation may be cut short: at every step, or at none. *)
Anywhere == [op \in OpNames |-> Steps]
Nowhere == [op \in OpNames |-> {}]

(* Or in one place: between the clauses of an ingestion, between carrying restrictions *)
(* over and pruning, between deleting restrictions and writing the last of them.       *)
BetweenClauses == [op \in OpNames |-> {"clauses"}]
BeforePruning == [op \in OpNames |-> {"prune"}]
BetweenWrites == [op \in OpNames |-> {"write"}]
=============================================================================
