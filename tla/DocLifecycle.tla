---------------------------- MODULE DocLifecycle ----------------------------
(***************************************************************************)
(* The life of one document in the graph: how ingestion                    *)
(* (src/ingestion/service.py), extraction (src/pipeline/service.py), the   *)
(* sync and reconcile operations over them (src/sync/service.py) and their *)
(* statements (src/graph/writer.py) bring it in line with IDU_DVD.         *)
(*                                                                         *)
(* Every operation is a sequence of awaits, and at each of them it may     *)
(* raise or the process may stop: what is in the graph then is what the    *)
(* next operation finds.  Operations of one actor follow each other (the   *)
(* sync queue has one worker); the actors of a run interleave.             *)
(*                                                                         *)
(* A text stands for its extraction: the restrictions of a clause are the  *)
(* set of texts they were extracted from, and extraction_hash is the       *)
(* identity of a text.  The content hash of an edition is its number.      *)
(***************************************************************************)
EXTENDS Naturals, Sequences, FiniteSets

CONSTANTS
    Clauses,        \* clause ids, of every edition
    Texts, NoText,  \* clause texts; the text of a clause that is not there
    Norms,          \* the texts that state a restriction
    Editions,       \* for each edition in turn, what IDU_DVD may hold of the document
    Actors,         \* the queue's worker, requests of the admin API
    Ops,            \* the operations each actor performs
    InterruptedAt,  \* where an operation may be cut short
    MaxDisturbances \* bound: operations cut short, extractions with invalid output,
                    \* re-extractions on behalf of another document

Content == [Clauses -> Texts \cup {NoText}]

OpNames == {"processed", "updated", "reconcile", "retry", "ingest", "explained",
            "link", "extract", "reextract", "backfill", "delete"}

Steps == {"guard", "fetch", "document", "clauses", "carry", "prune", "explain",
          "forget", "begin", "mark", "llm", "delete", "write", "extracted", "finish"}

ASSUME LifecycleAssumption ==
    /\ NoText \notin Texts
    /\ Norms \subseteq Texts
    /\ Editions \in Seq(SUBSET Content)
    /\ \A n \in 1..Len(Editions) : \A content \in Editions[n] :
          \E c \in Clauses : content[c] # NoText
    /\ Ops \in [Actors -> SUBSET OpNames]
    /\ InterruptedAt \in [OpNames -> SUBSET Steps]
    /\ MaxDisturbances \in Nat

VARIABLES
    dvd,        \* IDU_DVD: the edition's hash (0 before the first) and content, whether it
                \* is still held, and how many editions there were
    owed,       \* the event of the latest change that no event's sync took up yet
    doc,        \* the :Document node
    text,       \* the :Clause nodes: text,
    mark,       \* extracted_hash,
    restr,      \* and the :Restriction nodes with their clause_node_id
    run,        \* the operation each actor is performing, with its locals
    disturbances  \* counted for MaxDisturbances

graph == <<doc, text, mark, restr>>
vars == <<dvd, owed, graph, run, disturbances>>

-----------------------------------------------------------------------------
ClauseIds(content) == {c \in Clauses : content[c] # NoText}

Nothing == [c \in Clauses |-> NoText]

(* What a valid extraction of a text yields. *)
Extracted(t) == {t} \cap Norms

NoDocument == [stored |-> FALSE, hash |-> 0, incomplete |-> FALSE, failed |-> {}]

(* An operation that has not begun: the locals of every function it may call. *)
Idle == [op |-> "none", at |-> "idle",
         replace |-> FALSE, reuse |-> FALSE,               \* arguments,
         named |-> FALSE, ids |-> {},                      \* clause_ids, when given
         unchanged |-> 0,      \* the hash under which the guard of sync_document skips
         failed |-> {},        \* _retry_incomplete: the failed clauses, {} when not known
         hash |-> 0, content |-> Nothing,                  \* what IDU_DVD answered
         pruned |-> FALSE,     \* ingestion pruned clauses
         clauses |-> Nothing,  \* the clauses to extract, as they were read
         bad |-> {},           \* those whose output stayed invalid
         todo |-> {}]          \* clauses a loop has still to write

AllIdle == \A a \in Actors : run[a].at = "idle"

(* upsert_document with other properties than the hash: a MERGE. *)
Upsert(incomplete, failed) ==
    doc' = [doc EXCEPT !.stored = TRUE, !.incomplete = incomplete, !.failed = failed]

Goto(a, step) == run' = [run EXCEPT ![a].at = step]

Done(a) == run' = [run EXCEPT ![a] = Idle]

Disturbed(now) ==
    /\ now => disturbances < MaxDisturbances
    /\ disturbances' = IF now THEN disturbances + 1 ELSE disturbances

Restrictions == \E c \in Clauses : restr[c] # {}

-----------------------------------------------------------------------------
Init ==
    /\ dvd = [held |-> FALSE, editions |-> 0, hash |-> 0, content |-> Nothing]
    /\ owed = "none"
    /\ doc = NoDocument
    /\ text = Nothing
    /\ mark = Nothing
    /\ restr = [c \in Clauses |-> {}]
    /\ run = [a \in Actors |-> Idle]
    /\ disturbances = 0

-----------------------------------------------------------------------------
(* IDU_DVD indexes the document, replaces its edition, parses it again under the *)
(* same hash, relabels or removes it.                                            *)

(* Without a Kafka broker configured nobody takes up events. *)
Consumed == \E a \in Actors : {"processed", "updated"} \subseteq Ops[a]

Publish ==
    /\ dvd.editions < Len(Editions)
    /\ dvd.hash = 0 \/ dvd.held
    /\ \E content \in Editions[dvd.editions + 1], hash \in {dvd.hash, dvd.hash + 1} \ {0} :
          dvd' = [held |-> TRUE, editions |-> dvd.editions + 1,
                  hash |-> hash, content |-> content]
    /\ owed' = IF ~Consumed THEN "none" ELSE IF dvd.hash = 0 THEN "processed" ELSE "updated"
    /\ UNCHANGED <<graph, run, disturbances>>

Remove ==
    /\ dvd.held
    /\ dvd' = [dvd EXCEPT !.held = FALSE]
    /\ UNCHANGED <<owed, graph, run, disturbances>>

-----------------------------------------------------------------------------
(* How an operation begins. *)

Begins(a, op) == op \in Ops[a] /\ run[a].at = "idle"

(* The event of a first edition: sync_document(replace=False). *)
SyncProcessed(a) ==
    /\ Begins(a, "processed") /\ owed = "processed"
    /\ owed' = "none"
    /\ run' = [run EXCEPT ![a] = [Idle EXCEPT !.op = "processed", !.at = "guard"]]
    /\ UNCHANGED <<dvd, graph, disturbances>>

(* The event of a later one, merged with all before it: sync_document(replace=True). *)
SyncUpdated(a) ==
    /\ Begins(a, "updated") /\ owed = "updated"
    /\ owed' = "none"
    /\ run' = [run EXCEPT ![a] = [Idle EXCEPT !.op = "updated", !.at = "fetch",
                                              !.replace = TRUE]]
    /\ UNCHANGED <<dvd, graph, disturbances>>

(* Mutant: the incomplete marker is not looked at. *)
ReconcileByHash(a, listed) ==
    /\ Begins(a, "reconcile")
    /\ ~doc.stored \/ doc.hash # listed
    /\ run' = [run EXCEPT ![a] = [Idle EXCEPT !.op = "reconcile", !.at = "fetch",
                                              !.replace = doc.stored]]
    /\ UNCHANGED <<dvd, owed, graph, disturbances>>

(* reconcile_document with the hash and label of a listing, which may be old: the *)
(* action is decided from the stored document (_reconcile_action).                *)
Reconcile(a, listed) ==
    LET begin(r) == run' = [run EXCEPT ![a] = r]
        sync == [Idle EXCEPT !.op = "reconcile", !.at = "guard"]
    IN /\ Begins(a, "reconcile")
       /\ \/ /\ ~doc.stored
             /\ begin(sync)
          \/ /\ doc.stored /\ doc.hash # listed
             /\ begin([sync EXCEPT !.at = "fetch", !.replace = TRUE])
          \/ /\ doc.stored /\ doc.hash = listed /\ doc.incomplete
             /\ begin([sync EXCEPT !.op = "retry", !.at = "fetch", !.replace = TRUE,
                                   !.failed = doc.failed])
          \/ /\ doc.stored /\ doc.hash = listed /\ ~doc.incomplete
             /\ "ingest" \in Ops[a]
             /\ begin([sync EXCEPT !.op = "ingest", !.at = "fetch"])
       /\ UNCHANGED <<dvd, owed, graph, disturbances>>

(* _reextract, called by the sync of a document that explains this one. *)
Explained(a, ids) ==
    /\ Begins(a, "explained") /\ ids # {}
    /\ Disturbed(TRUE)
    /\ run' = [run EXCEPT ![a] = [Idle EXCEPT !.op = "explained", !.at = "forget",
                                              !.named = TRUE, !.ids = ids]]
    /\ UNCHANGED <<dvd, owed, graph>>

(* extract_document as the extraction router and the admin's reprocessing call it. *)
Extract(a, replace) ==
    LET op == IF replace THEN "reextract" ELSE "extract"
    IN /\ Begins(a, op)
       /\ run' = [run EXCEPT ![a] = [Idle EXCEPT !.op = op, !.at = "begin",
                                                 !.replace = replace]]
       /\ UNCHANGED <<dvd, owed, graph, disturbances>>

(* backfill extracts the documents without restrictions. *)
Backfill(a) ==
    /\ Begins(a, "backfill") /\ doc.stored /\ ~Restrictions
    /\ run' = [run EXCEPT ![a] = [Idle EXCEPT !.op = "backfill", !.at = "begin"]]
    /\ UNCHANGED <<dvd, owed, graph, disturbances>>

(* Mutant: what hangs on the document stays behind. *)
DeleteDocumentAlone(a) ==
    /\ Begins(a, "delete") /\ ~dvd.held /\ doc.stored
    /\ doc' = NoDocument
    /\ UNCHANGED <<dvd, owed, text, mark, restr, run, disturbances>>

(* delete_document: the document, its clauses, and the restrictions derived from them. *)
Delete(a) ==
    /\ Begins(a, "delete") /\ ~dvd.held
    /\ doc.stored
    /\ doc' = NoDocument
    /\ text' = Nothing /\ mark' = Nothing
    /\ restr' = [c \in Clauses |-> IF text[c] # NoText THEN {} ELSE restr[c]]
    /\ UNCHANGED <<dvd, owed, run, disturbances>>

-----------------------------------------------------------------------------
(* sync_document and ingest_document. *)

(* document_sync_state: the hash under which a sync will skip the extraction. *)
Guard(a) ==
    /\ run[a].at = "guard"
    /\ run' = [run EXCEPT ![a].at = "fetch",
                          ![a].unchanged = IF doc.stored /\ ~doc.incomplete /\ Restrictions
                                           THEN doc.hash ELSE 0]
    /\ UNCHANGED <<dvd, owed, graph, disturbances>>

(* dvd.get_document; a document IDU_DVD no longer holds is skipped. *)
Fetch(a) ==
    /\ run[a].at = "fetch"
    /\ IF dvd.held
       THEN run' = [run EXCEPT ![a].at = "document", ![a].hash = dvd.hash,
                               ![a].content = dvd.content,
                               ![a].todo = ClauseIds(dvd.content)]
       ELSE Done(a)
    /\ UNCHANGED <<dvd, owed, graph, disturbances>>

UpsertDocument(a) ==
    /\ run[a].at = "document"
    /\ doc' = [doc EXCEPT !.stored = TRUE, !.hash = run[a].hash]
    /\ Goto(a, "clauses")
    /\ UNCHANGED <<dvd, owed, text, mark, restr, disturbances>>

(* upsert_clause keeps the extraction mark of a clause that is there already; a clause *)
(* whose document is gone is attached to none, and nothing reads it.                   *)
UpsertClause(a, c) ==
    /\ run[a].at = "clauses" /\ c \in run[a].todo
    /\ text' = IF doc.stored THEN [text EXCEPT ![c] = run[a].content[c]] ELSE text
    /\ LET left == run[a].todo \ {c}
           next == IF run[a].replace THEN "carry" ELSE "explain"
       IN run' = [run EXCEPT ![a].todo = left,
                             ![a].at = IF left = {} THEN next ELSE "clauses"]
    /\ UNCHANGED <<dvd, owed, doc, mark, restr, disturbances>>

(* carry_unchanged_clauses: each clause of the new edition takes over the restrictions *)
(* of a dropped clause with its text, unless it was extracted from that text itself.   *)
Carry(a) ==
    LET keep   == ClauseIds(run[a].content)
        takers == {c \in keep : text[c] # NoText /\ mark[c] # text[c]}
        donors == {c \in Clauses \ keep : text[c] # NoText /\ mark[c] = text[c]}
        matches(new, old) == new \in takers /\ old \in donors /\ text[new] = text[old]
        \* each donor gives once, each taker takes once, and no more can be matched
        matchings == {M \in SUBSET {p \in takers \X donors : matches(p[1], p[2])} :
                        /\ \A p, q \in M : p[1] = q[1] <=> p[2] = q[2]
                        /\ \A new \in takers, old \in donors : matches(new, old) =>
                              \E p \in M : p[1] = new \/ p[2] = old}
    IN /\ run[a].at = "carry"
       /\ \E M \in matchings :
            LET old(c) == {p[2] : p \in {q \in M : q[1] = c}}
                gives  == {p[2] : p \in M}
                takes  == {p[1] : p \in M}
            IN /\ mark' = [c \in Clauses |-> IF c \in takes THEN text[c] ELSE mark[c]]
               /\ restr' = [c \in Clauses |->
                               IF c \in gives THEN {}
                               ELSE restr[c] \cup UNION {restr[o] : o \in old(c)}]
       /\ Goto(a, "prune")
       /\ UNCHANGED <<dvd, owed, doc, text, disturbances>>

(* prune_clauses, with the restrictions derived from them. *)
Prune(a) ==
    LET gone == {c \in Clauses : text[c] # NoText} \ ClauseIds(run[a].content)
    IN /\ run[a].at = "prune"
       /\ text' = [c \in Clauses |-> IF c \in gone THEN NoText ELSE text[c]]
       /\ mark' = [c \in Clauses |-> IF c \in gone THEN NoText ELSE mark[c]]
       /\ restr' = [c \in Clauses |-> IF c \in gone THEN {} ELSE restr[c]]
       /\ run' = [run EXCEPT ![a].at = "explain", ![a].pruned = (gone # {})]
       /\ UNCHANGED <<dvd, owed, doc, disturbances>>

(* What ingest_document returns to: sync_document links the explanations of the document *)
(* and forgets the extraction of the clauses whose explanations changed; _retry_incomplete *)
(* looks at what was pruned; a plain ingest is done.                                       *)
Link(a, own) ==
    LET r == run[a]
        extract(replace, reuse) ==
            run' = [run EXCEPT ![a].at = "begin", ![a].replace = replace, ![a].reuse = reuse]
        again(ids) ==
            run' = [run EXCEPT ![a].at = "begin", ![a].replace = FALSE,
                               ![a].named = TRUE, ![a].ids = ids]
        unchanged == ~r.replace /\ r.unchanged = r.hash
    IN /\ r.at = "explain"
       /\ own # {} => "link" \in Ops[a] /\ r.op \in {"processed", "updated", "reconcile"}
       /\ mark' = [c \in Clauses |-> IF c \in own THEN NoText ELSE mark[c]]
       /\ CASE r.op = "ingest" -> Done(a)
            [] r.op = "retry" ->
                 IF r.pruned \/ r.failed = {} THEN extract(TRUE, TRUE)
                 ELSE again(r.failed)
            [] r.op \notin {"ingest", "retry"} /\ ~unchanged -> extract(r.replace, r.replace)
            [] r.op \notin {"ingest", "retry"} /\ unchanged ->
                 IF own = {} THEN Done(a) ELSE again(own)
       /\ UNCHANGED <<dvd, owed, doc, text, restr, disturbances>>

-----------------------------------------------------------------------------
(* extract_document. *)

(* forget_extracted, before the clauses another document explains are extracted again. *)
Forget(a) ==
    /\ run[a].at = "forget"
    /\ mark' = [c \in Clauses |-> IF c \in run[a].ids THEN NoText ELSE mark[c]]
    /\ Goto(a, "begin")
    /\ UNCHANGED <<dvd, owed, doc, text, restr, disturbances>>

(* get_clauses, and the early returns. *)
Begin(a) ==
    LET r == run[a]
        present == {c \in Clauses : text[c] # NoText}
        fresh   == {c \in present : mark[c] # text[c]}
        reusing == r.reuse /\ r.replace /\ ~r.named /\ fresh # present
        chosen  == IF reusing THEN fresh
                   ELSE IF r.named THEN present \cap r.ids ELSE present
        byIds   == reusing \/ r.named
    IN /\ r.at = "begin"
       /\ \/ /\ chosen # {}
             /\ run' = [run EXCEPT ![a].at = "mark",
                                   ![a].replace = r.replace \/ byIds,
                                   ![a].named = byIds, ![a].ids = chosen,
                                   ![a].clauses = [c \in Clauses |->
                                        IF c \in chosen THEN text[c] ELSE NoText]]
             /\ UNCHANGED <<doc, restr>>
          \/ /\ chosen = {} /\ byIds
             /\ Upsert(FALSE, {})
             /\ Done(a)
             /\ UNCHANGED restr
          \/ /\ chosen = {} /\ ~byIds
             /\ restr' = IF r.replace THEN [c \in Clauses |-> {}] ELSE restr
             /\ Done(a)
             /\ UNCHANGED doc
       /\ UNCHANGED <<dvd, owed, text, mark, disturbances>>

(* Mutants: the extraction starts without the marker, or with a null in its list. *)
StartUnmarked(a) ==
    /\ run[a].at = "mark"
    /\ Goto(a, "llm")
    /\ UNCHANGED <<dvd, owed, graph, disturbances>>

MarkWithNull(a) ==
    /\ run[a].at = "mark"
    /\ Upsert(TRUE, {NoText})
    /\ Goto(a, "llm")
    /\ UNCHANGED <<dvd, owed, text, mark, restr, disturbances>>

MarkIncomplete(a) ==
    /\ run[a].at = "mark"
    /\ Upsert(TRUE, {})
    /\ Goto(a, "llm")
    /\ UNCHANGED <<dvd, owed, text, mark, restr, disturbances>>

(* Every clause goes to the extractor; the output of some stays invalid. *)
Llm(a, bad) ==
    /\ run[a].at = "llm"
    /\ bad \subseteq ClauseIds(run[a].clauses)
    /\ Disturbed(bad # {})
    /\ run' = [run EXCEPT ![a].at = "delete", ![a].bad = bad,
                          ![a].todo = ClauseIds(run[a].clauses) \ bad]
    /\ UNCHANGED <<dvd, owed, graph>>

(* Mutant: replacing drops the restrictions of every clause it was asked for. *)
DeleteOldOfFailed(a) ==
    LET dropped == IF run[a].replace THEN ClauseIds(run[a].clauses) ELSE {}
    IN /\ run[a].at = "delete"
       /\ restr' = [c \in Clauses |-> IF c \in dropped THEN {} ELSE restr[c]]
       /\ Goto(a, IF run[a].todo = {} THEN "finish" ELSE "write")
       /\ UNCHANGED <<dvd, owed, doc, text, mark, disturbances>>

(* Replacing: the previous restrictions of the clauses with a valid result go, or those *)
(* of the whole document when the whole document has one.                               *)
DeleteOld(a) ==
    LET r == run[a]
        dropped == IF ~r.replace THEN {}
                   ELSE IF r.bad = {} /\ ~r.named THEN Clauses ELSE r.todo
    IN /\ r.at = "delete"
       /\ restr' = [c \in Clauses |-> IF c \in dropped THEN {} ELSE restr[c]]
       /\ Goto(a, IF r.todo = {} THEN "finish" ELSE "write")
       /\ UNCHANGED <<dvd, owed, doc, text, mark, disturbances>>

(* upsert_restriction for what a clause states. *)
WriteClause(a, c) ==
    /\ run[a].at = "write" /\ c \in run[a].todo
    /\ restr' = [restr EXCEPT ![c] = @ \cup Extracted(run[a].clauses[c])]
    /\ LET left == run[a].todo \ {c}
       IN run' = [run EXCEPT ![a].todo = left,
                             ![a].at = IF left = {} THEN "extracted" ELSE "write"]
    /\ UNCHANGED <<dvd, owed, doc, text, mark, disturbances>>

MarkExtracted(a) ==
    LET valid == ClauseIds(run[a].clauses) \ run[a].bad
    IN /\ run[a].at = "extracted"
       /\ mark' = [c \in Clauses |-> IF c \in valid /\ text[c] # NoText
                                     THEN run[a].clauses[c] ELSE mark[c]]
       /\ Goto(a, "finish")
       /\ UNCHANGED <<dvd, owed, doc, text, restr, disturbances>>

(* Mutant: a partial extraction counts as one. *)
FinishPartial(a) ==
    /\ run[a].at = "finish"
    /\ Upsert(FALSE, run[a].bad)
    /\ Done(a)
    /\ UNCHANGED <<dvd, owed, text, mark, restr, disturbances>>

Finish(a) ==
    /\ run[a].at = "finish"
    /\ Upsert(run[a].bad # {}, run[a].bad)
    /\ Done(a)
    /\ UNCHANGED <<dvd, owed, text, mark, restr, disturbances>>

-----------------------------------------------------------------------------
(* Mutant: the job of an event is not tried again. *)
InterruptForGood(a) ==
    /\ run[a].at # "idle"
    /\ run[a].at \in InterruptedAt[run[a].op]
    /\ Disturbed(TRUE)
    /\ Done(a)
    /\ UNCHANGED <<dvd, owed, graph>>

(* An await raises or the process stops.  The queue tries the job of an event again; *)
(* that of reconcile decides anew; nobody repeats a request of the admin.            *)
Interrupt(a) ==
    /\ run[a].at # "idle"
    /\ run[a].at \in InterruptedAt[run[a].op]
    /\ Disturbed(TRUE)
    /\ owed' = IF owed = "none" /\ run[a].op \in {"processed", "updated"}
               THEN run[a].op ELSE owed
    /\ Done(a)
    /\ UNCHANGED <<dvd, graph>>

IduDvd == Publish \/ Remove

Call(a) ==
    \/ SyncProcessed(a) \/ SyncUpdated(a) \/ Backfill(a) \/ Delete(a)
    \/ \E listed \in 1..dvd.hash : Reconcile(a, listed)
    \/ \E ids \in SUBSET Clauses : Explained(a, ids)
    \/ \E replace \in BOOLEAN : Extract(a, replace)

Ingestion(a) ==
    \/ Guard(a) \/ Fetch(a) \/ UpsertDocument(a) \/ Carry(a) \/ Prune(a)
    \/ \E c \in Clauses : UpsertClause(a, c)
    \/ \E own \in SUBSET {c \in Clauses : text[c] # NoText} : Link(a, own)

Extraction(a) ==
    \/ Forget(a) \/ Begin(a) \/ MarkIncomplete(a) \/ DeleteOld(a)
    \/ MarkExtracted(a) \/ Finish(a)
    \/ \E bad \in SUBSET Clauses : Llm(a, bad)
    \/ \E c \in Clauses : WriteClause(a, c)

Next == \/ IduDvd
        \/ \E a \in Actors : Call(a) \/ Ingestion(a) \/ Extraction(a) \/ Interrupt(a)

Spec == Init /\ [][Next]_vars

(* Started operations go on, the queue runs its jobs, and reconcile passes keep  *)
(* coming: one at every start of the application, others by the admin.           *)
FairSpec == /\ Spec
            /\ \A a \in Actors : /\ WF_vars(Ingestion(a) \/ Extraction(a))
                                 /\ SF_vars(SyncProcessed(a) \/ SyncUpdated(a))
            /\ SF_vars(\E a \in Actors : Reconcile(a, dvd.hash))
            /\ SF_vars(\E a \in Actors : Delete(a))

-----------------------------------------------------------------------------
RunType ==
    [op : OpNames \cup {"none"}, at : Steps \cup {"idle"},
     replace : BOOLEAN, reuse : BOOLEAN, named : BOOLEAN, ids : SUBSET Clauses,
     unchanged : Nat, failed : SUBSET Clauses, hash : Nat, content : Content,
     pruned : BOOLEAN, clauses : Content, bad : SUBSET Clauses, todo : SUBSET Clauses]

TypeOK ==
    /\ dvd \in [held : BOOLEAN, editions : Nat, hash : Nat, content : Content]
    /\ owed \in {"none", "processed", "updated"}
    /\ doc \in [stored : BOOLEAN, hash : Nat, incomplete : BOOLEAN, failed : SUBSET Clauses]
    /\ text \in Content /\ mark \in Content
    /\ restr \in [Clauses -> SUBSET Texts]
    /\ run \in [Actors -> RunType]
    /\ disturbances \in 0..MaxDisturbances

-----------------------------------------------------------------------------
(* The graph has the current edition, and of every clause exactly its restrictions. *)
Whole ==
    /\ doc.stored /\ doc.hash = dvd.hash
    /\ text = dvd.content
    /\ \A c \in Clauses : restr[c] = Extracted(text[c])

(***************************************************************************)
(* A document that passes for unchanged is whole: when no event of it is   *)
(* waiting and no operation runs, a stored document with the current hash  *)
(* and without the incomplete marker - the one reconcile leaves alone and  *)
(* sync_document skips - has the current clauses, the restrictions of each *)
(* and no others.  "Persist before starting: cancellation/storage errors   *)
(* must not make a partial document pass the unchanged-content sync guard  *)
(* on the next run" (pipeline/service.py:234-235).                         *)
(***************************************************************************)
UnchangedIsWhole ==
    dvd.held /\ owed = "none" /\ AllIdle
        /\ doc.stored /\ doc.hash = dvd.hash /\ ~doc.incomplete
    => Whole

(***************************************************************************)
(* A clause that stays loses a restriction only to a valid new result of   *)
(* its own: "a clause's old restrictions are dropped only once its new LLM *)
(* output is valid" (pipeline.md:315-316), whatever else is pruned,        *)
(* carried over, or fails in the same run.                                 *)
(***************************************************************************)
LostOnlyToNewResult ==
    [][\A c \in Clauses :
         text'[c] # NoText /\ ~(restr[c] \subseteq restr'[c]) =>
            \/ \E a \in Actors : run[a].clauses[c] # NoText /\ c \notin run[a].bad
            \/ \E o \in Clauses \ {c} : text[o] = text[c] /\ restr[c] \subseteq restr'[o]
      ]_vars

(***************************************************************************)
(* Whatever was interrupted or failed, repeated reconcile passes and       *)
(* retried jobs end with the whole document, again and again: no document  *)
(* stays incomplete for good (pipeline.md:376-379).                        *)
(***************************************************************************)
AlwaysWholeAgain == []<>(dvd.held => Whole)

(***************************************************************************)
(* A document gone from IDU_DVD is forgotten with everything stored of it  *)
(* (delete_document: "Delete a document with its clauses and their         *)
(* restrictions", writer.py:948), also when it went while a sync of it was *)
(* in progress, which goes on writing what it had read.                    *)
(***************************************************************************)
RemovedIsForgotten ==
    (dvd.hash # 0 /\ ~dvd.held) ~> (~doc.stored /\ text = Nothing /\ ~Restrictions)
=============================================================================
