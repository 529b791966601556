------------------------------ MODULE SyncQueue ------------------------------
(***************************************************************************)
(* The newest-first queue of pending IDU_DVD -> graph syncs                *)
(* (src/sync/queue.py), fed by the Kafka handlers (src/sync/consumer.py)   *)
(* and running its jobs through sync_name and delete_name                  *)
(* (src/sync/service.py).                                                  *)
(*                                                                         *)
(* External parties are modelled from how the code uses them: IDU_DVD      *)
(* changes its documents and announces every change on one partition of    *)
(* document.events; Kafka delivers the partition in order, one event at a  *)
(* time, again after a restart when its offset was not committed; Neo4j    *)
(* keeps the :SyncJob nodes, each written by a statement in a session of   *)
(* its own that commits some time after it is sent, so that two statements *)
(* on one node commit in either order.                                     *)
(*                                                                         *)
(* Time is counted in events: the broker timestamp of an event, and the    *)
(* edition of a document it announces, is its position in the partition.   *)
(***************************************************************************)
EXTENDS Naturals, Sequences, FiniteSets, SequencesExt

CONSTANTS
    Docs,          \* document identifiers; the versions of one document are several
    NameOf, ScopeOf, \* the registry name and the scope (user, scenario) of a document
    Shared,        \* the scope of the shared corpus
    NoJob, NoDoc,  \* None
    MaxEvents,     \* bounds of a run: events published,
    MaxFailures,   \* runs of a job that raise, by the part of the job that does,
    MaxFaults,     \* unreachable Neo4j, by what meets it,
    MaxCrashes,    \* and stops of the process
    FloatExponents \* 2 ** n fits a float iff n < FloatExponents (1024 in CPython)

KeyOf == [d \in Docs |-> [name |-> NameOf[d], scope |-> ScopeOf[d]]]

(* SyncJob.key of every document there is. *)
Keys == {KeyOf[d] : d \in Docs}

DocsOf(k) == {d \in Docs : KeyOf[d] = k}

(* The fields of a SyncJob.  A version label is the document it labels. *)
Job == [key : Keys, changed_at : Nat, sync : BOOLEAN, replace : BOOLEAN,
        delete_all : BOOLEAN, delete_versions : SUBSET Docs, attempts : Nat]

(* DocumentProcessed, DocumentUpdated and DocumentDeleted. *)
Event == [kind : {"processed", "updated", "deleted"}, key : Keys,
          versions_removed : SUBSET Docs, document_removed : BOOLEAN]

(* A statement in flight: what it makes of the :SyncJob node of its key, *)
(* and the coroutine that awaits it.                                     *)
Write == {w \in [key : Keys, value : Job \cup {NoJob}, by : {"consumer", "retry", "worker"}] :
            w.value # NoJob => w.value.key = w.key}

DocState == [edition : Nat, state : {"whole", "partial", "stale"}]

Absent == [edition |-> 0, state |-> "whole"]

(* The parts of a job that may raise; what may meet an unreachable Neo4j. *)
Parts == {"delete", "sync"}
Callers == {"consumer", "retry", "worker", "start"}

ASSUME ConstantsAssumption ==
    /\ NoJob \notin Job
    /\ NoDoc \notin Docs
    /\ {MaxEvents, MaxCrashes, FloatExponents} \subseteq Nat
    /\ MaxFailures \in [Parts -> Nat]
    /\ MaxFaults \in [Callers -> Nat]

VARIABLES
    dvd,        \* IDU_DVD: the edition of each document, 0 for none
    log,        \* Kafka: the events published so far
    committed,  \* Kafka: the committed offset
    received,   \* the last event a handler was given
    jobs,       \* SyncQueue._jobs
    retries,    \* the jobs of SyncQueue._retries, asleep before their requeue
    wakeup,     \* SyncQueue._wakeup
    worker,     \* where the worker task is
    current,    \* the job the worker executes
    todo,       \* sync_name: the documents the name resolved to, still to sync
    ingesting,  \* sync_name: the document in work and the edition fetched of it
    edition,
    writes,     \* statements on :SyncJob nodes in flight, oldest first
    store,      \* Neo4j: the :SyncJob nodes
    overtaken,  \* observations: keys whose latest statement committed before an older one,
    lost,       \* and keys of which that was so when the process stopped
    graph,      \* Neo4j: what is stored of each document
    failures,   \* runs that raised, by part; "overflow" for those never retried
    faults,     \* statements that met an unreachable Neo4j
    crashes     \* stops so far

external == <<dvd, log>>
kafka    == <<committed, received>>
queue    == <<jobs, retries, wakeup>>
work     == <<worker, current, todo, ingesting, edition>>
neo4j    == <<writes, store, overtaken, lost>>
bounds   == <<failures, faults, crashes>>
vars     == <<external, kafka, queue, work, neo4j, graph, bounds>>

-----------------------------------------------------------------------------
Max2(a, b) == IF a >= b THEN a ELSE b

HasDeletes(job) == job.delete_all \/ job.delete_versions # {}

(* Faulty variants, each defined before the operator it stands in for, show *)
(* which bugs the properties at the end would find.                         *)

(* Faulty: the later event decides alone whether to sync. *)
MergeForgetsSync(job, later) ==
    [job EXCEPT
        !.changed_at = Max2(@, later.changed_at),
        !.delete_all = @ \/ later.delete_all,
        !.delete_versions = IF later.delete_all THEN {} ELSE @ \cup later.delete_versions,
        !.sync = later.sync,
        !.replace = later.replace]

(* SyncJob.merge: fold `later` into the waiting job. *)
Merge(job, later) ==
    [job EXCEPT
        !.changed_at = Max2(@, later.changed_at),
        !.delete_all = @ \/ later.delete_all,
        !.delete_versions = IF later.delete_all THEN {}
                            ELSE IF job.delete_all THEN @
                            ELSE @ \cup later.delete_versions,
        !.sync = (@ /\ ~later.delete_all) \/ later.sync,
        !.replace = (@ /\ ~later.delete_all) \/ (later.sync /\ later.replace)]

(* The job a handler makes of the event at offset i. *)
JobOf(i) ==
    [key |-> log[i].key, changed_at |-> i,
     sync |-> log[i].kind # "deleted", replace |-> log[i].kind = "updated",
     delete_all |-> log[i].document_removed,
     delete_versions |-> IF log[i].document_removed THEN {} ELSE log[i].versions_removed,
     attempts |-> 0]

(* SyncQueue.put up to the await: the job waits in memory, its statement is sent. *)
Put(job, by) ==
    LET waiting == jobs[job.key]
        merged  == IF waiting = NoJob THEN job ELSE Merge(waiting, job)
    IN /\ jobs' = [jobs EXCEPT ![job.key] = merged]
       /\ writes' = Append(writes, [key |-> job.key, value |-> merged, by |-> by])
       /\ overtaken' = overtaken \ {job.key}
       /\ UNCHANGED <<store, lost>>

(* Faulty: the name alone decides. *)
StoredByNameInAnyScope(k) == {d \in Docs : graph[d].edition # 0 /\ NameOf[d] = k.name}

(* The documents a name reaches: without a user the scope is no filter. *)
Reach(k) == {d \in Docs : NameOf[d] = k.name /\ (k.scope # Shared => ScopeOf[d] = k.scope)}

(* documents_by_name: the stored documents a deletion of key k looks at. *)
StoredByName(k) == {d \in Reach(k) : graph[d].edition # 0}

(* The targets of delete_name. *)
Targets(job) ==
    {d \in StoredByName(job.key) : job.delete_all \/ d \in job.delete_versions}

(* What a sync that ran to its end leaves of a document stored as `old`: without *)
(* replace nothing is pruned, and the clauses of an earlier edition stay.        *)
Synced(old, e, replace) ==
    [edition |-> e,
     state |-> IF replace \/ (old.edition \in {0, e} /\ old.state # "stale")
               THEN "whole" ELSE "stale"]

(* What a sync that raised half-way leaves. *)
HalfSynced(old, e) ==
    [edition |-> e,
     state |-> IF old.edition \in {0, e} /\ old.state # "stale"
               THEN "partial" ELSE "stale"]

(* What the operation in work may have left in the graph when it is cut short. *)
CutShort ==
    IF worker = "deleting"
    THEN {[d \in Docs |-> IF d \in done THEN Absent ELSE graph[d]] :
            done \in SUBSET Targets(current)}
    ELSE IF ingesting # NoDoc
    THEN {graph, [graph EXCEPT ![ingesting] = HalfSynced(@, edition)]}
    ELSE {graph}

-----------------------------------------------------------------------------
Init ==
    /\ dvd = [d \in Docs |-> 0]
    /\ log = <<>>
    /\ committed = 0 /\ received = 0
    /\ jobs = [k \in Keys |-> NoJob]
    /\ retries = {}
    /\ wakeup = FALSE
    /\ worker = "ready" /\ current = NoJob
    /\ todo = {} /\ ingesting = NoDoc /\ edition = 0
    /\ writes = <<>>
    /\ store = [k \in Keys |-> NoJob]
    /\ overtaken = {} /\ lost = {}
    /\ graph = [d \in Docs |-> Absent]
    /\ failures = [p \in Parts \cup {"overflow"} |-> 0]
    /\ faults = [c \in Callers |-> 0]
    /\ crashes = 0

-----------------------------------------------------------------------------
(* IDU_DVD: every change of its documents, published after it is visible. *)

Publish(kind, k, versions, removed) ==
    /\ Len(log) < MaxEvents
    /\ log' = Append(log, [kind |-> kind, key |-> k, versions_removed |-> versions,
                           document_removed |-> removed])
    /\ UNCHANGED <<kafka, queue, work, neo4j, graph, bounds>>

(* The first version of a document is indexed; then a version is added or reloaded. *)
Index(d) ==
    LET first == \A o \in DocsOf(KeyOf[d]) : dvd[o] = 0
    IN /\ dvd' = [dvd EXCEPT ![d] = Len(log) + 1]
       /\ Publish(IF first THEN "processed" ELSE "updated", KeyOf[d], {}, FALSE)

(* Some or all versions of a document are removed. *)
Unregister(k, gone) ==
    LET held == {d \in DocsOf(k) : dvd[d] # 0}
    IN /\ gone # {} /\ gone \subseteq held
       /\ dvd' = [d \in Docs |-> IF d \in gone THEN 0 ELSE dvd[d]]
       /\ Publish("deleted", k, gone, gone = held)

IduDvd == \/ \E d \in Docs : Index(d)
          \/ \E k \in Keys : \E gone \in SUBSET DocsOf(k) : Unregister(k, gone)

-----------------------------------------------------------------------------
(* The Kafka handlers and the retry tasks: both schedule work with put. *)

Up == worker # "off"

(* Faulty: the consumer does not wait for the handler before the next event. *)
ReceiveWithoutWaiting ==
    /\ Up
    /\ received < Len(log)
    /\ received' = received + 1
    /\ Put(JobOf(received + 1), "consumer")
    /\ UNCHANGED <<external, committed, retries, wakeup, work, graph, bounds>>

(* Faulty: the offset is committed when the event is received. *)
ReceiveCommittingFirst ==
    /\ Up
    /\ received = committed
    /\ received < Len(log)
    /\ received' = received + 1 /\ committed' = received + 1
    /\ Put(JobOf(received + 1), "consumer")
    /\ UNCHANGED <<external, retries, wakeup, work, graph, bounds>>

(* A handler is given the next event and puts its job; the offset waits for it. *)
Receive ==
    /\ Up
    /\ received = committed
    /\ received < Len(log)
    /\ received' = received + 1
    /\ Put(JobOf(received + 1), "consumer")
    /\ UNCHANGED <<external, committed, retries, wakeup, work, graph, bounds>>

(* _requeue after its sleep.  The pause is not modelled: any length is possible. *)
Retry(job) ==
    /\ Up
    /\ job \in retries
    /\ retries' = retries \ {job}
    /\ Put(job, "retry")
    /\ UNCHANGED <<external, kafka, wakeup, work, graph, bounds>>

(* The latest statement on its node, while an older one is still in flight. *)
Overtakes(i) ==
    /\ \E h \in 1..(i - 1) : writes[h].key = writes[i].key
    /\ \A j \in (i + 1)..Len(writes) : writes[j].key # writes[i].key

Observed(i) == /\ overtaken' = IF Overtakes(i) THEN overtaken \cup {writes[i].key} ELSE overtaken
               /\ UNCHANGED lost

(* Faulty: a retried job does not wake the worker. *)
CommitWithoutWakingForRetries(i) ==
    /\ Observed(i)
    /\ store' = [store EXCEPT ![writes[i].key] = writes[i].value]
    /\ writes' = RemoveAt(writes, i)
    /\ worker' = IF writes[i].by = "worker" THEN "ready" ELSE worker
    /\ wakeup' = (wakeup \/ writes[i].by = "consumer")
    /\ committed' = IF writes[i].by = "consumer" THEN received ELSE committed
    /\ UNCHANGED <<external, received, jobs, retries, current, todo, ingesting, edition,
                   graph, bounds>>

(* A statement commits and its coroutine resumes: put sets the wakeup event (and the *)
(* consumer commits the offset); the worker goes for its next job.                   *)
Commit(i) ==
    /\ Observed(i)
    /\ store' = [store EXCEPT ![writes[i].key] = writes[i].value]
    /\ writes' = RemoveAt(writes, i)
    /\ IF writes[i].by = "worker"
       THEN worker' = "ready" /\ UNCHANGED wakeup
       ELSE wakeup' = TRUE /\ UNCHANGED worker
    /\ committed' = IF writes[i].by = "consumer" THEN received ELSE committed
    /\ UNCHANGED <<external, received, jobs, retries, current, todo, ingesting, edition,
                   graph, bounds>>

(* Neo4j is unreachable and the statement raises.  A put leaves its job in memory and *)
(* does not reach wakeup.set(); the handler of an event fails, and the consumer may   *)
(* give the event again or go on to the next one.                                     *)
WriteFails(i) ==
    /\ faults[writes[i].by] < MaxFaults[writes[i].by]
    /\ faults' = [faults EXCEPT ![writes[i].by] = @ + 1]
    /\ writes' = RemoveAt(writes, i)
    /\ worker' = IF writes[i].by = "worker" THEN "ready" ELSE worker
    /\ IF writes[i].by = "consumer"
       THEN \/ received' = committed /\ UNCHANGED committed
            \/ committed' = received /\ UNCHANGED received
       ELSE UNCHANGED kafka
    /\ UNCHANGED <<external, queue, current, todo, ingesting, edition, store, overtaken, lost,
                   graph, failures, crashes>>

-----------------------------------------------------------------------------
(* The worker task: _run, _process and _execute. *)

(* Faulty: a job either deletes or syncs. *)
SyncPhaseUnlessDeleted(job) ==
    IF job.sync /\ ~HasDeletes(job) THEN "resolving" ELSE "finishing"

SyncPhase(job) == IF job.sync THEN "resolving" ELSE "finishing"

(* _next: the waiting job that changed last. *)
Take(k) ==
    /\ worker = "ready"
    /\ jobs[k] # NoJob
    /\ \A o \in Keys : jobs[o] # NoJob => jobs[o].changed_at <= jobs[k].changed_at
    /\ jobs' = [jobs EXCEPT ![k] = NoJob]
    /\ current' = jobs[k]
    /\ worker' = IF HasDeletes(jobs[k]) THEN "deleting" ELSE SyncPhase(jobs[k])
    /\ UNCHANGED <<external, kafka, retries, wakeup, todo, ingesting, edition, neo4j,
                   graph, bounds>>

(* Nothing waits: clear the event and sleep on it. *)
Sleep ==
    /\ worker = "ready"
    /\ \A k \in Keys : jobs[k] = NoJob
    /\ worker' = "waiting" /\ wakeup' = FALSE
    /\ UNCHANGED <<external, kafka, jobs, retries, current, todo, ingesting, edition,
                   neo4j, graph, bounds>>

Wake ==
    /\ worker = "waiting" /\ wakeup
    /\ worker' = "ready"
    /\ UNCHANGED <<external, kafka, queue, current, todo, ingesting, edition, neo4j,
                   graph, bounds>>

(* delete_name, the first part of a job. *)
DeleteName ==
    /\ worker = "deleting"
    /\ graph' = [d \in Docs |-> IF d \in Targets(current) THEN Absent ELSE graph[d]]
    /\ worker' = SyncPhase(current)
    /\ UNCHANGED <<external, kafka, queue, current, todo, ingesting, edition, neo4j,
                   bounds>>

(* sync_name asks IDU_DVD which documents the name stands for now.  The lookup of a  *)
(* shared name is scope-blind and may return a user's document of that name as well. *)
Resolve ==
    /\ worker = "resolving"
    /\ \E foreign \in SUBSET (Reach(current.key) \ DocsOf(current.key)) :
          todo' = {d \in DocsOf(current.key) \cup foreign : dvd[d] # 0}
    /\ worker' = IF todo' = {} THEN "finishing" ELSE "syncing"
    /\ UNCHANGED <<external, kafka, queue, current, ingesting, edition, neo4j, graph,
                   bounds>>

(* sync_document reads one of them; a document gone in the meantime is skipped. *)
Fetch(d) ==
    /\ worker = "syncing" /\ ingesting = NoDoc
    /\ d \in todo
    /\ todo' = todo \ {d}
    /\ IF dvd[d] # 0
       THEN ingesting' = d /\ edition' = dvd[d] /\ UNCHANGED worker
       ELSE /\ UNCHANGED <<ingesting, edition>>
            /\ worker' = IF todo' = {} THEN "finishing" ELSE worker
    /\ UNCHANGED <<external, kafka, queue, current, neo4j, graph, bounds>>

(* ... and has ingested and extracted what it read.  Clauses whose extraction failed *)
(* are no failure of the job; reconcile returns to them, not the queue.              *)
Synchronised ==
    /\ worker = "syncing" /\ ingesting # NoDoc
    /\ graph' = [graph EXCEPT ![ingesting] = Synced(@, edition, current.replace)]
    /\ ingesting' = NoDoc /\ edition' = 0
    /\ worker' = IF todo = {} THEN "finishing" ELSE worker
    /\ UNCHANGED <<external, kafka, queue, current, todo, neo4j, bounds>>

(* Faulty: the :SyncJob is dropped whatever came in while the job ran. *)
FinishDroppingNewer ==
    /\ worker = "finishing"
    /\ worker' = "flushing"
    /\ writes' = Append(writes, [key |-> current.key, value |-> NoJob, by |-> "worker"])
    /\ overtaken' = overtaken \ {current.key}
    /\ current' = NoJob
    /\ UNCHANGED <<external, kafka, queue, todo, ingesting, edition, store, lost, graph, bounds>>

(* The job succeeded: drop its :SyncJob, or keep the one of a newer event. *)
Finish ==
    /\ worker = "finishing"
    /\ worker' = "flushing"
    /\ writes' = Append(writes, [key |-> current.key, value |-> jobs[current.key],
                                 by |-> "worker"])
    /\ overtaken' = overtaken \ {current.key}
    /\ current' = NoJob
    /\ UNCHANGED <<external, kafka, queue, todo, ingesting, edition, store, lost, graph, bounds>>

(* The job raised: it sleeps until its retry.  _retry_later computes the pause first, *)
(* and after too many attempts 2 ** n does not fit a float: OverflowError ends        *)
(* _process, _run logs it, and nothing is put to sleep.                               *)
Failed(part) ==
    LET again == current.attempts < FloatExponents
    IN /\ failures[part] < MaxFailures[part]
       /\ failures' = [failures EXCEPT ![part] = @ + 1,
                                       !["overflow"] = IF again THEN @ ELSE @ + 1]
       /\ retries' = IF again THEN retries \cup {[current EXCEPT !.attempts = @ + 1]}
                     ELSE retries
       /\ graph' \in CutShort
       /\ worker' = "ready" /\ current' = NoJob
       /\ todo' = {} /\ ingesting' = NoDoc /\ edition' = 0
       /\ UNCHANGED <<external, kafka, jobs, wakeup, neo4j, faults, crashes>>

DeleteFails == worker = "deleting" /\ Failed("delete")

SyncFails == worker \in {"resolving", "syncing"} /\ Failed("sync")

Worker == \/ \E k \in Keys : Take(k)
          \/ Sleep \/ Wake
          \/ DeleteName \/ Resolve \/ Synchronised \/ Finish
          \/ \E d \in Docs : Fetch(d)

-----------------------------------------------------------------------------
(* The process dies or is stopped (stop cancels the worker and the retries; a  *)
(* cancelled job is not retried).  A statement in flight may still have        *)
(* committed.  The offset of an event whose handler did not return stays back. *)
Crash ==
    /\ Up
    /\ crashes < MaxCrashes
    /\ crashes' = crashes + 1
    /\ \E last \in [Keys -> 0..Len(writes)] :
        /\ \A k \in Keys : last[k] # 0 => writes[last[k]].key = k
        /\ store' = [k \in Keys |-> IF last[k] = 0 THEN store[k] ELSE writes[last[k]].value]
    /\ writes' = <<>>
    /\ overtaken' = {} /\ lost' = lost \cup overtaken
    /\ jobs' = [k \in Keys |-> NoJob]
    /\ retries' = {}
    /\ wakeup' = FALSE
    /\ worker' = "off" /\ current' = NoJob
    /\ todo' = {} /\ ingesting' = NoDoc /\ edition' = 0
    /\ graph' \in CutShort
    /\ received' = committed
    /\ UNCHANGED <<external, committed, failures, faults>>

(* Faulty: the worker is created, the persisted jobs are not restored. *)
StartEmpty ==
    /\ worker = "off"
    /\ worker' = "ready"
    /\ UNCHANGED <<external, kafka, queue, current, todo, ingesting, edition, neo4j,
                   graph, bounds>>

(* SyncQueue.start restores the persisted jobs, then creates the worker. *)
Start ==
    /\ worker = "off"
    /\ jobs' = store
    /\ worker' = "ready"
    /\ UNCHANGED <<external, kafka, retries, wakeup, current, todo, ingesting, edition,
                   neo4j, graph, bounds>>

(* Neo4j is unreachable while the application starts: start raises before it creates *)
(* the worker, the lifespan logs it and the consumer starts all the same.            *)
StartFails ==
    /\ worker = "off"
    /\ faults["start"] < MaxFaults["start"]
    /\ faults' = [faults EXCEPT !["start"] = @ + 1]
    /\ worker' = "absent"
    /\ UNCHANGED <<external, kafka, queue, current, todo, ingesting, edition, neo4j,
                   graph, failures, crashes>>

-----------------------------------------------------------------------------
Statement == \E i \in 1..Len(writes) : Commit(i)

Requeue == \E job \in retries : Retry(job)

Next == \/ IduDvd
        \/ Receive \/ Requeue \/ Statement
        \/ Worker
        \/ DeleteFails \/ SyncFails
        \/ \E i \in 1..Len(writes) : WriteFails(i)
        \/ Crash \/ Start \/ StartFails

(* The event loop schedules every runnable task, Neo4j answers, and a stopped *)
(* process is restarted.                                                      *)
Fairness == /\ WF_vars(Worker)
            /\ WF_vars(Receive)
            /\ WF_vars(Requeue)
            /\ WF_vars(Statement)
            /\ WF_vars(Start)

Spec == Init /\ [][Next]_vars

FairSpec == Spec /\ Fairness

-----------------------------------------------------------------------------
TypeOK ==
    /\ dvd \in [Docs -> Nat]
    /\ log \in Seq(Event)
    /\ committed \in Nat /\ received \in Nat
    /\ committed <= received /\ received <= committed + 1 /\ received <= Len(log)
    /\ jobs \in [Keys -> Job \cup {NoJob}]
    /\ \A k \in Keys : jobs[k] # NoJob => jobs[k].key = k
    /\ retries \subseteq Job
    /\ wakeup \in BOOLEAN
    /\ worker \in {"off", "absent", "ready", "waiting", "deleting", "resolving",
                   "syncing", "finishing", "flushing"}
    /\ current \in Job \cup {NoJob}
    /\ worker \in {"deleting", "resolving", "syncing", "finishing"} => current # NoJob
    /\ todo \subseteq Docs
    /\ ingesting \in Docs \cup {NoDoc} /\ edition \in Nat
    /\ writes \in Seq(Write)
    /\ store \in [Keys -> Job \cup {NoJob}]
    /\ \A k \in Keys : store[k] # NoJob => store[k].key = k
    /\ overtaken \subseteq Keys /\ lost \subseteq Keys
    /\ graph \in [Docs -> DocState]
    /\ failures \in [Parts \cup {"overflow"} -> Nat]
    /\ faults \in [Callers -> Nat] /\ crashes \in Nat

-----------------------------------------------------------------------------
(* Who still owes work for key k: the partition, a waiting or sleeping job, or the *)
(* job the worker is executing.                                                    *)

Undelivered(k) == \E i \in (received + 1)..Len(log) : log[i].key = k

Executing(k) == /\ worker \in {"deleting", "resolving", "syncing"}
                /\ current.key = k

Owed(k) == \/ Undelivered(k)
           \/ jobs[k] # NoJob
           \/ \E job \in retries : job.key = k
           \/ Executing(k)

InSync(k) == \A d \in DocsOf(k) : graph[d] = [edition |-> dvd[d], state |-> "whole"]

SettledOrOwed(k) == worker \notin {"off", "absent"} => Owed(k) \/ InSync(k)

Settled == \A k \in Keys : SettledOrOwed(k)

NoDeletions == \A i \in 1..Len(log) : log[i].kind # "deleted"

NoFailures == \A p \in Parts : failures[p] = 0

(***************************************************************************)
(* When nothing is left to do for a document name - every event taken, no  *)
(* job waiting, sleeping or running - the graph holds exactly the versions *)
(* IDU_DVD holds, each extracted from its current edition, with nothing    *)
(* left over.  This is the claim of the module comment (queue.py:8-11)     *)
(* that newest-first order and merging keep the order of one document's    *)
(* own events; it holds as long as no deletion raises and the process is   *)
(* not stopped, whatever else fails.                                       *)
(***************************************************************************)
SettledMeansInSync ==
    crashes = 0 /\ failures["delete"] = 0 /\ failures["overflow"] = 0 => Settled

(***************************************************************************)
(* The same claim where a deletion does raise and is retried (queue.py:    *)
(* 8-11, 249-256).  The code does not keep it.                             *)
(***************************************************************************)
RetriesKeepOrder == crashes = 0 /\ failures["overflow"] = 0 => Settled

(* The documents of a user whose name a shared document has: a job of the shared *)
(* one reaches them too.                                                          *)
SharesName(k) ==
    k.scope # Shared /\ \E d \in Docs : NameOf[d] = k.name /\ ScopeOf[d] = Shared

(***************************************************************************)
(* What survives a restart: with no deletion among the events and no       *)
(* failed run, a stop at any moment - between put and commit, while a job  *)
(* runs, while its node is rewritten - leaves no document behind with no   *)
(* event, job or node left to repair it, but for two kinds: documents      *)
(* whose latest statement had overtaken an older one when the process      *)
(* stopped, and users' documents that a shared document's job may have     *)
(* had in work (queue.py:13-14).                                           *)
(***************************************************************************)
RestartLosesNoSync ==
    NoDeletions /\ NoFailures /\ (\A c \in {"consumer", "retry"} : faults[c] = 0) =>
        \A k \in Keys : k \in lost \/ SharesName(k) \/ SettledOrOwed(k)

(***************************************************************************)
(* A user's job touches that user's documents of its name and no others;   *)
(* a document changes only while a job of its name is in work (sync_name   *)
(* and delete_name of service.py, the scope filter of                      *)
(* writer.documents_by_name).                                              *)
(***************************************************************************)
OtherScopesUntouched ==
    [][\A d \in Docs : graph'[d] # graph[d] =>
            /\ current # NoJob /\ current.key.name = NameOf[d]
            /\ current.key.scope \in {Shared, ScopeOf[d]}]_vars

(***************************************************************************)
(* A job touches the documents of its own registry key only: the user and  *)
(* the scenario of a document are "the isolation boundary"                 *)
(* (graph/schema.py:20).  Where a user's document has the name of a shared *)
(* one the code does not keep it: the deletion of the shared one is not    *)
(* filtered.                                                               *)
(***************************************************************************)
OtherKeysUntouched ==
    [][\A d \in Docs : graph'[d] # graph[d] =>
            current # NoJob /\ current.key = KeyOf[d]]_vars

(* The :SyncJob node of key k is `job`, or will be once the statements in flight *)
(* have committed in the order they were sent.                                   *)
Persisted(k, job) ==
    \/ /\ \A i \in 1..Len(writes) : writes[i].key # k
       /\ store[k] = job
    \/ \E i \in 1..Len(writes) :
        /\ writes[i].key = k /\ writes[i].value = job
        /\ \A h \in (i + 1)..Len(writes) : writes[h].key # k

NoFaults == \A c \in Callers : faults[c] = 0

(***************************************************************************)
(* A job that waits in memory is persisted, or its statement is on its     *)
(* way, in the form it has now, unless that statement has overtaken an     *)
(* older one: put saves after every merge, and the worker that finishes a  *)
(* job keeps the node of a newer one (queue.py:156, 221-225).              *)
(***************************************************************************)
WaitingJobsArePersisted ==
    NoFaults => \A k \in Keys : jobs[k] # NoJob /\ k \notin overtaken => Persisted(k, jobs[k])

(***************************************************************************)
(* "The Kafka offset is committed as soon as an event is scheduled, so     *)
(* pending jobs are persisted [...] - a restart or redeploy must not lose  *)
(* them" (queue.py:13-14): of a waiting job whose statement has committed  *)
(* the node is there, or will be.  The code does not keep it: the DELETE   *)
(* of a job that ended may commit after the statement of a newer one.      *)
(***************************************************************************)
PendingJobsArePersisted ==
    NoFaults => \A k \in Keys : jobs[k] # NoJob => Persisted(k, jobs[k])

(***************************************************************************)
(* Once IDU_DVD stops changing, the graph catches up and stays caught up:  *)
(* every published event is eventually worked off, however it was merged   *)
(* and retried (queue.py:208-217: "retried below, never dropped").         *)
(***************************************************************************)
CatchesUp == <>[](\A k \in Keys : InSync(k))

(***************************************************************************)
(* ... and, as long as the queue restarts and only syncs were asked for,   *)
(* over restarts as well.                                                  *)
(***************************************************************************)
CatchesUpAfterRestart ==
    [](NoDeletions /\ NoFailures /\ NoFaults /\ lost = {}) => CatchesUp
=============================================================================
