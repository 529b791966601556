------------------------ MODULE SyncQueueOrderProofs ------------------------
(***************************************************************************)
(* What the queue's order and its :SyncJob nodes are for, for every value  *)
(* of the constants: newest first and merging leave every document in sync *)
(* once nothing is owed, the queue keeps the promise of DocumentSync, and  *)
(* syncs survive any number of restarts.                                   *)
(***************************************************************************)
EXTENDS SyncQueueProofs, SyncQueueRefinement

-----------------------------------------------------------------------------
(* Merging newest first loses nothing: a settled queue is in sync. *)

(* The process was not stopped, no deletion raised, and every failed job was put to *)
(* sleep: the hypothesis of SettledMeansInSync.                                     *)
Undisturbed == crashes = 0 /\ failures["delete"] = 0 /\ failures["overflow"] = 0

Deletes(job, d) == job.delete_all \/ d \in job.delete_versions

(* The event at offset i removes document d. *)
Removal(i, d) ==
    log[i].key = KeyOf[d] /\ (log[i].document_removed \/ d \in log[i].versions_removed)

(* What the waiting job of d's key will do to d. *)
WaitsToDelete(d) == jobs[KeyOf[d]] # NoJob /\ Deletes(jobs[KeyOf[d]], d)

WaitsToSync(d) == jobs[KeyOf[d]] # NoJob /\ jobs[KeyOf[d]].sync

WaitsToReplace(d) == WaitsToSync(d) /\ jobs[KeyOf[d]].replace

(* What a failed job will do to it when it is put again. *)
RetriesToSync(d) == \E job \in retries : job.key = KeyOf[d]

RetriesToReplace(d) == \E job \in retries : job.key = KeyOf[d] /\ job.replace

(* What the running job will yet do to it. *)
RunsToDelete(d) == worker = "deleting" /\ current.key = KeyOf[d] /\ Deletes(current, d)

RunsToSync(d) ==
    /\ current # NoJob /\ current.key = KeyOf[d] /\ current.sync
    /\ \/ worker \in {"deleting", "resolving"}
       \/ worker = "syncing" /\ d \in todo
       \/ worker = "syncing" /\ ingesting = d /\ edition = dvd[d]

RunsToReplace(d) == RunsToSync(d) /\ current.replace

(* The event that announced the edition IDU_DVD holds is not received yet. *)
Announced(d) == dvd[d] > received

RemovalAhead(d) == \E i \in (received + 1)..Len(log) : Removal(i, d)

DeletePending(d) == RemovalAhead(d) \/ WaitsToDelete(d) \/ RunsToDelete(d)

SyncPending(d) == Announced(d) \/ WaitsToSync(d) \/ RetriesToSync(d) \/ RunsToSync(d)

ReplacePending(d) ==
    \/ Announced(d) /\ log[dvd[d]].kind = "updated"
    \/ WaitsToReplace(d) \/ RetriesToReplace(d) \/ RunsToReplace(d)

(* The sync in work, if it is one of d, read the edition IDU_DVD holds. *)
FetchedLatest(d) == ingesting = d => edition = dvd[d]

Stored(d) == graph[d] = [edition |-> dvd[d], state |-> "whole"] /\ FetchedLatest(d)

(* Nothing of an edition IDU_DVD no longer holds is stored. *)
Clean(d) == graph[d].edition \in {0, dvd[d]} /\ graph[d].state # "stale" /\ FetchedLatest(d)

Gone(d) == graph[d] = Absent /\ ingesting # d

(* A deletion that is older than the edition held is followed by a sync. *)
SyncedAfterDelete(d) ==
    /\ WaitsToDelete(d) => Announced(d) \/ WaitsToSync(d)
    /\ RunsToDelete(d) => Announced(d) \/ WaitsToSync(d) \/ RunsToSync(d)

(* Whatever the graph has wrong of d, something is left that puts it right. *)
WorkedOff(d) ==
    /\ dvd[d] = 0 => Gone(d) \/ DeletePending(d)
    /\ dvd[d] # 0 => /\ Stored(d) \/ SyncPending(d)
                     /\ Clean(d) \/ DeletePending(d) \/ ReplacePending(d)
                     /\ SyncedAfterDelete(d)

(* The edition IDU_DVD holds is the offset of the event that announced it, and no *)
(* later event removes the document.                                              *)
Indexed(d) ==
    dvd[d] # 0 => /\ dvd[d] \in 1..Len(log)
                  /\ log[dvd[d]].key = KeyOf[d]
                  /\ log[dvd[d]].kind \in {"processed", "updated"}
                  /\ \A i \in dvd[d]..Len(log) : ~Removal(i, d)

Steady ==
    /\ worker \notin {"off", "absent"}
    /\ worker \in {"resolving", "syncing"} => current.sync
    /\ ingesting # NoDoc => edition # 0
    /\ \A job \in retries : job.sync
    /\ \A d \in Docs : graph[d].edition = 0 => graph[d] = Absent

OrderKept == Steady /\ \A d \in Docs : Indexed(d) /\ WorkedOff(d)

(* What merging keeps of two jobs. *)
LEMMA MergeKeeps ==
    ASSUME NEW job \in Job, NEW later \in Job, NEW d \in Docs
    PROVE  /\ Deletes(Merge(job, later), d) <=> Deletes(job, d) \/ Deletes(later, d)
           /\ Merge(job, later).sync <=> (job.sync /\ ~later.delete_all) \/ later.sync
           /\ Merge(job, later).replace <=>
                (job.replace /\ ~later.delete_all) \/ (later.sync /\ later.replace)
<1>1. /\ Merge(job, later).delete_all = (job.delete_all \/ later.delete_all)
      /\ Merge(job, later).delete_versions =
            IF later.delete_all THEN {}
            ELSE IF job.delete_all THEN job.delete_versions
            ELSE job.delete_versions \cup later.delete_versions
      /\ Merge(job, later).sync = ((job.sync /\ ~later.delete_all) \/ later.sync)
      /\ Merge(job, later).replace =
            ((job.replace /\ ~later.delete_all) \/ (later.sync /\ later.replace))
  BY DEF Merge, Job
<1> QED
  BY <1>1 DEF Deletes, Job

(* The waiting job after a put. *)
LEMMA PutKeeps ==
    ASSUME TypeOK, NEW job \in Job, NEW by, Put(job, by), NEW d \in Docs
    PROVE  /\ KeyOf[d] # job.key =>
                /\ WaitsToDelete(d)' <=> WaitsToDelete(d)
                /\ WaitsToSync(d)' <=> WaitsToSync(d)
                /\ WaitsToReplace(d)' <=> WaitsToReplace(d)
           /\ KeyOf[d] = job.key =>
                /\ WaitsToDelete(d)' <=> WaitsToDelete(d) \/ Deletes(job, d)
                /\ WaitsToSync(d)' <=> (WaitsToSync(d) /\ ~job.delete_all) \/ job.sync
                /\ (WaitsToReplace(d) /\ ~job.delete_all) \/ (job.sync /\ job.replace)
                        => WaitsToReplace(d)'
<1> DEFINE merged == IF jobs[job.key] = NoJob THEN job ELSE Merge(jobs[job.key], job)
<1>1. job.key \in Keys /\ KeyOf[d] \in Keys
  BY DEF Job, Keys
<1>2. merged \in Job
  BY <1>1, MergeType DEF TypeOK
<1>3. \A k \in Keys : jobs'[k] = IF k = job.key THEN merged ELSE jobs[k]
  BY <1>1 DEF Put, TypeOK
<1>4. merged # NoJob
  BY <1>2, JobNotNone
<1>5. CASE KeyOf[d] # job.key
  BY <1>1, <1>3, <1>5 DEF WaitsToDelete, WaitsToSync, WaitsToReplace, Deletes
<1>6. CASE KeyOf[d] = job.key /\ jobs[job.key] = NoJob
  <2>1. jobs'[KeyOf[d]] = job /\ job # NoJob
    BY <1>1, <1>3, <1>4, <1>6
  <2> QED
    BY <1>6, <2>1 DEF WaitsToDelete, WaitsToSync, WaitsToReplace, Deletes
<1>7. CASE KeyOf[d] = job.key /\ jobs[job.key] # NoJob
  <2>1. jobs[job.key] \in Job
    BY <1>1, <1>7 DEF TypeOK
  <2>2. jobs'[KeyOf[d]] = Merge(jobs[job.key], job) /\ jobs'[KeyOf[d]] # NoJob
    BY <1>1, <1>3, <1>4, <1>7
  <2>3. PICK old, new : old \in Job /\ old = jobs[job.key] /\ new = Merge(old, job)
    BY <2>1
  <2>4. /\ Deletes(new, d) <=> Deletes(old, d) \/ Deletes(job, d)
        /\ new.sync <=> (old.sync /\ ~job.delete_all) \/ job.sync
        /\ new.replace <=> (old.replace /\ ~job.delete_all) \/ (job.sync /\ job.replace)
    BY <2>3, MergeKeeps
  <2>5. jobs'[KeyOf[d]] = new /\ jobs[KeyOf[d]] = old /\ old # NoJob /\ new # NoJob
    BY <1>7, <2>2, <2>3
  <2>6. WaitsToDelete(d)' <=> Deletes(new, d)
    BY <2>5 DEF WaitsToDelete, Deletes
  <2>7. WaitsToDelete(d) <=> Deletes(old, d)
    BY <2>5 DEF WaitsToDelete
  <2>8. /\ WaitsToSync(d)' <=> new.sync
        /\ WaitsToReplace(d)' <=> new.sync /\ new.replace
        /\ WaitsToSync(d) <=> old.sync
        /\ WaitsToReplace(d) <=> old.sync /\ old.replace
    BY <2>5 DEF WaitsToSync, WaitsToReplace
  <2> QED
    BY <1>7, <2>4, <2>6, <2>7, <2>8
<1> QED
  BY <1>5, <1>6, <1>7

LEMMA JobOfDeletes ==
    ASSUME TypeOK, NEW i \in 1..Len(log), NEW d \in Docs, log[i].key = KeyOf[d]
    PROVE  /\ Deletes(JobOf(i), d) <=> Removal(i, d)
           /\ JobOf(i).delete_all => Removal(i, d)
<1>1. log[i] \in Event
  BY DEF TypeOK
<1> QED
  BY <1>1 DEF JobOf, Deletes, Removal, Event

LEMMA Backward ==
    ASSUME NEW a \in Nat, NEW b \in Nat, b <= a, NEW n \in Nat
    PROVE  \A i \in (a + 1)..n : i \in (b + 1)..n
OBVIOUS

Busy == {"deleting", "resolving", "syncing"}

(* Steps that leave the jobs, the stored documents and what IDU_DVD published alone: *)
(* at most an event is given again.                                                  *)
LEMMA IdleStep ==
    ASSUME TypeOK, OrderKept,
           UNCHANGED <<dvd, log, jobs, retries, graph, todo, ingesting, edition>>,
           received' \in Nat, received' <= received,
           worker' \notin {"off", "absent"},
           \/ worker' = worker /\ current' = current
           \/ worker \notin Busy /\ worker' \notin Busy
    PROVE  OrderKept'
<1>1. Steady'
  BY DEF OrderKept, Steady, Busy
<1>2. ASSUME NEW d \in Docs
      PROVE  Indexed(d)' /\ WorkedOff(d)'
  <2>0. KeyOf[d] \in Keys /\ received \in Nat /\ dvd[d] \in Nat /\ Len(log) \in Nat
    BY DEF Keys, TypeOK
  <2>1. Indexed(d) /\ Indexed(d)' /\ WorkedOff(d)
    BY DEF OrderKept, Indexed, Removal
  <2>2. Announced(d) => Announced(d)'
    BY <2>0 DEF Announced
  <2>3. RemovalAhead(d) => RemovalAhead(d)'
    <3>1. \A i : Removal(i, d)' <=> Removal(i, d)
      BY DEF Removal
    <3>2. log' = log /\ received' \in Nat /\ received' <= received
      OBVIOUS
    <3>3. \A i \in (received + 1)..Len(log) : i \in (received' + 1)..Len(log)
      BY <2>0, <3>2, Backward
    <3> QED
      BY <3>1, <3>2, <3>3 DEF RemovalAhead
  <2>4. /\ WaitsToDelete(d)' <=> WaitsToDelete(d)
        /\ WaitsToSync(d)' <=> WaitsToSync(d)
        /\ WaitsToReplace(d)' <=> WaitsToReplace(d)
        /\ RetriesToSync(d)' <=> RetriesToSync(d)
        /\ RetriesToReplace(d)' <=> RetriesToReplace(d)
    BY DEF WaitsToDelete, WaitsToSync, WaitsToReplace, RetriesToSync, RetriesToReplace, Deletes
  <2>5. /\ RunsToDelete(d)' <=> RunsToDelete(d)
        /\ RunsToSync(d)' <=> RunsToSync(d)
        /\ RunsToReplace(d)' <=> RunsToReplace(d)
    BY DEF RunsToDelete, RunsToSync, RunsToReplace, Busy, Deletes
  <2>6. /\ Gone(d)' <=> Gone(d)
        /\ Stored(d)' <=> Stored(d)
        /\ Clean(d)' <=> Clean(d)
    BY DEF Gone, Stored, Clean, FetchedLatest
  <2> QED
    BY <2>1, <2>2, <2>3, <2>4, <2>5, <2>6
       DEF WorkedOff, DeletePending, SyncPending, ReplacePending, SyncedAfterDelete
<1> QED
  BY <1>1, <1>2 DEF OrderKept

(* The consumer's put. *)
LEMMA ReceiveStep == TypeOK /\ OrderKept /\ Receive => OrderKept'
<1> SUFFICES ASSUME TypeOK, OrderKept, Receive
             PROVE  OrderKept'
  OBVIOUS
<1> DEFINE next == received + 1
<1> USE DEF external, kafka, queue, work, neo4j, bounds
<1>1. /\ next \in 1..Len(log) /\ received \in Nat /\ Len(log) \in Nat
      /\ JobOf(next) \in Job /\ JobOf(next).key = log[next].key
  BY JobOfType DEF Receive, TypeOK
<1>2. /\ Put(JobOf(next), "consumer") /\ received' = next
      /\ UNCHANGED <<dvd, log, retries, worker, current, todo, ingesting, edition, graph>>
  BY DEF Receive
<1> HIDE DEF next
<1>3. Steady'
  BY <1>2 DEF OrderKept, Steady
<1>4. ASSUME NEW d \in Docs
      PROVE  Indexed(d)' /\ WorkedOff(d)'
  <2>0. KeyOf[d] \in Keys /\ dvd[d] \in Nat
    BY DEF Keys, TypeOK
  <2>1. Indexed(d) /\ WorkedOff(d)
    BY DEF OrderKept
  <2>2. \A i : Removal(i, d)' <=> Removal(i, d)
    BY <1>2 DEF Removal
  <2>3. Indexed(d)'
    BY <1>2, <2>1, <2>2 DEF Indexed
  <2>4. /\ RetriesToSync(d)' <=> RetriesToSync(d)
        /\ RetriesToReplace(d)' <=> RetriesToReplace(d)
        /\ RunsToDelete(d)' <=> RunsToDelete(d)
        /\ RunsToSync(d)' <=> RunsToSync(d)
        /\ RunsToReplace(d)' <=> RunsToReplace(d)
        /\ Gone(d)' <=> Gone(d)
        /\ Stored(d)' <=> Stored(d)
        /\ Clean(d)' <=> Clean(d)
    BY <1>2 DEF RetriesToSync, RetriesToReplace, RunsToDelete, RunsToSync, RunsToReplace,
                Deletes, Gone, Stored, Clean, FetchedLatest
  <2>5. RemovalAhead(d) => RemovalAhead(d)' \/ Removal(next, d)
    BY <1>1, <1>2, <2>2 DEF RemovalAhead, next
  <2>6. /\ KeyOf[d] # log[next].key =>
                /\ WaitsToDelete(d)' <=> WaitsToDelete(d)
                /\ WaitsToSync(d)' <=> WaitsToSync(d)
                /\ WaitsToReplace(d)' <=> WaitsToReplace(d)
        /\ KeyOf[d] = log[next].key =>
                /\ WaitsToDelete(d)' <=> WaitsToDelete(d) \/ Deletes(JobOf(next), d)
                /\ WaitsToSync(d)' <=>
                        (WaitsToSync(d) /\ ~JobOf(next).delete_all) \/ JobOf(next).sync
                /\ (WaitsToReplace(d) /\ ~JobOf(next).delete_all)
                        \/ (JobOf(next).sync /\ JobOf(next).replace) => WaitsToReplace(d)'
    BY <1>1, <1>2, PutKeeps
  <2>7. KeyOf[d] = log[next].key =>
            /\ Deletes(JobOf(next), d) <=> Removal(next, d)
            /\ JobOf(next).delete_all => Removal(next, d)
    BY <1>1, JobOfDeletes
  <2>8. Removal(next, d) => KeyOf[d] = log[next].key
    BY DEF Removal
  <2>9. dvd[d] # 0 /\ Removal(next, d) => Announced(d)'
    BY <1>1, <1>2, <2>0, <2>1 DEF Indexed, Announced, next
  <2>10. dvd[d] # 0 /\ Announced(d) =>
            Announced(d)' \/ (dvd[d] = next /\ KeyOf[d] = log[next].key /\ JobOf(next).sync)
    <3>1. Announced(d) => Announced(d)' \/ dvd[d] = next
      BY <1>1, <1>2, <2>0 DEF Announced, next
    <3>2. dvd[d] # 0 /\ dvd[d] = next =>
            KeyOf[d] = log[next].key /\ log[next].kind \in {"processed", "updated"}
      BY <2>1 DEF Indexed
    <3>3. log[next].kind \in {"processed", "updated"} => JobOf(next).sync
      BY DEF JobOf
    <3> QED
      BY <3>1, <3>2, <3>3
  <2>11. dvd[d] = next /\ log[next].kind = "updated" =>
            JobOf(next).sync /\ JobOf(next).replace
    BY DEF JobOf
  <2>12. DeletePending(d) => DeletePending(d)'
    BY <2>4, <2>5, <2>6, <2>7, <2>8 DEF DeletePending
  <2>13. dvd[d] # 0 /\ SyncPending(d) => SyncPending(d)'
    BY <2>4, <2>6, <2>7, <2>9, <2>10 DEF SyncPending
  <2>14. dvd[d] # 0 /\ ReplacePending(d) => ReplacePending(d)' \/ DeletePending(d)'
    <3>1. dvd'[d] = dvd[d] /\ log' = log
      BY <1>2
    <3>2. CASE Announced(d) /\ log[dvd[d]].kind = "updated"
      BY <2>6, <2>10, <2>11, <3>1, <3>2 DEF ReplacePending
    <3>3. CASE WaitsToReplace(d)
      BY <2>6, <2>7, <3>3 DEF ReplacePending, DeletePending
    <3>4. CASE RetriesToReplace(d) \/ RunsToReplace(d)
      BY <2>4, <3>4 DEF ReplacePending
    <3> QED
      BY <3>2, <3>3, <3>4 DEF ReplacePending
  <2>15. dvd[d] # 0 /\ SyncedAfterDelete(d) => SyncedAfterDelete(d)'
    BY <2>4, <2>6, <2>7, <2>9, <2>10 DEF SyncedAfterDelete
  <2>16. dvd'[d] = dvd[d]
    BY <1>2
  <2> QED
    BY <2>1, <2>3, <2>4, <2>12, <2>13, <2>14, <2>15, <2>16 DEF WorkedOff
<1> QED
  BY <1>3, <1>4 DEF OrderKept

(* The put of a job that had failed: it asks for a sync. *)
LEMMA RetryStep == TypeOK /\ OrderKept /\ Requeue => OrderKept'
<1> SUFFICES ASSUME TypeOK, OrderKept, NEW job \in retries, Retry(job)
             PROVE  OrderKept'
  BY DEF Requeue
<1> USE DEF external, kafka, queue, work, neo4j, bounds
<1>1. job \in Job /\ job.sync
  BY DEF TypeOK, OrderKept, Steady
<1>2. /\ Put(job, "retry") /\ retries' = retries \ {job}
      /\ UNCHANGED <<dvd, log, received, worker, current, todo, ingesting, edition, graph>>
  BY DEF Retry
<1>3. Steady'
  BY <1>2 DEF OrderKept, Steady
<1>4. ASSUME NEW d \in Docs
      PROVE  Indexed(d)' /\ WorkedOff(d)'
  <2>1. Indexed(d) /\ WorkedOff(d)
    BY DEF OrderKept
  <2>2. \A i : Removal(i, d)' <=> Removal(i, d)
    BY <1>2 DEF Removal
  <2>3. Indexed(d)'
    BY <1>2, <2>1, <2>2 DEF Indexed
  <2>4. /\ RunsToDelete(d)' <=> RunsToDelete(d)
        /\ RunsToSync(d)' <=> RunsToSync(d)
        /\ RunsToReplace(d)' <=> RunsToReplace(d)
        /\ Gone(d)' <=> Gone(d)
        /\ Stored(d)' <=> Stored(d)
        /\ Clean(d)' <=> Clean(d)
        /\ Announced(d)' <=> Announced(d)
        /\ RemovalAhead(d)' <=> RemovalAhead(d)
    BY <1>2, <2>2 DEF RunsToDelete, RunsToSync, RunsToReplace, Deletes, Gone, Stored, Clean,
                      FetchedLatest, Announced, RemovalAhead
  <2>5. /\ RetriesToSync(d) => RetriesToSync(d)' \/ job.key = KeyOf[d]
        /\ RetriesToReplace(d) =>
                RetriesToReplace(d)' \/ (job.key = KeyOf[d] /\ job.replace)
    BY <1>2 DEF RetriesToSync, RetriesToReplace
  <2>6. /\ KeyOf[d] # job.key =>
                /\ WaitsToDelete(d)' <=> WaitsToDelete(d)
                /\ WaitsToSync(d)' <=> WaitsToSync(d)
                /\ WaitsToReplace(d)' <=> WaitsToReplace(d)
        /\ KeyOf[d] = job.key =>
                /\ WaitsToDelete(d)' <=> WaitsToDelete(d) \/ Deletes(job, d)
                /\ WaitsToSync(d)'
                /\ WaitsToReplace(d) /\ ~job.delete_all => WaitsToReplace(d)'
                /\ job.replace => WaitsToReplace(d)'
    BY <1>1, <1>2, PutKeeps
  <2>7. job.delete_all => Deletes(job, d)
    BY DEF Deletes
  <2>8. dvd'[d] = dvd[d] /\ log' = log
    BY <1>2
  <2>9. DeletePending(d) => DeletePending(d)'
    BY <2>4, <2>6 DEF DeletePending
  <2>10. SyncPending(d) => SyncPending(d)'
    BY <2>4, <2>5, <2>6 DEF SyncPending
  <2>11. ReplacePending(d) => ReplacePending(d)' \/ DeletePending(d)'
    BY <2>4, <2>5, <2>6, <2>7, <2>8 DEF ReplacePending, DeletePending
  <2>12. SyncedAfterDelete(d) => SyncedAfterDelete(d)'
    BY <2>4, <2>6 DEF SyncedAfterDelete
  <2> QED
    BY <2>1, <2>3, <2>4, <2>8, <2>9, <2>10, <2>11, <2>12 DEF WorkedOff
<1> QED
  BY <1>3, <1>4 DEF OrderKept

(* The worker takes a waiting job. *)
LEMMA TakeStep ==
    ASSUME TypeOK, OrderKept, NEW k \in Keys, Take(k)
    PROVE  OrderKept'
<1> USE DEF external, kafka, queue, work, neo4j, bounds
<1>1. jobs[k] \in Job /\ jobs[k].key = k /\ jobs[k] # NoJob
  BY DEF Take, TypeOK
<1>2. /\ current' = jobs[k] /\ worker = "ready"
      /\ worker' = IF HasDeletes(jobs[k]) THEN "deleting" ELSE SyncPhase(jobs[k])
      /\ \A o \in Keys : jobs'[o] = IF o = k THEN NoJob ELSE jobs[o]
      /\ UNCHANGED <<dvd, log, received, retries, todo, ingesting, edition, graph>>
  BY DEF Take, TypeOK
<1>3. Steady'
  BY <1>2 DEF OrderKept, Steady, SyncPhase
<1>4. ASSUME NEW d \in Docs
      PROVE  Indexed(d)' /\ WorkedOff(d)'
  <2>0. KeyOf[d] \in Keys
    BY DEF Keys
  <2>1. Indexed(d) /\ WorkedOff(d)
    BY DEF OrderKept
  <2>2. \A i : Removal(i, d)' <=> Removal(i, d)
    BY <1>2 DEF Removal
  <2>3. Indexed(d)'
    BY <1>2, <2>1, <2>2 DEF Indexed
  <2>4. /\ RetriesToSync(d)' <=> RetriesToSync(d)
        /\ RetriesToReplace(d)' <=> RetriesToReplace(d)
        /\ Gone(d)' <=> Gone(d)
        /\ Stored(d)' <=> Stored(d)
        /\ Clean(d)' <=> Clean(d)
        /\ Announced(d)' <=> Announced(d)
        /\ RemovalAhead(d)' <=> RemovalAhead(d)
    BY <1>2, <2>2 DEF RetriesToSync, RetriesToReplace, Gone, Stored, Clean, FetchedLatest,
                      Announced, RemovalAhead
  <2>5. ~RunsToDelete(d) /\ ~RunsToSync(d) /\ ~RunsToReplace(d)
    BY <1>2 DEF RunsToDelete, RunsToSync, RunsToReplace
  <2>6. CASE KeyOf[d] = k
    <3>1. ~WaitsToDelete(d)' /\ ~WaitsToSync(d)' /\ ~WaitsToReplace(d)'
      BY <1>2, <2>0, <2>6 DEF WaitsToDelete, WaitsToSync, WaitsToReplace
    <3>2. WaitsToDelete(d) <=> RunsToDelete(d)'
      <4>1. Deletes(jobs[k], d) => HasDeletes(jobs[k])
        BY DEF Deletes, HasDeletes
      <4> QED
        BY <1>1, <1>2, <2>6, <4>1
           DEF WaitsToDelete, RunsToDelete, SyncPhase, Deletes
    <3>3. WaitsToSync(d) <=> RunsToSync(d)'
      BY <1>1, <1>2, <2>6 DEF WaitsToSync, RunsToSync, SyncPhase
    <3>4. WaitsToReplace(d) <=> RunsToReplace(d)'
      BY <1>1, <1>2, <2>6, <3>3 DEF WaitsToSync, WaitsToReplace, RunsToReplace
    <3> QED
      BY <1>2, <2>1, <2>3, <2>4, <2>5, <3>1, <3>2, <3>3, <3>4
         DEF WorkedOff, DeletePending, SyncPending, ReplacePending, SyncedAfterDelete
  <2>7. CASE KeyOf[d] # k
    <3>1. /\ WaitsToDelete(d)' <=> WaitsToDelete(d)
          /\ WaitsToSync(d)' <=> WaitsToSync(d)
          /\ WaitsToReplace(d)' <=> WaitsToReplace(d)
      BY <1>2, <2>0, <2>7 DEF WaitsToDelete, WaitsToSync, WaitsToReplace, Deletes
    <3>2. ~RunsToDelete(d)' /\ ~RunsToSync(d)' /\ ~RunsToReplace(d)'
      BY <1>1, <1>2, <2>7 DEF RunsToDelete, RunsToSync, RunsToReplace
    <3> QED
      BY <1>2, <2>1, <2>3, <2>4, <2>5, <3>1, <3>2
         DEF WorkedOff, DeletePending, SyncPending, ReplacePending, SyncedAfterDelete
  <2> QED
    BY <2>6, <2>7
<1> QED
  BY <1>3, <1>4 DEF OrderKept

(* delete_name removes what is stored of the documents of its key it was asked to. *)
LEMMA DeleteNameStep == NamesApart /\ TypeOK /\ OwnWork /\ OrderKept /\ DeleteName => OrderKept'
<1> SUFFICES ASSUME NamesApart, TypeOK, OwnWork, OrderKept, DeleteName
             PROVE  OrderKept'
  OBVIOUS
<1> USE DEF external, kafka, queue, work, neo4j, bounds
<1>1. current \in Job /\ current.key \in Keys /\ current # NoJob /\ ingesting = NoDoc
  BY DEF DeleteName, TypeOK, Job, OwnWork
<1>2. /\ worker = "deleting" /\ worker' = SyncPhase(current)
      /\ graph' = [d \in Docs |-> IF d \in Targets(current) THEN Absent ELSE graph[d]]
      /\ UNCHANGED <<dvd, log, received, jobs, retries, current, todo, ingesting, edition>>
  BY DEF DeleteName
<1>3. Steady'
  BY <1>2 DEF OrderKept, Steady, SyncPhase
<1>4. Reach(current.key) = DocsOf(current.key)
  BY <1>1, ReachesOwn
<1>5. ASSUME NEW d \in Docs
      PROVE  Indexed(d)' /\ WorkedOff(d)'
  <2>1. Indexed(d) /\ WorkedOff(d)
    BY DEF OrderKept
  <2>2. \A i : Removal(i, d)' <=> Removal(i, d)
    BY <1>2 DEF Removal
  <2>3. Indexed(d)'
    BY <1>2, <2>1, <2>2 DEF Indexed
  <2>4. /\ RetriesToSync(d)' <=> RetriesToSync(d)
        /\ RetriesToReplace(d)' <=> RetriesToReplace(d)
        /\ WaitsToDelete(d)' <=> WaitsToDelete(d)
        /\ WaitsToSync(d)' <=> WaitsToSync(d)
        /\ WaitsToReplace(d)' <=> WaitsToReplace(d)
        /\ Announced(d)' <=> Announced(d)
        /\ RemovalAhead(d)' <=> RemovalAhead(d)
    BY <1>2, <2>2 DEF RetriesToSync, RetriesToReplace, WaitsToDelete, WaitsToSync,
                      WaitsToReplace, Deletes, Announced, RemovalAhead
  <2>5. RunsToSync(d) => RunsToSync(d)'
    BY <1>2 DEF RunsToSync, SyncPhase
  <2>6. RunsToReplace(d) => RunsToReplace(d)'
    BY <1>2, <2>5 DEF RunsToReplace
  <2>7. ~RunsToDelete(d)'
    BY <1>2 DEF RunsToDelete, SyncPhase
  <2>8. ingesting # d
    BY <1>1, ConstantsAssumption DEF ConstantsAssumption
  <2>9. CASE RunsToDelete(d)
    <3>1. graph'[d] = Absent
      <4>1. d \in Reach(current.key) /\ Deletes(current, d)
        BY <1>4, <2>9 DEF RunsToDelete, DocsOf
      <4>2. graph[d].edition = 0 => graph[d] = Absent
        BY DEF OrderKept, Steady
      <4> QED
        BY <1>2, <4>1, <4>2 DEF Targets, StoredByName, Deletes
    <3>2. Gone(d)' /\ Clean(d)'
      BY <1>2, <2>8, <3>1 DEF Gone, Clean, FetchedLatest, Absent
    <3> QED
      BY <1>2, <2>1, <2>3, <2>4, <2>5, <2>7, <2>9, <3>2
         DEF WorkedOff, SyncPending, SyncedAfterDelete
  <2>10. CASE ~RunsToDelete(d)
    <3>1. graph'[d] = graph[d]
      BY <1>2, <1>4, <2>10 DEF Targets, StoredByName, RunsToDelete, Deletes, DocsOf
    <3>2. /\ Gone(d)' <=> Gone(d)
          /\ Stored(d)' <=> Stored(d)
          /\ Clean(d)' <=> Clean(d)
      BY <1>2, <3>1 DEF Gone, Stored, Clean, FetchedLatest
    <3> QED
      BY <1>2, <2>1, <2>3, <2>4, <2>5, <2>6, <2>7, <2>10, <3>2
         DEF WorkedOff, DeletePending, SyncPending, ReplacePending, SyncedAfterDelete
  <2> QED
    BY <2>9, <2>10
<1> QED
  BY <1>3, <1>5 DEF OrderKept

(* Steps of a running sync that only move through IDU_DVD's documents. *)
LEMMA SyncMoves ==
    ASSUME TypeOK, OrderKept, worker # "deleting", worker' # "deleting",
           UNCHANGED <<dvd, log, received, jobs, retries, current, graph>>,
           Steady',
           \A d \in Docs : dvd[d] # 0 /\ RunsToSync(d) => RunsToSync(d)',
           \A d \in Docs : ingesting' = d => ingesting = d \/ (dvd[d] # 0 /\ edition' = dvd[d]),
           ingesting' = ingesting => edition' = edition
    PROVE  OrderKept'
<1>1. ASSUME NEW d \in Docs
      PROVE  Indexed(d)' /\ WorkedOff(d)'
  <2>1. Indexed(d) /\ WorkedOff(d)
    BY DEF OrderKept
  <2>2. \A i : Removal(i, d)' <=> Removal(i, d)
    BY DEF Removal
  <2>3. Indexed(d)'
    BY <2>1, <2>2 DEF Indexed
  <2>4. /\ RetriesToSync(d)' <=> RetriesToSync(d)
        /\ RetriesToReplace(d)' <=> RetriesToReplace(d)
        /\ WaitsToDelete(d)' <=> WaitsToDelete(d)
        /\ WaitsToSync(d)' <=> WaitsToSync(d)
        /\ WaitsToReplace(d)' <=> WaitsToReplace(d)
        /\ Announced(d)' <=> Announced(d)
        /\ RemovalAhead(d)' <=> RemovalAhead(d)
    BY <2>2 DEF RetriesToSync, RetriesToReplace, WaitsToDelete, WaitsToSync,
                WaitsToReplace, Deletes, Announced, RemovalAhead
  <2>5. ~RunsToDelete(d) /\ ~RunsToDelete(d)'
    BY DEF RunsToDelete
  <2>6. dvd[d] # 0 => /\ RunsToSync(d) => RunsToSync(d)'
                      /\ RunsToReplace(d) => RunsToReplace(d)'
    BY DEF RunsToReplace
  <2>7. dvd' = dvd /\ log' = log /\ graph' = graph
    OBVIOUS
  <2>8. FetchedLatest(d) => FetchedLatest(d)'
    BY <2>7 DEF FetchedLatest
  <2>9. /\ dvd[d] = 0 /\ Gone(d) => Gone(d)'
        /\ Stored(d) => Stored(d)'
        /\ Clean(d) => Clean(d)'
    BY <2>7, <2>8 DEF Gone, Stored, Clean
  <2> QED
    BY <2>1, <2>3, <2>4, <2>5, <2>6, <2>7, <2>9
       DEF WorkedOff, DeletePending, SyncPending, ReplacePending, SyncedAfterDelete
<1> QED
  BY <1>1 DEF OrderKept

LEMMA ResolveStep == TypeOK /\ OwnWork /\ OrderKept /\ Resolve => OrderKept'
<1> SUFFICES ASSUME TypeOK, OwnWork, OrderKept, Resolve
             PROVE  OrderKept'
  OBVIOUS
<1> USE DEF external, kafka, queue, work, neo4j, bounds
<1>1. /\ worker = "resolving"
      /\ worker' = IF todo' = {} THEN "finishing" ELSE "syncing"
      /\ UNCHANGED <<dvd, log, received, jobs, retries, current, graph, ingesting, edition>>
  BY DEF Resolve
<1>2. \A d \in DocsOf(current.key) : dvd[d] # 0 => d \in todo'
  BY DEF Resolve, DocsOf
<1>3. ASSUME NEW d \in Docs, RunsToSync(d), dvd[d] # 0
      PROVE  RunsToSync(d)'
  BY <1>1, <1>2, <1>3 DEF RunsToSync, DocsOf
<1>4. Steady'
  BY <1>1 DEF OrderKept, Steady
<1> QED
  BY <1>1, <1>3, <1>4, SyncMoves

LEMMA FetchStep ==
    ASSUME TypeOK, OwnWork, OrderKept, NEW d \in Docs, Fetch(d)
    PROVE  OrderKept'
<1> USE DEF external, kafka, queue, work, neo4j, bounds
<1>1. /\ worker = "syncing" /\ ingesting = NoDoc /\ d \in todo /\ todo' = todo \ {d}
      /\ UNCHANGED <<dvd, log, received, jobs, retries, current, graph>>
  BY DEF Fetch
<1>2. CASE dvd[d] # 0
  <2>1. ingesting' = d /\ edition' = dvd[d] /\ worker' = "syncing"
    BY <1>1, <1>2 DEF Fetch
  <2>2. \A e \in Docs : RunsToSync(e) => RunsToSync(e)'
    BY <1>1, <2>1, ConstantsAssumption DEF RunsToSync, ConstantsAssumption
  <2>3. Steady'
    BY <1>1, <1>2, <2>1 DEF OrderKept, Steady
  <2> QED
    BY <1>1, <1>2, <2>1, <2>2, <2>3, SyncMoves, ConstantsAssumption DEF ConstantsAssumption
<1>3. CASE dvd[d] = 0
  <2>1. /\ ingesting' = ingesting /\ edition' = edition
        /\ worker' = IF todo' = {} THEN "finishing" ELSE worker
    BY <1>1, <1>3 DEF Fetch
  <2>2. \A e \in Docs : dvd[e] # 0 /\ RunsToSync(e) => RunsToSync(e)'
    BY <1>1, <1>3, <2>1, ConstantsAssumption DEF RunsToSync, ConstantsAssumption
  <2>3. Steady'
    BY <1>1, <2>1 DEF OrderKept, Steady
  <2> QED
    BY <1>1, <2>1, <2>2, <2>3, SyncMoves, ConstantsAssumption DEF ConstantsAssumption
<1> QED
  BY <1>2, <1>3

(* A document is stored as it was read; when that is no longer what IDU_DVD holds, *)
(* something is pending that will read it again.                                    *)
LEMMA SynchronisedStep == TypeOK /\ OwnWork /\ OrderKept /\ Synchronised => OrderKept'
<1> SUFFICES ASSUME TypeOK, OwnWork, OrderKept, Synchronised
             PROVE  OrderKept'
  OBVIOUS
<1> USE DEF external, kafka, queue, work, neo4j, bounds
<1>1. /\ worker = "syncing" /\ ingesting \in Docs /\ ingesting # NoDoc /\ edition \in Nat \ {0}
      /\ ingesting' = NoDoc /\ todo' = todo
      /\ worker' = IF todo = {} THEN "finishing" ELSE worker
      /\ UNCHANGED <<dvd, log, received, jobs, retries, current>>
  BY DEF Synchronised, TypeOK, OrderKept, Steady
<1>2. /\ current \in Job /\ current # NoJob /\ current.sync /\ current.replace \in BOOLEAN
      /\ KeyOf[ingesting] = current.key
  BY <1>1 DEF TypeOK, Job, OwnWork, DocsOf, OrderKept, Steady
<1>3. \A d \in Docs :
        graph'[d] = IF d = ingesting THEN Synced(graph[d], edition, current.replace)
                    ELSE graph[d]
  BY <1>1 DEF Synchronised, TypeOK
<1>4. NoDoc \notin Docs
  BY ConstantsAssumption DEF ConstantsAssumption
<1>5. Steady'
  <2>1. ASSUME NEW d \in Docs, graph'[d].edition = 0
        PROVE  graph'[d] = Absent
    <3>1. Synced(graph[d], edition, current.replace).edition # 0
      BY <1>1 DEF Synced
    <3>2. graph'[d] = graph[d]
      BY <1>3, <2>1, <3>1
    <3> QED
      BY <2>1, <3>2 DEF OrderKept, Steady
  <2> QED
    BY <1>1, <1>2, <2>1 DEF OrderKept, Steady
<1>6. ASSUME NEW d \in Docs
      PROVE  Indexed(d)' /\ WorkedOff(d)'
  <2>1. Indexed(d) /\ WorkedOff(d)
    BY DEF OrderKept
  <2>2. \A i : Removal(i, d)' <=> Removal(i, d)
    BY <1>1 DEF Removal
  <2>3. Indexed(d)'
    BY <1>1, <2>1, <2>2 DEF Indexed
  <2>4. /\ RetriesToSync(d)' <=> RetriesToSync(d)
        /\ RetriesToReplace(d)' <=> RetriesToReplace(d)
        /\ WaitsToDelete(d)' <=> WaitsToDelete(d)
        /\ WaitsToSync(d)' <=> WaitsToSync(d)
        /\ WaitsToReplace(d)' <=> WaitsToReplace(d)
        /\ Announced(d)' <=> Announced(d)
        /\ RemovalAhead(d)' <=> RemovalAhead(d)
    BY <1>1, <2>2 DEF RetriesToSync, RetriesToReplace, WaitsToDelete, WaitsToSync,
                      WaitsToReplace, Deletes, Announced, RemovalAhead
  <2>5. ~RunsToDelete(d) /\ ~RunsToDelete(d)'
    BY <1>1 DEF RunsToDelete
  <2>6. RunsToSync(d) => RunsToSync(d)' \/ (ingesting = d /\ edition = dvd[d])
    BY <1>1 DEF RunsToSync
  <2>7. dvd'[d] = dvd[d] /\ log' = log /\ received' = received /\ current' = current
    BY <1>1
  <2>8. CASE ingesting # d
    <3>1. graph'[d] = graph[d] /\ ingesting' # d
      BY <1>1, <1>3, <1>4, <2>8
    <3>2. /\ Gone(d) => Gone(d)'
          /\ Stored(d) => Stored(d)'
          /\ Clean(d) => Clean(d)'
      BY <2>7, <3>1 DEF Gone, Stored, Clean, FetchedLatest
    <3>3. RunsToReplace(d) => RunsToReplace(d)'
      BY <2>6, <2>7, <2>8 DEF RunsToReplace
    <3> QED
      BY <2>1, <2>3, <2>4, <2>5, <2>6, <2>7, <2>8, <3>2, <3>3
         DEF WorkedOff, DeletePending, SyncPending, ReplacePending, SyncedAfterDelete
  <2>9. CASE ingesting = d /\ edition # dvd[d]
    <3>1. ~Gone(d) /\ ~Stored(d) /\ ~Clean(d)
      BY <2>9 DEF Gone, Stored, Clean, FetchedLatest
    <3>2. RunsToReplace(d) => RunsToReplace(d)'
      BY <2>6, <2>7, <2>9 DEF RunsToReplace
    <3> QED
      BY <2>1, <2>3, <2>4, <2>5, <2>6, <2>7, <2>9, <3>1, <3>2
         DEF WorkedOff, DeletePending, SyncPending, ReplacePending, SyncedAfterDelete
  <2>10. CASE ingesting = d /\ edition = dvd[d]
    <3>1. dvd[d] # 0 /\ dvd[d] \in Nat /\ received \in Nat
      BY <1>1, <2>10 DEF TypeOK
    <3>2. graph'[d] = Synced(graph[d], dvd[d], current.replace) /\ ingesting' # d
      BY <1>1, <1>3, <1>4, <2>10
    <3>3. Clean(d) \/ RunsToReplace(d) => Stored(d)' /\ Clean(d)'
      BY <2>7, <3>2 DEF Clean, RunsToReplace, Stored, FetchedLatest, Synced
    <3>4. RemovalAhead(d) => Announced(d)
      BY <2>1, <3>1 DEF Indexed, RemovalAhead, Announced, TypeOK
    <3>5. DeletePending(d) => SyncPending(d)'
      BY <2>1, <2>4, <2>5, <3>1, <3>4
         DEF WorkedOff, DeletePending, SyncedAfterDelete, SyncPending
    <3>6. DeletePending(d) => DeletePending(d)'
      BY <2>4, <2>5 DEF DeletePending
    <3>7. ReplacePending(d) /\ ~RunsToReplace(d) => SyncPending(d)' /\ ReplacePending(d)'
      BY <2>4, <2>7 DEF ReplacePending, SyncPending, WaitsToReplace, RetriesToReplace,
                        RetriesToSync
    <3>8. SyncedAfterDelete(d)'
      BY <2>1, <2>4, <2>5, <3>1 DEF WorkedOff, SyncedAfterDelete
    <3> QED
      BY <2>1, <2>3, <2>7, <3>1, <3>3, <3>5, <3>6, <3>7, <3>8 DEF WorkedOff
  <2> QED
    BY <2>8, <2>9, <2>10
<1> QED
  BY <1>5, <1>6 DEF OrderKept

(* As long as the pause fits a float, a failed job goes to sleep. *)
LEMMA FailedSleeps ==
    ASSUME TypeOK, SyncFails, Undisturbed, Undisturbed'
    PROVE  retries' = retries \cup {[current EXCEPT !.attempts = @ + 1]}
<1>1. failures' = [failures EXCEPT !["sync"] = @ + 1,
                     !["overflow"] = IF current.attempts < FloatExponents THEN @ ELSE @ + 1]
  BY DEF SyncFails, Failed
<1>2. failures \in [Parts \cup {"overflow"} -> Nat] /\ "overflow" \in Parts \cup {"overflow"}
  BY DEF TypeOK
<1>3. failures'["overflow"] = 0 /\ failures["overflow"] = 0
  BY DEF Undisturbed
<1>4. current.attempts < FloatExponents
  BY <1>1, <1>2, <1>3 DEF Parts
<1> QED
  BY <1>4 DEF SyncFails, Failed

(* A sync that raises is put to sleep with all it was asked for. *)
LEMMA SyncFailsStep ==
    TypeOK /\ OwnWork /\ OrderKept /\ SyncFails /\ Undisturbed /\ Undisturbed' => OrderKept'
<1> SUFFICES ASSUME TypeOK, OwnWork, OrderKept, SyncFails, Undisturbed, Undisturbed'
             PROVE  OrderKept'
  OBVIOUS
<1> DEFINE asleep == [current EXCEPT !.attempts = @ + 1]
<1> USE DEF external, kafka, queue, work, neo4j, bounds
<1>1. /\ worker \in {"resolving", "syncing"} /\ worker' = "ready" /\ ingesting' = NoDoc
      /\ graph' \in CutShort
      /\ UNCHANGED <<dvd, log, received, jobs>>
  BY DEF SyncFails, Failed
<1>2. current \in Job /\ current # NoJob /\ current.sync
  BY <1>1 DEF TypeOK, OrderKept, Steady
<1>3. retries' = retries \cup {asleep}
  BY FailedSleeps
<1>4. asleep.key = current.key /\ asleep.sync /\ (asleep.replace <=> current.replace)
  BY <1>2 DEF Job
<1> HIDE DEF asleep
<1>5. NoDoc \notin Docs
  BY ConstantsAssumption DEF ConstantsAssumption
<1>6. \A d \in Docs :
        \/ graph'[d] = graph[d]
        \/ ingesting = d /\ graph'[d] = HalfSynced(graph[d], edition)
  <2>1. graph' = graph \/ graph' = [graph EXCEPT ![ingesting] = HalfSynced(@, edition)]
    BY <1>1 DEF CutShort
  <2> QED
    BY <2>1 DEF TypeOK
<1>7. Steady'
  <2>1. \A job \in retries' : job.sync
    BY <1>3, <1>4 DEF OrderKept, Steady
  <2>2. ASSUME NEW d \in Docs, graph'[d].edition = 0
        PROVE  graph'[d] = Absent
    <3>1. ingesting = d => HalfSynced(graph[d], edition).edition # 0
      BY <1>5 DEF OrderKept, Steady, HalfSynced
    <3> QED
      BY <1>6, <2>2, <3>1 DEF OrderKept, Steady
  <2> QED
    BY <1>1, <2>1, <2>2 DEF Steady
<1>8. ASSUME NEW d \in Docs
      PROVE  Indexed(d)' /\ WorkedOff(d)'
  <2>1. Indexed(d) /\ WorkedOff(d)
    BY DEF OrderKept
  <2>2. \A i : Removal(i, d)' <=> Removal(i, d)
    BY <1>1 DEF Removal
  <2>3. Indexed(d)'
    BY <1>1, <2>1, <2>2 DEF Indexed
  <2>4. /\ WaitsToDelete(d)' <=> WaitsToDelete(d)
        /\ WaitsToSync(d)' <=> WaitsToSync(d)
        /\ WaitsToReplace(d)' <=> WaitsToReplace(d)
        /\ Announced(d)' <=> Announced(d)
        /\ RemovalAhead(d)' <=> RemovalAhead(d)
    BY <1>1, <2>2 DEF WaitsToDelete, WaitsToSync, WaitsToReplace, Deletes, Announced,
                      RemovalAhead
  <2>5. ~RunsToDelete(d) /\ ~RunsToDelete(d)'
    BY <1>1 DEF RunsToDelete
  <2>6. /\ RetriesToSync(d) \/ RunsToSync(d) => RetriesToSync(d)'
        /\ RetriesToReplace(d) \/ RunsToReplace(d) => RetriesToReplace(d)'
    BY <1>3, <1>4 DEF RetriesToSync, RetriesToReplace, RunsToSync, RunsToReplace
  <2>7. dvd'[d] = dvd[d] /\ log' = log /\ ingesting' # d
    BY <1>1, <1>5
  <2>8. Stored(d) => Stored(d)' \/ RetriesToSync(d)'
    <3>1. ingesting = d => RetriesToSync(d)'
      BY <1>3, <1>4, <1>5 DEF OwnWork, DocsOf, RetriesToSync
    <3> QED
      BY <1>6, <2>7, <3>1 DEF Stored, FetchedLatest
  <2>9. Gone(d) => Gone(d)'
    BY <1>6, <2>7 DEF Gone
  <2>10. Clean(d) => Clean(d)'
    <3>1. graph[d].edition \in {0, edition} /\ graph[d].state # "stale" =>
            HalfSynced(graph[d], edition) = [edition |-> edition, state |-> "partial"]
      BY DEF HalfSynced
    <3> QED
      BY <1>6, <2>7, <3>1 DEF Clean, FetchedLatest
  <2> QED
    BY <2>1, <2>3, <2>4, <2>5, <2>6, <2>7, <2>8, <2>9, <2>10
       DEF WorkedOff, DeletePending, SyncPending, ReplacePending, SyncedAfterDelete
<1> QED
  BY <1>7, <1>8 DEF OrderKept

(* IDU_DVD publishes an event: what was published stays as it was. *)
LEMMA PublishKeeps ==
    ASSUME TypeOK, NEW kind \in {"processed", "updated", "deleted"}, NEW k \in Keys,
           NEW versions \in SUBSET Docs, NEW removed \in BOOLEAN,
           Publish(kind, k, versions, removed)
    PROVE  /\ Len(log') = Len(log) + 1 /\ Len(log) \in Nat /\ received \in 0..Len(log)
           /\ \A i \in 1..Len(log) : log'[i] = log[i]
           /\ log'[Len(log) + 1].kind = kind /\ log'[Len(log) + 1].key = k
           /\ \A d \in Docs, i \in 1..Len(log') :
                Removal(i, d)' <=> IF i <= Len(log) THEN Removal(i, d)
                                   ELSE KeyOf[d] = k /\ (removed \/ d \in versions)
           /\ UNCHANGED <<received, jobs, retries, worker, current, todo, ingesting, edition,
                          graph>>
<1> DEFINE event == [kind |-> kind, key |-> k, versions_removed |-> versions,
                     document_removed |-> removed]
<1>1. event \in Event
  BY DEF Event
<1>2. log' = Append(log, event)
  BY DEF Publish
<1>3. /\ event.kind = kind /\ event.key = k /\ event.versions_removed = versions
      /\ event.document_removed = removed
  OBVIOUS
<1> HIDE DEF event
<1>4. /\ Len(log') = Len(log) + 1 /\ Len(log) \in Nat
      /\ \A i \in 1..Len(log) : log'[i] = log[i]
      /\ log'[Len(log) + 1] = event
  BY <1>1, <1>2, AppendProperties DEF TypeOK
<1>5. UNCHANGED <<received, jobs, retries, worker, current, todo, ingesting, edition, graph>>
  BY DEF Publish, kafka, queue, work, neo4j
<1>6. received \in 0..Len(log)
  BY <1>4 DEF TypeOK
<1>7. ASSUME NEW d \in Docs, NEW i \in 1..Len(log')
      PROVE  Removal(i, d)' <=> IF i <= Len(log) THEN Removal(i, d)
                                ELSE KeyOf[d] = k /\ (removed \/ d \in versions)
  <2>1. CASE i <= Len(log)
    BY <1>4, <2>1 DEF Removal
  <2>2. CASE i = Len(log) + 1
    <3>1. log'[i] = event
      BY <1>4, <2>2
    <3> QED
      BY <1>3, <1>4, <2>2, <3>1 DEF Removal
  <2> QED
    BY <1>4, <2>1, <2>2
<1> QED
  BY <1>3, <1>4, <1>5, <1>6, <1>7

(* Documents the event does not change. *)
LEMMA OtherDocument ==
    ASSUME TypeOK, OrderKept, NEW d \in Docs, dvd'[d] = dvd[d],
           Len(log') = Len(log) + 1, Len(log) \in Nat, received \in 0..Len(log),
           \A i \in 1..Len(log) : log'[i] = log[i],
           \A i \in 1..Len(log') :
                IF i <= Len(log) THEN Removal(i, d)' <=> Removal(i, d)
                ELSE dvd[d] # 0 => ~Removal(i, d)',
           UNCHANGED <<received, jobs, retries, worker, current, todo, ingesting, edition,
                       graph>>
    PROVE  Indexed(d)' /\ WorkedOff(d)'
<1>1. Indexed(d) /\ WorkedOff(d) /\ dvd[d] \in Nat
  BY DEF OrderKept, TypeOK
<1>2. Indexed(d)'
  <2>1. ASSUME dvd[d] # 0, NEW i \in dvd[d]..Len(log')
        PROVE  ~Removal(i, d)'
    <3>1. i \in dvd[d]..Len(log) \/ i = Len(log) + 1
      BY <1>1
    <3>2. i \in dvd[d]..Len(log) => i \in 1..Len(log)
      BY <1>1, <2>1
    <3> QED
      BY <1>1, <2>1, <3>1, <3>2 DEF Indexed
  <2> QED
    BY <1>1, <2>1 DEF Indexed
<1>3. RemovalAhead(d) => RemovalAhead(d)'
  BY DEF RemovalAhead
<1>4. /\ WaitsToDelete(d)' <=> WaitsToDelete(d)
      /\ WaitsToSync(d)' <=> WaitsToSync(d)
      /\ WaitsToReplace(d)' <=> WaitsToReplace(d)
      /\ RetriesToSync(d)' <=> RetriesToSync(d)
      /\ RetriesToReplace(d)' <=> RetriesToReplace(d)
      /\ RunsToDelete(d)' <=> RunsToDelete(d)
      /\ RunsToSync(d)' <=> RunsToSync(d)
      /\ RunsToReplace(d)' <=> RunsToReplace(d)
      /\ Announced(d)' <=> Announced(d)
      /\ Gone(d)' <=> Gone(d)
      /\ Stored(d)' <=> Stored(d)
      /\ Clean(d)' <=> Clean(d)
  BY DEF WaitsToDelete, WaitsToSync, WaitsToReplace, RetriesToSync, RetriesToReplace,
         RunsToDelete, RunsToSync, RunsToReplace, Deletes, Announced, Gone, Stored, Clean,
         FetchedLatest
<1>5. dvd[d] # 0 => log'[dvd[d]].kind = log[dvd[d]].kind
  BY <1>1 DEF Indexed
<1> QED
  BY <1>1, <1>2, <1>3, <1>4, <1>5
     DEF WorkedOff, DeletePending, SyncPending, ReplacePending, SyncedAfterDelete

LEMMA IndexStep ==
    ASSUME TypeOK, OrderKept, NEW c \in Docs, Index(c)
    PROVE  OrderKept'
<1>1. KeyOf[c] \in Keys
  BY DEF Keys
<1>2. PICK kind \in {"processed", "updated"} :
        /\ Publish(kind, KeyOf[c], {}, FALSE)
        /\ dvd[c] # 0 => kind = "updated"
  <2>1. dvd[c] # 0 => ~(\A o \in DocsOf(KeyOf[c]) : dvd[o] = 0)
    BY DEF DocsOf
  <2> QED
    BY <2>1 DEF Index
<1>3. /\ Len(log') = Len(log) + 1 /\ Len(log) \in Nat /\ received \in 0..Len(log)
      /\ \A i \in 1..Len(log) : log'[i] = log[i]
      /\ log'[Len(log) + 1].kind = kind /\ log'[Len(log) + 1].key = KeyOf[c]
      /\ \A d \in Docs, i \in 1..Len(log') :
            Removal(i, d)' <=> i <= Len(log) /\ Removal(i, d)
      /\ UNCHANGED <<received, jobs, retries, worker, current, todo, ingesting, edition, graph>>
  <2>1. /\ kind \in {"processed", "updated", "deleted"}
        /\ {} \in SUBSET Docs /\ FALSE \in BOOLEAN
    OBVIOUS
  <2>2. \A d \in Docs, i \in 1..Len(log') :
            Removal(i, d)' <=> IF i <= Len(log) THEN Removal(i, d)
                               ELSE KeyOf[d] = KeyOf[c] /\ (FALSE \/ d \in {})
    BY <1>1, <1>2, <2>1, PublishKeeps
  <2>3. \A d \in Docs, i \in 1..Len(log') : Removal(i, d)' <=> i <= Len(log) /\ Removal(i, d)
    BY <2>2
  <2> QED
    BY <1>1, <1>2, <2>1, <2>3, PublishKeeps
<1>4. \A d \in Docs : dvd'[d] = IF d = c THEN Len(log) + 1 ELSE dvd[d]
  BY DEF Index, TypeOK
<1>5. Steady'
  BY <1>3 DEF OrderKept, Steady
<1>6. ASSUME NEW d \in Docs, d # c
      PROVE  Indexed(d)' /\ WorkedOff(d)'
  BY <1>3, <1>4, <1>6, OtherDocument
<1>7. Indexed(c)'
  <2>1. dvd'[c] = Len(log')
    BY <1>3, <1>4
  <2>2. \A i \in dvd'[c]..Len(log') : i = Len(log) + 1
    BY <1>3, <2>1
  <2> QED
    BY <1>3, <2>1, <2>2 DEF Indexed
<1>8. WorkedOff(c)'
  <2>1. dvd'[c] # 0 /\ Announced(c)' /\ log'[dvd'[c]].kind = kind
    BY <1>3, <1>4 DEF Announced
  <2>2. WorkedOff(c)
    BY DEF OrderKept
  <2>3. CASE dvd[c] # 0
    BY <1>2, <2>1, <2>3 DEF WorkedOff, SyncPending, ReplacePending, SyncedAfterDelete
  <2>4. CASE dvd[c] = 0
    <3>1. Gone(c) => Clean(c)'
      BY <1>3 DEF Gone, Clean, FetchedLatest, Absent
    <3>2. RemovalAhead(c) => RemovalAhead(c)'
      BY <1>3 DEF RemovalAhead
    <3>3. DeletePending(c) => DeletePending(c)'
      BY <1>3, <3>2 DEF DeletePending, WaitsToDelete, RunsToDelete, Deletes
    <3> QED
      BY <2>1, <2>2, <2>4, <3>1, <3>3 DEF WorkedOff, SyncPending, SyncedAfterDelete
  <2> QED
    BY <2>3, <2>4
<1> QED
  BY <1>5, <1>6, <1>7, <1>8 DEF OrderKept

LEMMA UnregisterStep ==
    ASSUME TypeOK, OrderKept, NEW k \in Keys, NEW gone \in SUBSET DocsOf(k),
           Unregister(k, gone)
    PROVE  OrderKept'
<1> DEFINE held == {d \in DocsOf(k) : dvd[d] # 0}
<1>1. gone \in SUBSET Docs /\ Publish("deleted", k, gone, gone = held)
  BY DEF Unregister, DocsOf
<1>2. /\ Len(log') = Len(log) + 1 /\ Len(log) \in Nat /\ received \in 0..Len(log)
      /\ \A i \in 1..Len(log) : log'[i] = log[i]
      /\ \A d \in Docs, i \in 1..Len(log') :
            Removal(i, d)' <=> IF i <= Len(log) THEN Removal(i, d)
                               ELSE KeyOf[d] = k /\ (gone = held \/ d \in gone)
      /\ UNCHANGED <<received, jobs, retries, worker, current, todo, ingesting, edition, graph>>
  BY <1>1, PublishKeeps
<1>3. \A d \in Docs : dvd'[d] = IF d \in gone THEN 0 ELSE dvd[d]
  BY DEF Unregister
<1>4. Steady'
  BY <1>2 DEF OrderKept, Steady
<1>5. ASSUME NEW d \in Docs, d \notin gone
      PROVE  Indexed(d)' /\ WorkedOff(d)'
  <2>1. \A i \in 1..Len(log') : IF i <= Len(log) THEN Removal(i, d)' <=> Removal(i, d)
                               ELSE dvd[d] # 0 => ~Removal(i, d)'
    <3>1. dvd[d] # 0 /\ KeyOf[d] = k => d \in held
      BY DEF DocsOf
    <3> QED
      BY <1>2, <1>5, <3>1
  <2> QED
    BY <1>2, <1>3, <1>5, <2>1, OtherDocument
<1>6. ASSUME NEW d \in gone
      PROVE  Indexed(d)' /\ WorkedOff(d)'
  <2>1. d \in Docs /\ dvd'[d] = 0 /\ KeyOf[d] = k
    BY <1>1, <1>3 DEF DocsOf
  <2>2. PICK i \in 1..Len(log') : i = Len(log) + 1
    BY <1>2
  <2>3. RemovalAhead(d)'
    <3>1. Removal(i, d)' /\ i \in (received' + 1)..Len(log')
      BY <1>2, <2>1, <2>2
    <3> QED
      BY <3>1 DEF RemovalAhead
  <2> QED
    BY <2>1, <2>3 DEF Indexed, WorkedOff, DeletePending
<1> QED
  BY <1>4, <1>5, <1>6 DEF OrderKept

(* The hypothesis never comes back once it fails. *)
LEMMA DisturbedForGood == TypeOK /\ [Next]_vars /\ Undisturbed' => Undisturbed
<1> SUFFICES ASSUME TypeOK, [Next]_vars, Undisturbed'
             PROVE  Undisturbed
  OBVIOUS
<1> USE DEF external, kafka, queue, work, neo4j, bounds
<1>1. crashes \in Nat /\ failures \in [Parts \cup {"overflow"} -> Nat]
  BY DEF TypeOK
<1>2. ASSUME UNCHANGED <<failures, crashes>>
      PROVE  Undisturbed
  BY <1>2 DEF Undisturbed
<1>3. ASSUME NEW part \in Parts, Failed(part)
      PROVE  Undisturbed
  <2>1. failures' = [failures EXCEPT ![part] = @ + 1,
                       !["overflow"] = IF current.attempts < FloatExponents THEN @ ELSE @ + 1]
    BY <1>3 DEF Failed
  <2>2. /\ failures'["delete"] = failures["delete"]
           \/ failures'["delete"] = failures["delete"] + 1
        /\ failures'["overflow"] = failures["overflow"]
           \/ failures'["overflow"] = failures["overflow"] + 1
    BY <1>1, <2>1 DEF Parts
  <2>3. failures["delete"] \in Nat /\ failures["overflow"] \in Nat /\ crashes' = crashes
    BY <1>1, <1>3 DEF Parts, Failed
  <2> QED
    BY <2>2, <2>3 DEF Undisturbed
<1>4. CASE IduDvd \/ Receive \/ Requeue \/ Statement \/ Start \/ StartFails
  BY <1>2, <1>4 DEF IduDvd, Index, Unregister, Publish, Receive, Requeue, Retry, Statement,
                    Commit, Start, StartFails
<1>5. CASE Worker
  BY <1>2, <1>5 DEF Worker, Take, Sleep, Wake, DeleteName, Resolve, Synchronised, Fetch,
                    Finish
<1>6. ASSUME NEW i \in 1..Len(writes), WriteFails(i)
      PROVE  Undisturbed
  BY <1>2, <1>6 DEF WriteFails
<1>7. CASE DeleteFails \/ SyncFails
  BY <1>3, <1>7 DEF DeleteFails, SyncFails, Parts
<1>8. CASE Crash
  BY <1>1, <1>8 DEF Crash, Undisturbed
<1>9. CASE UNCHANGED vars
  BY <1>2, <1>9 DEF vars
<1> QED
  BY <1>4, <1>5, <1>6, <1>7, <1>8, <1>9 DEF Next

LEMMA NoDeletionFails == TypeOK /\ Undisturbed /\ Undisturbed' => ~DeleteFails
<1> SUFFICES ASSUME TypeOK, Undisturbed, Undisturbed', DeleteFails
             PROVE  FALSE
  OBVIOUS
<1>1. failures' = [failures EXCEPT !["delete"] = @ + 1,
                     !["overflow"] = IF current.attempts < FloatExponents THEN @ ELSE @ + 1]
  BY DEF DeleteFails, Failed
<1>2. failures'["delete"] = failures["delete"] + 1
  BY <1>1 DEF TypeOK, Parts
<1> QED
  BY <1>2 DEF Undisturbed

LEMMA OrderKeptInductive ==
    NamesApart /\ TypeOK /\ OwnStatements /\ OwnWork /\ OrderKept /\ Undisturbed
        /\ Undisturbed' /\ [Next]_vars => OrderKept'
<1> SUFFICES ASSUME NamesApart, TypeOK, OwnStatements, OwnWork, OrderKept, Undisturbed,
                    Undisturbed', [Next]_vars
             PROVE  OrderKept'
  OBVIOUS
<1> USE DEF external, kafka, queue, work, neo4j, bounds
<1>1. worker \notin {"off", "absent"}
  BY DEF OrderKept, Steady
<1>2. CASE IduDvd
  BY <1>2, IndexStep, UnregisterStep DEF IduDvd
<1>3. CASE Receive \/ Requeue
  BY <1>3, ReceiveStep, RetryStep
<1>4. ASSUME NEW i \in 1..Len(writes), Commit(i) \/ WriteFails(i)
      PROVE  OrderKept'
  <2>1. /\ UNCHANGED <<dvd, log, jobs, retries, graph, todo, ingesting, edition, current>>
        /\ received' \in Nat /\ received' <= received
    BY <1>4 DEF Commit, WriteFails, TypeOK
  <2>2. worker' = worker \/ (worker = "flushing" /\ worker' = "ready")
    BY <1>4 DEF Commit, WriteFails, OwnStatements
  <2> QED
    BY <1>1, <2>1, <2>2, IdleStep DEF Busy
<1>5. CASE Sleep \/ Wake \/ Finish
  <2>1. /\ UNCHANGED <<dvd, log, jobs, retries, graph, todo, ingesting, edition, received>>
        /\ worker \notin Busy /\ worker' \notin Busy \cup {"off", "absent"}
    BY <1>5 DEF Sleep, Wake, Finish, Busy
  <2>2. received' \in Nat /\ received' <= received
    BY <2>1 DEF TypeOK
  <2> QED
    BY <2>1, <2>2, IdleStep
<1>6. CASE Worker
  BY <1>5, <1>6, TakeStep, DeleteNameStep, ResolveStep, FetchStep, SynchronisedStep DEF Worker
<1>7. CASE SyncFails
  BY <1>7, SyncFailsStep
<1>8. ~DeleteFails
  BY NoDeletionFails
<1>9. ~Crash
  BY DEF Crash, Undisturbed
<1>10. ~Start /\ ~StartFails
  BY <1>1 DEF Start, StartFails
<1>11. CASE UNCHANGED vars
  <2>1. /\ UNCHANGED <<dvd, log, jobs, retries, graph, todo, ingesting, edition, received,
                       worker, current>>
        /\ received' \in Nat /\ received' <= received
    BY <1>11 DEF vars, TypeOK
  <2> QED
    BY <1>1, <2>1, IdleStep
<1> QED
  BY <1>2, <1>3, <1>4, <1>6, <1>7, <1>8, <1>9, <1>10, <1>11 DEF Next, Statement

LEMMA OrderKeptInit == Init => OrderKept
<1> SUFFICES ASSUME Init
             PROVE  OrderKept
  OBVIOUS
<1>1. Steady
  BY DEF Init, Steady
<1>2. ASSUME NEW d \in Docs
      PROVE  Indexed(d) /\ WorkedOff(d)
  BY ConstantsAssumption DEF Init, Indexed, WorkedOff, Gone, ConstantsAssumption
<1> QED
  BY <1>1, <1>2 DEF OrderKept

LEMMA OrderKeptSettles == TypeOK /\ OrderKept => Settled
<1> SUFFICES ASSUME TypeOK, OrderKept, NEW k \in Keys, ~Owed(k), NEW d \in DocsOf(k)
             PROVE  graph[d] = [edition |-> dvd[d], state |-> "whole"]
  BY DEF Settled, SettledOrOwed, InSync
<1>1. d \in Docs /\ KeyOf[d] = k /\ dvd[d] \in Nat /\ received \in Nat /\ Len(log) \in Nat
  BY DEF DocsOf, TypeOK
<1>2. Indexed(d) /\ WorkedOff(d)
  BY <1>1 DEF OrderKept
<1>3. ~RemovalAhead(d)
  BY <1>1 DEF RemovalAhead, Removal, Owed, Undelivered
<1>4. dvd[d] # 0 => ~Announced(d)
  BY <1>1, <1>2 DEF Indexed, Announced, Owed, Undelivered
<1>5. ~WaitsToDelete(d) /\ ~WaitsToSync(d) /\ ~RetriesToSync(d)
  BY <1>1 DEF WaitsToDelete, WaitsToSync, RetriesToSync, Owed
<1>6. ~RunsToDelete(d) /\ ~RunsToSync(d)
  BY <1>1 DEF RunsToDelete, RunsToSync, Owed, Executing
<1> QED
  BY <1>2, <1>3, <1>4, <1>5, <1>6
     DEF WorkedOff, DeletePending, SyncPending, Gone, Stored, Absent

(***************************************************************************)
(* Where no user's document has the name of a shared one, merging and      *)
(* newest-first order lose nothing (queue.py:8-11): while the process runs *)
(* and no deletion raises, a name with no event to take and no job that    *)
(* waits, sleeps or runs is stored exactly as IDU_DVD holds it, over any   *)
(* number of documents, events, failing syncs and outages of Neo4j.        *)
(***************************************************************************)
THEOREM MergingKeepsOrder == NamesApart => (Spec => []SettledMeansInSync)
<1> SUFFICES ASSUME NamesApart
             PROVE  Spec => []SettledMeansInSync
  OBVIOUS
<1> DEFINE IInv == TypeOK /\ OwnStatements /\ ReachWork /\ (Undisturbed => OrderKept)
<1>1. Init => IInv
  BY InitType, OrderKeptInit DEF Init, OwnStatements, ReachWork
<1>2. IInv /\ [Next]_vars => IInv'
  BY NextType, OwnStatementsInductive, ReachWorkInductive, ReachWorkIsOwn, DisturbedForGood,
     OrderKeptInductive
<1>3. IInv => SettledMeansInSync
  BY OrderKeptSettles DEF SettledMeansInSync, Undisturbed
<1> QED
  BY <1>1, <1>2, <1>3, PTL DEF Spec

-----------------------------------------------------------------------------
(* The queue implements DocumentSync. *)

(* An event whose offset is not committed. *)
Uncommitted(k) == \E i \in (committed + 1)..Len(log) : log[i].key = k

InFlight(k) == \E i \in 1..Len(writes) : writes[i].key = k /\ writes[i].value # NoJob

(* What a key's debt consists of. *)
Carried(k) ==
    \/ Uncommitted(k) \/ Undelivered(k) \/ jobs[k] # NoJob
    \/ \E job \in retries : job.key = k
    \/ Executing(k) \/ (current # NoJob /\ current.key = k)
    \/ store[k] # NoJob \/ InFlight(k)

LEMMA DebtOf == /\ \A k \in Keys : k \in Debt <=> Carried(k)
                /\ \A k \in Keys : k \in Debt' <=> Carried(k)'
BY DEF Debt, Carried, Uncommitted, InFlight, Owed

(* A statement sent for a key that is owed work anyway adds no debt. *)
LEMMA AppendedInFlight ==
    ASSUME TypeOK, NEW w \in Write, writes' = Append(writes, w), NEW k \in Keys
    PROVE  InFlight(k)' <=> InFlight(k) \/ (w.key = k /\ w.value # NoJob)
<1>1. /\ Len(writes') = Len(writes) + 1 /\ Len(writes) \in Nat
      /\ \A i \in 1..Len(writes) : writes'[i] = writes[i]
      /\ writes'[Len(writes) + 1] = w
  BY AppendProperties DEF TypeOK
<1>2. ASSUME NEW i \in 1..Len(writes), writes[i].key = k, writes[i].value # NoJob
      PROVE  InFlight(k)'
  <2>1. i \in 1..Len(writes') /\ writes'[i] = writes[i]
    BY <1>1
  <2> QED
    BY <1>2, <2>1 DEF InFlight
<1>3. ASSUME w.key = k, w.value # NoJob
      PROVE  InFlight(k)'
  <2>1. PICK i \in 1..Len(writes') : writes'[i] = w
    BY <1>1
  <2> QED
    BY <1>3, <2>1 DEF InFlight
<1>4. ASSUME NEW i \in 1..Len(writes'), writes'[i].key = k, writes'[i].value # NoJob
      PROVE  InFlight(k) \/ (w.key = k /\ w.value # NoJob)
  <2>1. i \in 1..Len(writes) \/ i = Len(writes) + 1
    BY <1>1
  <2> QED
    BY <1>1, <1>4, <2>1 DEF InFlight
<1> QED
  BY <1>2, <1>3, <1>4 DEF InFlight

LEMMA RemovedInFlight ==
    ASSUME TypeOK, NEW n \in 1..Len(writes), writes' = RemoveAt(writes, n), NEW k \in Keys
    PROVE  InFlight(k)' => InFlight(k)
<1>1. /\ Len(writes') = Len(writes) - 1 /\ Len(writes) \in Nat
      /\ \A j \in 1..(Len(writes) - 1) :
            writes'[j] = IF j < n THEN writes[j] ELSE writes[j + 1]
  <2>1. writes \in Seq(Write) /\ Len(writes) \in Nat
    BY DEF TypeOK
  <2> QED
    BY <2>1, RemoveAtType
<1>2. ASSUME NEW i \in 1..Len(writes'), writes'[i].key = k, writes'[i].value # NoJob
      PROVE  InFlight(k)
  <2>1. \E j \in 1..Len(writes) : writes'[i] = writes[j]
    BY <1>1
  <2> QED
    BY <1>2, <2>1 DEF InFlight
<1> QED
  BY <1>2 DEF InFlight

(* The debt of a key that only loses carriers, while nothing it owes is touched. *)
LEMMA PutDebt ==
    ASSUME TypeOK, NEW job \in Job, NEW by \in {"consumer", "retry", "worker"},
           Put(job, by), NEW k \in Keys
    PROVE  /\ jobs'[k] # NoJob <=> jobs[k] # NoJob \/ k = job.key
           /\ InFlight(k)' <=> InFlight(k) \/ k = job.key
<1> DEFINE merged == IF jobs[job.key] = NoJob THEN job ELSE Merge(jobs[job.key], job)
           sent   == [key |-> job.key, value |-> merged, by |-> by]
<1>1. job.key \in Keys
  BY DEF Job
<1>2. merged \in Job /\ merged.key = job.key
  BY <1>1, MergeType DEF TypeOK
<1>3. merged # NoJob
  BY <1>2, JobNotNone
<1>4. sent \in Write /\ sent.key = job.key /\ sent.value = merged
  BY <1>1, <1>2 DEF Write
<1>5. jobs' = [jobs EXCEPT ![job.key] = merged] /\ writes' = Append(writes, sent)
  BY DEF Put
<1> HIDE DEF merged
<1>6. PICK w \in Write : w = sent
  BY <1>4
<1> HIDE DEF sent
<1>7. InFlight(k)' <=> InFlight(k) \/ (w.key = k /\ w.value # NoJob)
  BY <1>5, <1>6, AppendedInFlight
<1>8. jobs'[k] # NoJob <=> jobs[k] # NoJob \/ k = job.key
  BY <1>1, <1>3, <1>5 DEF TypeOK
<1> QED
  BY <1>3, <1>4, <1>6, <1>7, <1>8

(* A step that changes neither IDU_DVD nor the graph and takes on no debt: a key *)
(* whose last carrier it removes is in sync.                                     *)
LEMMA Settles ==
    ASSUME TypeOK', OrderKept', UNCHANGED <<dvd, graph>>, Debt' \subseteq Debt
    PROVE  Promise!Next
<1>1. Settled' /\ worker' \notin {"off", "absent"}
  <2>1. (TypeOK /\ OrderKept => Settled)'
    BY OrderKeptSettles, PTL
  <2> QED
    BY <2>1 DEF OrderKept, Steady
<1>2. ASSUME NEW k \in Debt \ Debt'
      PROVE  Promise!InSync(k)
  <2>1. k \in Keys /\ ~Owed(k)'
    BY DEF Debt
  <2>2. InSync(k)'
    BY <1>1, <2>1 DEF Settled, SettledOrOwed
  <2> QED
    BY <2>2 DEF InSync, Promise!InSync, DocsOf, Promise!DocsOf
<1>3. \E K \in SUBSET Debt : Debt' = Debt \ K
  <2>1. Debt' = Debt \ (Debt \ Debt')
    OBVIOUS
  <2> QED
    BY <2>1
<1> QED
  BY <1>2, <1>3 DEF Promise!Next, Promise!Settle

LEMMA Announces ==
    ASSUME TypeOK, NEW kind \in {"processed", "updated", "deleted"}, NEW k \in Keys,
           NEW versions \in SUBSET Docs, NEW removed \in BOOLEAN,
           Publish(kind, k, versions, removed),
           \A d \in Docs \ DocsOf(k) : dvd'[d] = dvd[d]
    PROVE  Promise!Next
<1> USE DEF external, kafka, queue, work, neo4j, bounds
<1>1. /\ Len(log') = Len(log) + 1 /\ Len(log) \in Nat
      /\ \A i \in 1..Len(log) : log'[i] = log[i]
      /\ log'[Len(log) + 1].key = k
  BY PublishKeeps
<1>2. /\ UNCHANGED <<committed, received, jobs, retries, current, store, writes, worker, graph>>
      /\ committed \in 0..Len(log) /\ received \in 0..Len(log)
  BY <1>1 DEF Publish, TypeOK
<1>3. ASSUME NEW o \in Keys
      PROVE  /\ Uncommitted(o)' <=> Uncommitted(o) \/ o = k
             /\ Undelivered(o)' <=> Undelivered(o) \/ o = k
  <2>1. ASSUME NEW i \in 1..Len(log')
        PROVE  log'[i].key = IF i <= Len(log) THEN log[i].key ELSE k
    BY <1>1
  <2>2. PICK n \in 1..Len(log') : n = Len(log) + 1
    BY <1>1
  <2>3. /\ \A i \in (committed + 1)..Len(log) : i \in (committed' + 1)..Len(log')
        /\ \A i \in (received + 1)..Len(log) : i \in (received' + 1)..Len(log')
        /\ \A i \in (committed' + 1)..Len(log') :
                i \in (committed + 1)..Len(log) \/ (i = n /\ i \in 1..Len(log'))
        /\ \A i \in (received' + 1)..Len(log') :
                i \in (received + 1)..Len(log) \/ (i = n /\ i \in 1..Len(log'))
        /\ n \in (committed' + 1)..Len(log') /\ n \in (received' + 1)..Len(log')
    BY <1>1, <1>2, <2>2
  <2>4. /\ \A i \in (committed + 1)..Len(log) : log'[i] = log[i]
        /\ \A i \in (received + 1)..Len(log) : log'[i] = log[i]
    BY <1>1, <1>2
  <2>5. log'[n].key = k
    BY <1>1, <2>2
  <2> QED
    BY <2>3, <2>4, <2>5 DEF Uncommitted, Undelivered
<1>4. \A o \in Keys : InFlight(o)' <=> InFlight(o)
  BY <1>2 DEF InFlight
<1>5. \A o \in Keys : Executing(o)' <=> Executing(o)
  BY <1>2 DEF Executing
<1>6. \A o \in Keys : o \in Debt' <=> o \in Debt \/ o = k
  <2>1. \A o \in Keys : Carried(o)' <=> Carried(o) \/ o = k
    BY <1>2, <1>3, <1>4, <1>5 DEF Carried
  <2> QED
    BY <2>1, DebtOf
<1>7. Debt' = Debt \cup {k}
  BY <1>6 DEF Debt
<1> QED
  BY <1>2, <1>7 DEF Promise!Next, Promise!Announce, DocsOf, Promise!DocsOf

(* The worker changes the graph for the job it executes. *)
LEMMA Applies ==
    ASSUME NamesApart, TypeOK, ReachWork, [Next]_vars, current # NoJob,
           UNCHANGED dvd, Debt' = Debt
    PROVE  Promise!Next
<1>1. current.key \in Keys /\ current.key \in Debt
  BY DebtOf DEF TypeOK, Job, Carried
<1>2. \A d \in Docs \ DocsOf(current.key) : graph'[d] = graph[d]
  BY OwnDocumentsStep DEF DocsOf
<1> QED
  BY <1>1, <1>2 DEF Promise!Next, Promise!Apply, DocsOf, Promise!DocsOf

LEMMA ReceiveDebt == TypeOK /\ Receive => Debt' \subseteq Debt
<1> SUFFICES ASSUME TypeOK, Receive, NEW k \in Keys, Carried(k)'
             PROVE  Carried(k)
  BY DebtOf DEF Debt
<1> DEFINE next == received + 1
<1>1. /\ next \in 1..Len(log) /\ received \in Nat /\ committed = received
      /\ JobOf(next) \in Job /\ JobOf(next).key = log[next].key
  BY JobOfType DEF Receive, TypeOK
<1>2. /\ Put(JobOf(next), "consumer") /\ received' = next
      /\ UNCHANGED <<log, committed, retries, worker, current, store>>
  BY DEF Receive, Put, external, work
<1>3. Len(log) \in Nat
  BY DEF TypeOK
<1> HIDE DEF next
<1>4. /\ jobs'[k] # NoJob <=> jobs[k] # NoJob \/ k = log[next].key
      /\ InFlight(k)' <=> InFlight(k) \/ k = log[next].key
  BY <1>1, <1>2, PutDebt
<1>5. k = log[next].key => Uncommitted(k)
  BY <1>1 DEF Uncommitted, next
<1>6. Uncommitted(k)' => Uncommitted(k)
  BY <1>2 DEF Uncommitted
<1>7. Undelivered(k)' => Undelivered(k)
  BY <1>1, <1>2, <1>3 DEF Undelivered, next
<1>8. Executing(k)' => Executing(k)
  BY <1>2 DEF Executing
<1> QED
  BY <1>2, <1>4, <1>5, <1>6, <1>7, <1>8 DEF Carried

LEMMA RetryDebt == TypeOK /\ Requeue => Debt' \subseteq Debt
<1> SUFFICES ASSUME TypeOK, NEW job \in retries, Retry(job), NEW k \in Keys, Carried(k)'
             PROVE  Carried(k)
  BY DebtOf DEF Debt, Requeue
<1>1. job \in Job
  BY DEF TypeOK
<1>2. /\ Put(job, "retry") /\ retries' = retries \ {job}
      /\ UNCHANGED <<log, committed, received, worker, current, store>>
  BY DEF Retry, Put, external, kafka, work
<1>3. /\ jobs'[k] # NoJob <=> jobs[k] # NoJob \/ k = job.key
      /\ InFlight(k)' <=> InFlight(k) \/ k = job.key
  BY <1>1, <1>2, PutDebt
<1>4. /\ Uncommitted(k)' <=> Uncommitted(k)
      /\ Undelivered(k)' <=> Undelivered(k)
      /\ Executing(k)' <=> Executing(k)
  BY <1>2 DEF Uncommitted, Undelivered, Executing
<1> QED
  BY <1>2, <1>3, <1>4 DEF Carried

(* A statement that ends, either way, takes on no debt. *)
LEMMA StatementDebt ==
    ASSUME TypeOK, OwnStatements, NEW i \in 1..Len(writes), Commit(i) \/ WriteFails(i)
    PROVE  Debt' \subseteq Debt
<1> SUFFICES ASSUME NEW k \in Keys, Carried(k)'
             PROVE  Carried(k)
  BY DebtOf DEF Debt
<1> USE DEF external, kafka, queue, work, neo4j
<1>1. /\ writes' = RemoveAt(writes, i)
      /\ UNCHANGED <<log, jobs, retries, current>>
      /\ \/ UNCHANGED <<committed, received>>
         \/ committed' = received /\ UNCHANGED received
         \/ received' = committed /\ UNCHANGED committed
      /\ \/ UNCHANGED store
         \/ store' = [store EXCEPT ![writes[i].key] = writes[i].value]
  BY DEF Commit, WriteFails
<1>2. worker' = worker \/ (worker = "flushing" /\ worker' = "ready")
  BY DEF Commit, WriteFails, OwnStatements
<1>3. InFlight(k)' => InFlight(k)
  BY <1>1, RemovedInFlight
<1>4. store'[k] # NoJob => store[k] # NoJob \/ InFlight(k)
  BY <1>1 DEF TypeOK, InFlight
<1>5. Executing(k)' => Executing(k)
  BY <1>1, <1>2 DEF Executing
<1>6. Uncommitted(k)' \/ Undelivered(k)' => Uncommitted(k) \/ Undelivered(k)
  <2>1. committed \in Nat /\ received \in Nat /\ committed <= received /\ Len(log) \in Nat
    BY DEF TypeOK
  <2>2. log' = log
    BY <1>1
  <2>3. /\ \A n \in (received + 1)..Len(log) : n \in (committed + 1)..Len(log)
    BY <2>1
  <2> QED
    BY <1>1, <2>1, <2>2, <2>3 DEF Uncommitted, Undelivered
<1> QED
  BY <1>1, <1>3, <1>4, <1>5, <1>6 DEF Carried

(* The worker goes on: what it works for stays owed. *)
LEMMA WorkerDebt ==
    ASSUME TypeOK,
           (\E k \in Keys : Take(k)) \/ Sleep \/ Wake \/ Resolve \/ Finish
               \/ (\E d \in Docs : Fetch(d))
    PROVE  Debt' \subseteq Debt
<1> SUFFICES ASSUME NEW k \in Keys, Carried(k)'
             PROVE  Carried(k)
  BY DebtOf DEF Debt
<1> USE DEF external, kafka, queue, work, neo4j
<1>1. UNCHANGED <<log, committed, received, retries, store>>
  BY DEF Take, Sleep, Wake, Resolve, Finish, Fetch
<1>2. /\ Uncommitted(k)' <=> Uncommitted(k)
      /\ Undelivered(k)' <=> Undelivered(k)
  BY <1>1 DEF Uncommitted, Undelivered
<1>3. ASSUME NEW o \in Keys, Take(o)
      PROVE  Carried(k)
  <2>1. jobs[o] # NoJob /\ jobs[o].key = o /\ current' = jobs[o] /\ writes' = writes
    BY <1>3 DEF Take, TypeOK
  <2>2. jobs'[k] # NoJob => jobs[k] # NoJob
    BY <1>3 DEF Take, TypeOK
  <2>3. InFlight(k)' <=> InFlight(k)
    BY <2>1 DEF InFlight
  <2> QED
    BY <1>1, <1>2, <2>1, <2>2, <2>3 DEF Carried, Executing
<1>4. CASE Sleep \/ Wake \/ Resolve \/ \E d \in Docs : Fetch(d)
  <2>1. UNCHANGED <<jobs, current, writes>>
    BY <1>4 DEF Sleep, Wake, Resolve, Fetch
  <2>2. InFlight(k)' <=> InFlight(k)
    BY <2>1 DEF InFlight
  <2>3. Executing(k)' => Executing(k) \/ (current # NoJob /\ current.key = k)
    BY <1>4, <2>1 DEF Sleep, Wake, Resolve, Fetch, Executing, TypeOK
  <2> QED
    BY <1>1, <1>2, <2>1, <2>2, <2>3 DEF Carried
<1>5. CASE Finish
  <2> DEFINE sent == [key |-> current.key, value |-> jobs[current.key], by |-> "worker"]
  <2>1. current \in Job
    BY <1>5 DEF Finish, TypeOK
  <2>2. sent \in Write /\ sent.key = current.key /\ sent.value = jobs[current.key]
    BY <2>1 DEF TypeOK, Write, Job
  <2>3. writes' = Append(writes, sent) /\ UNCHANGED jobs /\ current' = NoJob
        /\ worker' = "flushing"
    BY <1>5 DEF Finish
  <2>4. PICK w \in Write : w = sent
    BY <2>2
  <2> HIDE DEF sent
  <2>5. InFlight(k)' <=> InFlight(k) \/ (w.key = k /\ w.value # NoJob)
    BY <2>3, <2>4, AppendedInFlight
  <2>6. ~Executing(k)'
    BY <2>3 DEF Executing
  <2> QED
    BY <1>1, <1>2, <2>2, <2>3, <2>4, <2>5, <2>6 DEF Carried
<1> QED
  BY <1>3, <1>4, <1>5

(* Every step of the queue is a step of DocumentSync, or none. *)
LEMMA PromiseStep ==
    ASSUME NamesApart, TypeOK, OwnStatements, ReachWork, OrderKept, Undisturbed, Undisturbed',
           [Next]_vars
    PROVE  [Promise!Next]_(Promise!vars)
<1> USE DEF external, kafka, queue, work, neo4j, bounds
<1>1. TypeOK' /\ OrderKept' /\ worker \notin {"off", "absent"}
  BY NextType, OrderKeptInductive, ReachWorkIsOwn DEF OrderKept, Steady
<1>2. ASSUME NEW d \in Docs, Index(d)
      PROVE  Promise!Next
  <2>1. PICK kind \in {"processed", "updated"} : Publish(kind, KeyOf[d], {}, FALSE)
    BY <1>2 DEF Index
  <2>2. KeyOf[d] \in Keys /\ \A o \in Docs \ DocsOf(KeyOf[d]) : dvd'[o] = dvd[o]
    BY <1>2 DEF Index, TypeOK, DocsOf, Keys
  <2> QED
    BY <2>1, <2>2, Announces
<1>3. ASSUME NEW k \in Keys, NEW gone \in SUBSET DocsOf(k), Unregister(k, gone)
      PROVE  Promise!Next
  <2>1. PICK removed \in BOOLEAN : Publish("deleted", k, gone, removed)
    BY <1>3 DEF Unregister
  <2>2. gone \in SUBSET Docs /\ \A o \in Docs \ DocsOf(k) : dvd'[o] = dvd[o]
    BY <1>3 DEF Unregister, DocsOf
  <2> QED
    BY <2>1, <2>2, Announces
<1>4. ASSUME UNCHANGED <<dvd, graph>>, Debt' \subseteq Debt
      PROVE  Promise!Next
  BY <1>1, <1>4, Settles
<1>5. CASE Receive \/ Requeue
  <2>1. UNCHANGED <<dvd, graph>>
    BY <1>5 DEF Receive, Requeue, Retry
  <2> QED
    BY <1>4, <1>5, <2>1, ReceiveDebt, RetryDebt
<1>6. ASSUME NEW i \in 1..Len(writes), Commit(i) \/ WriteFails(i)
      PROVE  Promise!Next
  <2>1. UNCHANGED <<dvd, graph>>
    BY <1>6 DEF Commit, WriteFails
  <2> QED
    BY <1>4, <1>6, <2>1, StatementDebt
<1>7. CASE (\E k \in Keys : Take(k)) \/ Sleep \/ Wake \/ Resolve \/ Finish
               \/ (\E d \in Docs : Fetch(d))
  <2>1. UNCHANGED <<dvd, graph>>
    BY <1>7 DEF Take, Sleep, Wake, Resolve, Finish, Fetch
  <2> QED
    BY <1>4, <1>7, <2>1, WorkerDebt
<1>8. CASE DeleteName \/ Synchronised
  <2>1. current # NoJob /\ UNCHANGED <<dvd, log, committed, received, jobs, retries, current,
                                       store, writes>>
    BY <1>8 DEF DeleteName, Synchronised, TypeOK
  <2>2. \A k \in Keys : Carried(k)' <=> Carried(k)
    <3>1. ASSUME NEW k \in Keys
          PROVE  /\ Executing(k) => current # NoJob /\ current.key = k
                 /\ Executing(k)' => current # NoJob /\ current.key = k
      BY <1>1, <2>1 DEF Executing, TypeOK
    <3>2. ASSUME NEW k \in Keys
          PROVE  /\ Uncommitted(k)' <=> Uncommitted(k)
                 /\ Undelivered(k)' <=> Undelivered(k)
                 /\ InFlight(k)' <=> InFlight(k)
      BY <2>1 DEF Uncommitted, Undelivered, InFlight
    <3> QED
      BY <2>1, <3>1, <3>2 DEF Carried
  <2>3. Debt' = Debt
    BY <2>2, DebtOf DEF Debt
  <2> QED
    BY <2>1, <2>3, Applies
<1>9. CASE SyncFails
  <2>1. /\ current # NoJob /\ current' = NoJob /\ worker' = "ready"
        /\ UNCHANGED <<dvd, log, committed, received, jobs, store, writes>>
    BY <1>9 DEF SyncFails, Failed, TypeOK
  <2>2. PICK asleep : retries' = retries \cup {asleep} /\ asleep.key = current.key
    <3>1. current \in Job /\ [current EXCEPT !.attempts = @ + 1].key = current.key
      BY <2>1 DEF TypeOK, Job
    <3> QED
      BY <1>9, <3>1, FailedSleeps
  <2>3. \A k \in Keys : Carried(k)' <=> Carried(k)
    <3>1. ASSUME NEW k \in Keys
          PROVE  /\ Executing(k) => current # NoJob /\ current.key = k
                 /\ ~Executing(k)'
                 /\ (\E job \in retries' : job.key = k) <=>
                        (\E job \in retries : job.key = k) \/ current.key = k
      BY <1>9, <2>1, <2>2 DEF Executing, TypeOK
    <3>2. ASSUME NEW k \in Keys
          PROVE  /\ Uncommitted(k)' <=> Uncommitted(k)
                 /\ Undelivered(k)' <=> Undelivered(k)
                 /\ InFlight(k)' <=> InFlight(k)
      BY <2>1 DEF Uncommitted, Undelivered, InFlight
    <3> QED
      BY <2>1, <3>1, <3>2 DEF Carried
  <2>4. Debt' = Debt
    BY <2>3, DebtOf DEF Debt
  <2> QED
    BY <2>1, <2>4, Applies
<1>10. ~DeleteFails /\ ~Crash /\ ~Start /\ ~StartFails
  BY <1>1, NoDeletionFails DEF Crash, Start, StartFails, Undisturbed
<1>11. CASE UNCHANGED vars
  <2>1. UNCHANGED <<dvd, graph, log, committed, received, jobs, retries, worker, current,
                    store, writes>>
    BY <1>11 DEF vars
  <2>2. Debt' = Debt
    BY <2>1 DEF Debt, Owed, Undelivered, Executing
  <2> QED
    BY <2>1, <2>2 DEF Promise!vars
<1> QED
  BY <1>2, <1>3, <1>5, <1>6, <1>7, <1>8, <1>9, <1>10, <1>11
     DEF Next, IduDvd, Statement, Worker

(***************************************************************************)
(* The queue keeps its promise as long as the process runs and no deletion *)
(* raises: every step of it is a step of DocumentSync or none, so the      *)
(* graph changes only for a name that is owed work, and the last carrier   *)
(* of a name - an event, a job, a statement, a :SyncJob node - disappears  *)
(* only when the graph agrees with IDU_DVD on it (queue.py:8-14).          *)
(***************************************************************************)
THEOREM QueueKeepsPromise == NamesApart => (Spec /\ []Undisturbed => KeepsPromise)
<1> SUFFICES ASSUME NamesApart
             PROVE  Spec /\ []Undisturbed => KeepsPromise
  OBVIOUS
<1> DEFINE IInv == TypeOK /\ OwnStatements /\ ReachWork /\ (Undisturbed => OrderKept)
<1>1. Init => IInv /\ Promise!Init
  <2>1. Init => Promise!Init
    BY DEF Init, Promise!Init, Promise!Absent, Absent, Debt, Owed, Undelivered, Executing
  <2> QED
    BY <2>1, InitType, OrderKeptInit DEF Init, OwnStatements, ReachWork
<1>2. IInv /\ [Next]_vars => IInv'
  BY NextType, OwnStatementsInductive, ReachWorkInductive, ReachWorkIsOwn, DisturbedForGood,
     OrderKeptInductive
<1>3. IInv /\ Undisturbed /\ Undisturbed' /\ [Next]_vars => [Promise!Next]_(Promise!vars)
  BY PromiseStep
<1> QED
  BY <1>1, <1>2, <1>3, PTL DEF Spec, KeepsPromise, Promise!Spec

-----------------------------------------------------------------------------
(* A restart loses no sync. *)

(* Only syncs were asked for, none raised, and the consumer's statements commit. *)
OnlySyncs == NoDeletions /\ NoFailures /\ faults["consumer"] = 0

(* A job that syncs and deletes nothing. *)
PlainSync(job) == job.sync /\ ~HasDeletes(job)

(* The worker has a job in hand, and the queue has a worker. *)
AtWork(k) ==
    worker \in {"deleting", "resolving", "syncing", "finishing"} /\ current.key = k

Working == worker \notin {"off", "absent"}

(* A stop finds the :SyncJob of key k whatever statements have committed by then. *)
NodeSure(k) ==
    /\ store[k] # NoJob
    /\ \A i \in 1..Len(writes) : writes[i].key = k => writes[i].value # NoJob

NodeReplaces(k) ==
    /\ NodeSure(k) /\ store[k].replace
    /\ \A i \in 1..Len(writes) : writes[i].key = k => writes[i].value.replace

(* An event of key k announces an edition that replaces another. *)
UpdateAfter(offset, k) ==
    \E i \in (offset + 1)..Len(log) : log[i].key = k /\ log[i].kind = "updated"

(* What a stop does not lose. *)
Durable(k) == Uncommitted(k) \/ NodeSure(k)

ReplaceDurable(k) == UpdateAfter(committed, k) \/ NodeReplaces(k)

(* Jobs hold syncs only, and nothing sleeps. *)
SyncsOnly ==
    /\ retries = {} /\ worker # "deleting"
    /\ \A k \in Keys : /\ jobs[k] # NoJob => PlainSync(jobs[k])
                       /\ store[k] # NoJob => PlainSync(store[k])
    /\ \A i \in 1..Len(writes) : writes[i].value # NoJob => PlainSync(writes[i].value)
    /\ current # NoJob => PlainSync(current)
    /\ worker \in {"off", "absent"} => ingesting = NoDoc
    /\ worker = "off" => received = committed /\ overtaken = {}

(* A statement overtakes another only while the worker awaits one and the consumer the *)
(* other: an event of the key was received, and a job of it that waits is not executed. *)
OvertakenKeys ==
    \A k \in overtaken : /\ jobs[k] # NoJob => ~AtWork(k)
                         /\ \E i \in 1..received : log[i].key = k

(* The statements in flight: at most one of the consumer, with the event it waits for. *)
ConsumerStatement ==
    \A n \in 1..Len(writes) :
        /\ writes[n].by # "retry"
        /\ writes[n].value = NoJob => writes[n].by = "worker"
        /\ writes[n].by = "consumer" =>
              /\ received = committed + 1
              /\ log[received].key = writes[n].key
              /\ log[received].kind = "updated" => writes[n].value.replace
              /\ \A m \in 1..Len(writes) : writes[m].by = "consumer" => m = n
              /\ jobs[writes[n].key] \in {NoJob, writes[n].value}
              /\ \A m \in (n + 1)..Len(writes) :
                    writes[m].key = writes[n].key => writes[m].value \in {NoJob, writes[n].value}
        /\ writes[n].value = NoJob /\ jobs[writes[n].key] # NoJob
              /\ writes[n].key \notin overtaken =>
              \E m \in (n + 1)..Len(writes) :
                    writes[m].by = "consumer" /\ writes[m].key = writes[n].key

(* A job that waits or is executed would be found again, if its statement has not *)
(* overtaken an older one, and had not when a stop came.                          *)
JobsDurable ==
    \A k \in Keys \ (overtaken \cup lost) : jobs[k] # NoJob \/ AtWork(k) => Durable(k)

(* No event removes anything, and only the first of a key is "processed". *)
FirstEvents ==
    /\ \A i \in 1..Len(log) :
          /\ log[i].kind \in {"processed", "updated"}
          /\ log[i].versions_removed = {} /\ log[i].document_removed = FALSE
          /\ \E d \in DocsOf(log[i].key) : dvd[d] # 0
          /\ log[i].kind = "processed" => \A j \in 1..(i - 1) : log[j].key # log[i].key
    /\ \A d \in Docs : dvd[d] # 0 => dvd[d] \in 1..Len(log) /\ log[dvd[d]].key = KeyOf[d]

(* What is wrong in the graph survives a stop as work to be done ... *)
Survives(d) ==
    /\ dvd[d] = 0 => Gone(d)
    /\ dvd[d] # 0 => Clean(d) \/ log[dvd[d]].kind = "updated"
    /\ dvd[d] # 0 /\ KeyOf[d] \notin overtaken =>
          /\ (Stored(d) /\ ingesting # d) \/ Durable(KeyOf[d])
          /\ Clean(d) \/ ReplaceDurable(KeyOf[d])

(* ... and is at hand while the queue has a worker. *)
AtHand(d) ==
    Working /\ dvd[d] # 0 =>
        /\ Stored(d) \/ Undelivered(KeyOf[d]) \/ WaitsToSync(d) \/ RunsToSync(d)
        /\ Clean(d) \/ UpdateAfter(received, KeyOf[d]) \/ WaitsToReplace(d) \/ RunsToReplace(d)

(* The documents the theorem is about: no stop found the node of their key overtaken, *)
(* and only jobs of their own key reach them.                                          *)
Claimed(d) == KeyOf[d] \notin lost /\ ~SharesName(KeyOf[d])

NothingLost ==
    /\ SyncsOnly /\ OvertakenKeys /\ ConsumerStatement /\ JobsDurable /\ FirstEvents
    /\ \A d \in Docs : Claimed(d) => Survives(d) /\ AtHand(d)

LEMMA ClaimedReach ==
    ASSUME NEW k \in Keys, NEW d \in Reach(k), Claimed(d)
    PROVE  KeyOf[d] = k
<1>1. PICK c \in Docs : k = KeyOf[c]
  BY DEF Keys
<1>2. /\ k = [name |-> NameOf[c], scope |-> ScopeOf[c]]
      /\ k.name = NameOf[c] /\ k.scope = ScopeOf[c]
  BY <1>1 DEF KeyOf
<1>3. /\ d \in Docs /\ KeyOf[d] = [name |-> NameOf[d], scope |-> ScopeOf[d]]
      /\ KeyOf[d].name = NameOf[d] /\ KeyOf[d].scope = ScopeOf[d]
  BY DEF Reach, KeyOf
<1>4. NameOf[d] = NameOf[c] /\ (ScopeOf[c] # Shared => ScopeOf[d] = ScopeOf[c])
  BY <1>2 DEF Reach
<1>5. ScopeOf[c] = Shared => ScopeOf[d] = Shared
  BY <1>3, <1>4 DEF Claimed, SharesName
<1> QED
  BY <1>2, <1>3, <1>4, <1>5

LEMMA ClaimedBefore ==
    ASSUME lost \subseteq lost', NEW d \in Docs, Claimed(d)'
    PROVE  Claimed(d)
BY DEF Claimed, SharesName

LEMMA OnlySyncsStep ==
    ASSUME TypeOK, [Next]_vars, OnlySyncs'
    PROVE  /\ OnlySyncs /\ ~DeleteFails /\ ~SyncFails
           /\ \A k \in Keys : \A gone \in SUBSET DocsOf(k) : ~Unregister(k, gone)
           /\ \A i \in 1..Len(writes) : WriteFails(i) => writes[i].by # "consumer"
<1> USE DEF external, kafka, queue, work, neo4j, bounds
<1>1. /\ failures \in [Parts \cup {"overflow"} -> Nat]
      /\ faults \in [Callers -> Nat] /\ "consumer" \in Callers
  BY DEF TypeOK, Callers
<1>2. ASSUME NEW part \in Parts, Failed(part)
      PROVE  FALSE
  <2>1. failures' = [failures EXCEPT ![part] = @ + 1,
                       !["overflow"] = IF current.attempts < FloatExponents THEN @ ELSE @ + 1]
    BY <1>2 DEF Failed
  <2>2. failures'[part] = failures[part] + 1 /\ failures[part] \in Nat
    BY <1>1, <2>1 DEF Parts
  <2> QED
    BY <2>2 DEF OnlySyncs, NoFailures
<1>3. ~DeleteFails /\ ~SyncFails
  BY <1>2 DEF DeleteFails, SyncFails, Parts
<1>4. ASSUME NEW i \in 1..Len(writes), WriteFails(i)
      PROVE  writes[i].by # "consumer" /\ faults["consumer"] = 0 /\ UNCHANGED <<log, failures>>
  <2>1. faults' = [faults EXCEPT ![writes[i].by] = @ + 1] /\ UNCHANGED <<log, failures>>
    BY <1>4 DEF WriteFails
  <2>2. faults'["consumer"] = 0
    BY DEF OnlySyncs
  <2> QED
    BY <1>1, <2>1, <2>2
<1>5. ASSUME NEW kind \in {"processed", "updated", "deleted"}, NEW k \in Keys,
             NEW versions \in SUBSET Docs, NEW removed \in BOOLEAN,
             Publish(kind, k, versions, removed)
      PROVE  kind # "deleted" /\ NoDeletions /\ UNCHANGED <<failures, faults>>
  <2>1. /\ Len(log') = Len(log) + 1 /\ Len(log) \in Nat
        /\ \A i \in 1..Len(log) : log'[i] = log[i]
        /\ log'[Len(log) + 1].kind = kind
    BY <1>5, PublishKeeps
  <2>2. \A i \in 1..Len(log') : log'[i].kind # "deleted"
    BY DEF OnlySyncs, NoDeletions
  <2>3. Len(log) + 1 \in 1..Len(log') /\ \A i \in 1..Len(log) : i \in 1..Len(log')
    BY <2>1
  <2> QED
    BY <1>5, <2>1, <2>2, <2>3 DEF NoDeletions, Publish
<1>6. ASSUME NEW k \in Keys, NEW gone \in SUBSET DocsOf(k), Unregister(k, gone)
      PROVE  FALSE
  <2>1. gone \in SUBSET Docs /\ \E removed \in BOOLEAN : Publish("deleted", k, gone, removed)
    BY <1>6 DEF Unregister, DocsOf
  <2> QED
    BY <1>5, <2>1
<1>7. ASSUME NEW d \in Docs, Index(d)
      PROVE  OnlySyncs
  <2>1. KeyOf[d] \in Keys
           /\ \E kind \in {"processed", "updated"} : Publish(kind, KeyOf[d], {}, FALSE)
    BY <1>7 DEF Index, Keys
  <2>2. NoDeletions /\ UNCHANGED <<failures, faults>>
    BY <1>5, <2>1
  <2> QED
    BY <2>2 DEF OnlySyncs, NoFailures
<1>8. log' = log /\ failures' = failures /\ faults'["consumer"] = faults["consumer"] => OnlySyncs
  BY DEF OnlySyncs, NoFailures, NoDeletions
<1>9. ASSUME Receive \/ Requeue \/ Statement \/ Start \/ Crash \/ StartFails
      PROVE  OnlySyncs
  <2>1. log' = log /\ failures' = failures /\ (faults' = faults \/ StartFails)
    BY <1>9 DEF Receive, Requeue, Retry, Statement, Commit, Start, Crash, StartFails
  <2>2. faults'["consumer"] = faults["consumer"]
    BY <1>1, <2>1 DEF StartFails
  <2> QED
    BY <1>8, <2>1, <2>2
<1>10. ASSUME Worker
       PROVE  OnlySyncs
  <2>1. log' = log /\ failures' = failures /\ faults' = faults
    BY <1>10 DEF Worker, Take, Sleep, Wake, DeleteName, Resolve, Synchronised, Fetch, Finish
  <2> QED
    BY <1>8, <2>1
<1>11. ASSUME NEW i \in 1..Len(writes), WriteFails(i)
       PROVE  OnlySyncs
  <2>1. /\ log' = log /\ failures' = failures
        /\ faults["consumer"] = 0 /\ faults'["consumer"] = 0
    BY <1>4, <1>11 DEF OnlySyncs
  <2> QED
    BY <1>8, <2>1
<1>12. ASSUME UNCHANGED vars
       PROVE  OnlySyncs
  <2>1. log' = log /\ failures' = failures /\ faults' = faults
    BY <1>12 DEF vars
  <2> QED
    BY <1>8, <2>1
<1>13. OnlySyncs
  BY <1>3, <1>6, <1>7, <1>9, <1>10, <1>11, <1>12 DEF Next, IduDvd
<1> QED
  BY <1>3, <1>4, <1>6, <1>13

(* Steps that send and end no statement and publish no event. *)
LEMMA CalmStep ==
    ASSUME TypeOK, NothingLost,
           UNCHANGED <<dvd, log, committed, received, writes, store, overtaken, lost>>,
           \A k \in Keys : /\ jobs'[k] = jobs[k] \/ jobs'[k] = NoJob
                           /\ AtWork(k)' => AtWork(k) \/ jobs'[k] = NoJob
    PROVE  /\ ConsumerStatement' /\ FirstEvents' /\ OvertakenKeys'
           /\ \A d \in Docs : Claimed(d)' => Claimed(d)
           /\ \A k \in Keys : /\ Durable(k)' <=> Durable(k)
                              /\ ReplaceDurable(k)' <=> ReplaceDurable(k)
                              /\ Undelivered(k)' <=> Undelivered(k)
                              /\ UpdateAfter(received, k)' <=> UpdateAfter(received, k)
<1>1. \A n \in 1..Len(writes) : writes[n].key \in Keys
  BY DEF TypeOK, Write
<1>2. ConsumerStatement'
  BY <1>1 DEF NothingLost, ConsumerStatement
<1>5. OvertakenKeys'
  BY DEF NothingLost, OvertakenKeys, TypeOK
<1>6. \A d \in Docs : Claimed(d)' => Claimed(d)
  BY ClaimedBefore
<1>3. FirstEvents'
  BY DEF NothingLost, FirstEvents
<1>4. \A k \in Keys : /\ Durable(k)' <=> Durable(k)
                      /\ ReplaceDurable(k)' <=> ReplaceDurable(k)
                      /\ Undelivered(k)' <=> Undelivered(k)
                      /\ UpdateAfter(received, k)' <=> UpdateAfter(received, k)
  BY DEF Durable, ReplaceDurable, Uncommitted, NodeSure, NodeReplaces, UpdateAfter, Undelivered
<1> QED
  BY <1>2, <1>3, <1>4, <1>5, <1>6

(* ... and that leave the documents alone. *)
LEMMA CalmDocument ==
    ASSUME NEW d \in Docs, Survives(d), AtHand(d),
           UNCHANGED <<dvd, log, graph, ingesting, edition, overtaken>>,
           Durable(KeyOf[d])' <=> Durable(KeyOf[d]),
           ReplaceDurable(KeyOf[d])' <=> ReplaceDurable(KeyOf[d]),
           Undelivered(KeyOf[d])' <=> Undelivered(KeyOf[d]),
           UpdateAfter(received, KeyOf[d])' <=> UpdateAfter(received, KeyOf[d]),
           Working' => /\ Working
                       /\ WaitsToSync(d) \/ RunsToSync(d) => (WaitsToSync(d) \/ RunsToSync(d))'
                       /\ WaitsToReplace(d) \/ RunsToReplace(d) =>
                                (WaitsToReplace(d) \/ RunsToReplace(d))'
    PROVE  Survives(d)' /\ AtHand(d)'
<1>1. /\ Gone(d)' <=> Gone(d)
      /\ Stored(d)' <=> Stored(d)
      /\ Clean(d)' <=> Clean(d)
  BY DEF Gone, Stored, Clean, FetchedLatest
<1>2. /\ dvd'[d] = dvd[d] /\ log' = log /\ ingesting' = ingesting
      /\ overtaken' = overtaken
  OBVIOUS
<1>3. Survives(d)'
  BY <1>1, <1>2 DEF Survives
<1>4. AtHand(d)'
  BY <1>1, <1>2 DEF AtHand
<1> QED
  BY <1>3, <1>4

LEMMA TakeLosesNothing ==
    ASSUME TypeOK, NothingLost, NEW k \in Keys, Take(k)
    PROVE  NothingLost'
<1> USE DEF external, kafka, queue, work, neo4j
<1>1. jobs[k] \in Job /\ jobs[k].key = k /\ jobs[k] # NoJob /\ PlainSync(jobs[k])
  BY DEF Take, TypeOK, NothingLost, SyncsOnly
<1>2. /\ current' = jobs[k] /\ worker = "ready" /\ worker' = "resolving"
      /\ \A o \in Keys : jobs'[o] = IF o = k THEN NoJob ELSE jobs[o]
      /\ UNCHANGED <<dvd, log, committed, received, retries, todo, ingesting, edition, writes,
                     store, overtaken, lost, graph>>
  BY <1>1 DEF Take, TypeOK, SyncPhase, PlainSync
<1>3. SyncsOnly'
  BY <1>1, <1>2 DEF NothingLost, SyncsOnly
<1>4. /\ ConsumerStatement' /\ FirstEvents' /\ OvertakenKeys'
      /\ \A d \in Docs : Claimed(d)' => Claimed(d)
      /\ \A o \in Keys : /\ Durable(o)' <=> Durable(o)
                         /\ ReplaceDurable(o)' <=> ReplaceDurable(o)
                         /\ Undelivered(o)' <=> Undelivered(o)
                         /\ UpdateAfter(received, o)' <=> UpdateAfter(received, o)
  <2>1. \A o \in Keys : AtWork(o)' => jobs'[o] = NoJob
    BY <1>1, <1>2 DEF AtWork
  <2> QED
    BY <1>2, <2>1, CalmStep
<1>5. JobsDurable'
  BY <1>1, <1>2, <1>4 DEF NothingLost, JobsDurable, AtWork
<1>6. ASSUME NEW d \in Docs, Claimed(d)'
      PROVE  Survives(d)' /\ AtHand(d)'
  <2>1. Survives(d) /\ AtHand(d) /\ KeyOf[d] \in Keys
    BY <1>4, <1>6 DEF NothingLost, Keys
  <2>2. ~RunsToSync(d) /\ ~RunsToReplace(d) /\ Working
    BY <1>2 DEF RunsToSync, RunsToReplace, Working
  <2>3. CASE KeyOf[d] = k
    <3>1. RunsToSync(d)' /\ (WaitsToReplace(d) => RunsToReplace(d)')
      BY <1>1, <1>2, <2>3 DEF RunsToSync, RunsToReplace, WaitsToReplace, PlainSync
    <3> QED
      BY <1>2, <1>4, <2>1, <2>2, <3>1, CalmDocument
  <2>4. CASE KeyOf[d] # k
    <3>1. /\ WaitsToSync(d)' <=> WaitsToSync(d)
          /\ WaitsToReplace(d)' <=> WaitsToReplace(d)
      BY <1>2, <2>1, <2>4 DEF WaitsToSync, WaitsToReplace
    <3> QED
      BY <1>2, <1>4, <2>1, <2>2, <3>1, CalmDocument
  <2> QED
    BY <2>3, <2>4
<1> QED
  BY <1>3, <1>4, <1>5, <1>6 DEF NothingLost

(* The worker rests, or asks IDU_DVD; the queue has no worker. *)
LEMMA RestLosesNothing ==
    ASSUME TypeOK, ReachWork, NothingLost, Sleep \/ Wake \/ Resolve \/ StartFails \/ UNCHANGED vars
    PROVE  NothingLost'
<1> USE DEF external, kafka, queue, work, neo4j, bounds
<1>1. /\ UNCHANGED <<dvd, log, committed, received, jobs, retries, current, ingesting, edition,
                     writes, store, overtaken, lost, graph>>
      /\ worker' # "deleting" /\ (worker' = "off" => worker = "off")
      /\ worker' \in {"off", "absent"} => worker \in {"off", "absent"}
      /\ worker \in {"off", "absent"} => worker' \in {"off", "absent"}
  BY DEF Sleep, Wake, Resolve, StartFails, vars, NothingLost, SyncsOnly
<1>2. SyncsOnly'
  BY <1>1 DEF NothingLost, SyncsOnly
<1>4. \A k \in Keys : AtWork(k)' => AtWork(k)
  BY <1>1 DEF Sleep, Wake, Resolve, StartFails, vars, AtWork
<1>3. /\ ConsumerStatement' /\ FirstEvents' /\ OvertakenKeys'
      /\ \A d \in Docs : Claimed(d)' => Claimed(d)
      /\ \A o \in Keys : /\ Durable(o)' <=> Durable(o)
                         /\ ReplaceDurable(o)' <=> ReplaceDurable(o)
                         /\ Undelivered(o)' <=> Undelivered(o)
                         /\ UpdateAfter(received, o)' <=> UpdateAfter(received, o)
  BY <1>1, <1>4, CalmStep
<1>5. JobsDurable'
  BY <1>1, <1>3, <1>4 DEF NothingLost, JobsDurable
<1>6. ASSUME NEW d \in Docs, dvd[d] # 0
      PROVE  /\ RunsToSync(d) => RunsToSync(d)'
             /\ RunsToReplace(d) => RunsToReplace(d)'
  <2>1. RunsToSync(d) => RunsToSync(d)'
    <3>1. CASE Resolve
      <4>1. /\ \A o \in DocsOf(current.key) : dvd[o] # 0 => o \in todo'
            /\ worker' = IF todo' = {} THEN "finishing" ELSE "syncing"
            /\ worker = "resolving"
        BY <3>1 DEF Resolve, DocsOf
      <4> QED
        BY <1>1, <1>6, <4>1 DEF RunsToSync, DocsOf
    <3>2. CASE Sleep \/ Wake \/ StartFails \/ UNCHANGED vars
      BY <1>1, <3>2 DEF Sleep, Wake, StartFails, vars, RunsToSync
    <3> QED
      BY <3>1, <3>2
  <2> QED
    BY <1>1, <2>1 DEF RunsToReplace
<1>7. ASSUME NEW d \in Docs, Claimed(d)'
      PROVE  Survives(d)' /\ AtHand(d)'
  <2>1. Survives(d) /\ AtHand(d) /\ KeyOf[d] \in Keys
    BY <1>3, <1>7 DEF NothingLost, Keys
  <2>2. /\ WaitsToSync(d)' <=> WaitsToSync(d)
        /\ WaitsToReplace(d)' <=> WaitsToReplace(d)
        /\ Working' => Working
    BY <1>1 DEF WaitsToSync, WaitsToReplace, Working
  <2>3. CASE dvd[d] # 0
    BY <1>1, <1>3, <1>6, <2>1, <2>2, <2>3, CalmDocument
  <2>4. CASE dvd[d] = 0
    BY <1>1, <2>1, <2>4 DEF Survives, AtHand, Gone
  <2> QED
    BY <2>3, <2>4
<1> QED
  BY <1>2, <1>3, <1>5, <1>7 DEF NothingLost

LEMMA FetchLosesNothing ==
    ASSUME TypeOK, ReachWork, NothingLost, NEW c \in Docs, Fetch(c)
    PROVE  NothingLost'
<1> USE DEF external, kafka, queue, work, neo4j, bounds
<1>0. NoDoc \notin Docs
  BY ConstantsAssumption DEF ConstantsAssumption
<1>1. /\ worker = "syncing" /\ ingesting = NoDoc /\ c \in todo /\ todo' = todo \ {c}
      /\ worker' \in {"syncing", "finishing"} /\ (todo' # {} => worker' = "syncing")
      /\ UNCHANGED <<dvd, log, committed, received, jobs, retries, current, writes, store,
                     overtaken, lost, graph>>
  BY DEF Fetch
<1>2. SyncsOnly'
  BY <1>1 DEF NothingLost, SyncsOnly
<1>3. /\ ConsumerStatement' /\ FirstEvents' /\ OvertakenKeys'
      /\ \A d \in Docs : Claimed(d)' => Claimed(d)
      /\ \A o \in Keys : /\ Durable(o)' <=> Durable(o)
                         /\ ReplaceDurable(o)' <=> ReplaceDurable(o)
                         /\ Undelivered(o)' <=> Undelivered(o)
                         /\ UpdateAfter(received, o)' <=> UpdateAfter(received, o)
  <2>1. \A o \in Keys : AtWork(o)' => AtWork(o)
    BY <1>1 DEF AtWork
  <2> QED
    BY <1>1, <2>1, CalmStep
<1>4. JobsDurable'
  BY <1>1, <1>3 DEF NothingLost, JobsDurable, AtWork
<1>5. Claimed(c) => KeyOf[c] = current.key /\ KeyOf[c] \in Keys
  <2>1. c \in Reach(current.key) /\ current.key \in Keys
    BY <1>1 DEF ReachWork, TypeOK, Job
  <2> QED
    BY <2>1, ClaimedReach DEF Keys
<1>6. CASE dvd[c] # 0
  <2>1. ingesting' = c /\ edition' = dvd[c] /\ worker' = "syncing"
    BY <1>1, <1>6 DEF Fetch
  <2>2. ASSUME NEW d \in Docs, Claimed(d)'
        PROVE  Survives(d)' /\ AtHand(d)'
    <3>1. /\ Claimed(d) /\ Survives(d) /\ AtHand(d) /\ KeyOf[d] \in Keys
          /\ dvd'[d] = dvd[d] /\ graph' = graph /\ overtaken' = overtaken
      BY <1>1, <1>3, <2>2 DEF NothingLost, Keys
    <3>2. /\ WaitsToSync(d)' <=> WaitsToSync(d)
          /\ WaitsToReplace(d)' <=> WaitsToReplace(d)
          /\ Working
      BY <1>1 DEF WaitsToSync, WaitsToReplace, Working
    <3>3. /\ RunsToSync(d) => RunsToSync(d)'
          /\ RunsToReplace(d) => RunsToReplace(d)'
      BY <1>0, <1>1, <2>1 DEF RunsToSync, RunsToReplace
    <3>4. FetchedLatest(d)'
      BY <1>1, <2>1 DEF FetchedLatest
    <3>5. Stored(d) => Stored(d)'
      BY <3>1, <3>4 DEF Stored
    <3>6. Clean(d) => Clean(d)'
      BY <3>1, <3>4 DEF Clean
    <3>7. Gone(d) /\ dvd[d] = 0 => Gone(d)'
      BY <1>6, <2>1, <3>1 DEF Gone
    <3>8. d = c /\ KeyOf[d] \notin overtaken => Durable(KeyOf[d])
      BY <1>1, <1>5, <3>1 DEF NothingLost, JobsDurable, AtWork, Claimed
    <3>9. d # c => ingesting' # d
      BY <2>1
    <3>10. log' = log
      BY <1>1
    <3>11. Survives(d)'
      BY <1>3, <3>1, <3>5, <3>6, <3>7, <3>8, <3>9, <3>10 DEF Survives
    <3>12. AtHand(d)'
      BY <1>3, <3>1, <3>2, <3>3, <3>5, <3>6 DEF AtHand
    <3> QED
      BY <3>11, <3>12
  <2> QED
    BY <1>2, <1>3, <1>4, <2>2 DEF NothingLost
<1>7. CASE dvd[c] = 0
  <2>1. UNCHANGED <<ingesting, edition>>
    BY <1>1, <1>7 DEF Fetch
  <2>2. ASSUME NEW d \in Docs, Claimed(d)'
        PROVE  Survives(d)' /\ AtHand(d)'
    <3>1. Survives(d) /\ AtHand(d) /\ KeyOf[d] \in Keys
      BY <1>3, <2>2 DEF NothingLost, Keys
    <3>2. /\ WaitsToSync(d)' <=> WaitsToSync(d)
          /\ WaitsToReplace(d)' <=> WaitsToReplace(d)
          /\ Working
      BY <1>1 DEF WaitsToSync, WaitsToReplace, Working
    <3>3. CASE d # c
      <4>1. /\ RunsToSync(d) => RunsToSync(d)'
            /\ RunsToReplace(d) => RunsToReplace(d)'
        BY <1>0, <1>1, <2>1, <3>3 DEF RunsToSync, RunsToReplace
      <4> QED
        BY <1>1, <1>3, <2>1, <3>1, <3>2, <4>1, CalmDocument
    <3>4. CASE d = c
      BY <1>1, <1>7, <2>1, <3>1, <3>4 DEF Survives, AtHand, Gone
    <3> QED
      BY <3>3, <3>4
  <2> QED
    BY <1>2, <1>3, <1>4, <2>2 DEF NothingLost
<1> QED
  BY <1>6, <1>7

LEMMA SynchronisedLosesNothing ==
    ASSUME TypeOK, ReachWork, NothingLost, Synchronised
    PROVE  NothingLost'
<1> USE DEF external, kafka, queue, work, neo4j, bounds
<1>1. /\ worker = "syncing" /\ ingesting \in Docs /\ ingesting # NoDoc /\ edition \in Nat
      /\ ingesting' = NoDoc /\ todo' = todo
      /\ worker' = IF todo = {} THEN "finishing" ELSE worker
      /\ UNCHANGED <<dvd, log, committed, received, jobs, retries, current, writes, store,
                     overtaken, lost>>
  BY DEF Synchronised, TypeOK
<1>2. /\ Claimed(ingesting) => KeyOf[ingesting] = current.key /\ KeyOf[ingesting] \in Keys
      /\ current \in Job /\ current # NoJob /\ current.sync /\ current.replace \in BOOLEAN
  <2>1. current \in Job /\ current # NoJob /\ current.key \in Keys
    BY <1>1 DEF TypeOK, Job
  <2>2. ingesting \in Reach(current.key)
    BY <1>1 DEF ReachWork
  <2>3. current.sync /\ current.replace \in BOOLEAN
    BY <2>1 DEF Job, NothingLost, SyncsOnly, PlainSync
  <2> QED
    BY <1>1, <2>1, <2>2, <2>3, ClaimedReach DEF Keys
<1>3. \A d \in Docs :
        graph'[d] = IF d = ingesting THEN Synced(graph[d], edition, current.replace)
                    ELSE graph[d]
  BY <1>1 DEF Synchronised, TypeOK
<1>4. NoDoc \notin Docs
  BY ConstantsAssumption DEF ConstantsAssumption
<1>5. SyncsOnly'
  BY <1>1 DEF NothingLost, SyncsOnly
<1>6. /\ ConsumerStatement' /\ FirstEvents' /\ OvertakenKeys'
      /\ \A d \in Docs : Claimed(d)' => Claimed(d)
      /\ \A o \in Keys : /\ Durable(o)' <=> Durable(o)
                         /\ ReplaceDurable(o)' <=> ReplaceDurable(o)
                         /\ Undelivered(o)' <=> Undelivered(o)
                         /\ UpdateAfter(received, o)' <=> UpdateAfter(received, o)
  <2>1. \A o \in Keys : AtWork(o)' => AtWork(o)
    BY <1>1 DEF AtWork
  <2> QED
    BY <1>1, <2>1, CalmStep
<1>7. JobsDurable'
  BY <1>1, <1>6 DEF NothingLost, JobsDurable, AtWork
<1>8. ASSUME NEW d \in Docs, Claimed(d)'
      PROVE  Survives(d)' /\ AtHand(d)'
  <2>1. Claimed(d) /\ Survives(d) /\ AtHand(d) /\ KeyOf[d] \in Keys
    BY <1>6, <1>8 DEF NothingLost, Keys
  <2>2. /\ WaitsToSync(d)' <=> WaitsToSync(d)
        /\ WaitsToReplace(d)' <=> WaitsToReplace(d)
        /\ Working
    BY <1>1 DEF WaitsToSync, WaitsToReplace, Working
  <2>3. RunsToSync(d) => RunsToSync(d)' \/ (ingesting = d /\ edition = dvd[d])
    BY <1>1 DEF RunsToSync
  <2>4. /\ dvd'[d] = dvd[d] /\ log' = log /\ current' = current /\ ingesting' # d
        /\ overtaken' = overtaken
    BY <1>1, <1>4
  <2>5. FetchedLatest(d)'
    BY <2>4 DEF FetchedLatest
  <2>6. CASE ingesting # d
    <3>1. graph'[d] = graph[d]
      BY <1>3, <2>6
    <3>2. /\ Gone(d) => Gone(d)'
          /\ Stored(d) => Stored(d)'
          /\ Clean(d) => Clean(d)'
      BY <2>4, <2>5, <3>1 DEF Gone, Stored, Clean
    <3>3. RunsToReplace(d) => RunsToReplace(d)'
      BY <2>3, <2>4, <2>6 DEF RunsToReplace
    <3>4. Survives(d)'
      BY <1>6, <2>1, <2>4, <3>2 DEF Survives
    <3>5. AtHand(d)'
      BY <1>6, <2>1, <2>2, <2>3, <2>4, <2>6, <3>2, <3>3 DEF AtHand
    <3> QED
      BY <3>4, <3>5
  <2>7. CASE ingesting = d
    <3>1. KeyOf[d] \notin overtaken => Durable(KeyOf[d])
      BY <1>1, <1>2, <2>1, <2>7 DEF NothingLost, JobsDurable, AtWork, Claimed
    <3>2. ~Gone(d)
      BY <2>7 DEF Gone
    <3>3. graph'[d] = Synced(graph[d], edition, current.replace)
      BY <1>3, <2>7
    <3>4. (Clean(d) \/ RunsToReplace(d)) /\ edition = dvd[d] => Stored(d)' /\ Clean(d)'
      BY <2>4, <2>5, <2>7, <3>3 DEF Clean, RunsToReplace, Stored, FetchedLatest, Synced
    <3>5. edition # dvd[d] => ~Stored(d) /\ ~Clean(d)
      BY <2>7 DEF Stored, Clean, FetchedLatest
    <3>6. RunsToReplace(d) => RunsToReplace(d)' \/ edition = dvd[d]
      BY <2>3, <2>4, <2>7 DEF RunsToReplace
    <3>7. UpdateAfter(received, KeyOf[d]) => Undelivered(KeyOf[d])
      BY DEF UpdateAfter, Undelivered
    <3>8. WaitsToReplace(d) => WaitsToSync(d)
      BY DEF WaitsToReplace
    <3>9. Clean(d) => Clean(d)'
      BY <3>4, <3>5
    <3>10. Survives(d)'
      BY <1>6, <2>1, <2>4, <3>1, <3>2, <3>9 DEF Survives
    <3>11. AtHand(d)'
      BY <1>6, <2>1, <2>2, <2>3, <2>4, <3>4, <3>5, <3>6, <3>7, <3>8 DEF AtHand
    <3> QED
      BY <3>10, <3>11
  <2> QED
    BY <2>6, <2>7
<1> QED
  BY <1>5, <1>6, <1>7, <1>8 DEF NothingLost

(* What an appended statement does to a key's node. *)
LEMMA AppendedNode ==
    ASSUME TypeOK, NEW w \in Write, writes' = Append(writes, w), UNCHANGED store, NEW k \in Keys
    PROVE  /\ NodeSure(k)' <=> NodeSure(k) /\ (w.key = k => w.value # NoJob)
           /\ NodeReplaces(k)' <=>
                NodeReplaces(k) /\ (w.key = k => w.value # NoJob /\ w.value.replace)
<1>1. /\ Len(writes') = Len(writes) + 1 /\ Len(writes) \in Nat
      /\ \A i \in 1..Len(writes) : writes'[i] = writes[i]
      /\ writes'[Len(writes) + 1] = w
  BY AppendProperties DEF TypeOK
<1>2. \A i \in 1..Len(writes') : i \in 1..Len(writes) \/ writes'[i] = w
  BY <1>1
<1>3. \E i \in 1..Len(writes') : writes'[i] = w
  BY <1>1
<1>4. \A i \in 1..Len(writes) : i \in 1..Len(writes') /\ writes'[i] = writes[i]
  BY <1>1
<1>5. NodeSure(k)' <=> NodeSure(k) /\ (w.key = k => w.value # NoJob)
  BY <1>2, <1>3, <1>4 DEF NodeSure
<1>6. NodeReplaces(k)' <=>
                NodeReplaces(k) /\ (w.key = k => w.value # NoJob /\ w.value.replace)
  BY <1>2, <1>3, <1>4, <1>5 DEF NodeReplaces
<1> QED
  BY <1>5, <1>6

LEMMA FinishLosesNothing ==
    ASSUME TypeOK, OwnStatements, ReachWork, NothingLost, Finish
    PROVE  NothingLost'
<1> DEFINE sent == [key |-> current.key, value |-> jobs[current.key], by |-> "worker"]
<1> USE DEF external, kafka, queue, work, neo4j, bounds
<1>1. current \in Job /\ current.key \in Keys
  BY DEF Finish, TypeOK, Job
<1>2. /\ sent \in Write /\ sent.key = current.key /\ sent.value = jobs[current.key]
      /\ sent.by = "worker"
  BY <1>1 DEF TypeOK, Write
<1>3. /\ writes' = Append(writes, sent) /\ current' = NoJob
      /\ worker = "finishing" /\ worker' = "flushing"
      /\ UNCHANGED <<dvd, log, committed, received, jobs, retries, todo, ingesting, edition,
                     store, lost, graph>>
      /\ overtaken' = overtaken \ {current.key}
  BY DEF Finish
<1>4. PICK w \in Write : w = sent
  BY <1>2
<1> HIDE DEF sent
<1>5. /\ Len(writes') = Len(writes) + 1 /\ Len(writes) \in Nat
      /\ \A i \in 1..Len(writes) : writes'[i] = writes[i]
      /\ writes'[Len(writes) + 1] = w
  BY <1>3, <1>4, AppendProperties DEF TypeOK
<1>6. \A i \in 1..Len(writes') : i \in 1..Len(writes) \/ (i = Len(writes) + 1 /\ writes'[i] = w)
  BY <1>5
<1>7. SyncsOnly'
  BY <1>1, <1>2, <1>3, <1>4, <1>5, <1>6 DEF NothingLost, SyncsOnly
<1>8. ingesting = NoDoc /\ ingesting \notin Docs
  BY <1>3, ConstantsAssumption DEF ReachWork, ConstantsAssumption
<1>9. ConsumerStatement'
  <2>1. ASSUME NEW n \in 1..Len(writes)
        PROVE  /\ writes[n].by # "retry"
               /\ writes[n].value = NoJob => writes[n].by = "worker"
               /\ writes[n].by = "consumer" =>
                     /\ received = committed + 1
                     /\ log[received].key = writes[n].key
                     /\ log[received].kind = "updated" => writes[n].value.replace
                     /\ \A m \in 1..Len(writes) : writes[m].by = "consumer" => m = n
                     /\ jobs[writes[n].key] \in {NoJob, writes[n].value}
                     /\ \A m \in (n + 1)..Len(writes) :
                           writes[m].key = writes[n].key => writes[m].value \in {NoJob, writes[n].value}
               /\ writes[n].value # NoJob
    BY <1>3 DEF NothingLost, ConsumerStatement, OwnStatements
  <2>2. ASSUME NEW n \in 1..Len(writes')
        PROVE  /\ writes'[n].by # "retry"
               /\ writes'[n].value = NoJob => writes'[n].by = "worker"
               /\ writes'[n].by = "consumer" =>
                     /\ received' = committed' + 1
                     /\ log'[received'].key = writes'[n].key
                     /\ log'[received'].kind = "updated" => writes'[n].value.replace
                     /\ \A m \in 1..Len(writes') : writes'[m].by = "consumer" => m = n
                     /\ jobs'[writes'[n].key] \in {NoJob, writes'[n].value}
                     /\ \A m \in (n + 1)..Len(writes') :
                           writes'[m].key = writes'[n].key => writes'[m].value \in {NoJob, writes'[n].value}
               /\ writes'[n].value = NoJob => jobs'[writes'[n].key] = NoJob
    <3>1. CASE n \in 1..Len(writes)
      <4>1. writes'[n] = writes[n]
        BY <1>5, <3>1
      <4>2. writes[n].by = "consumer" =>
              /\ \A m \in 1..Len(writes') : writes'[m].by = "consumer" => m = n
              /\ \A m \in (n + 1)..Len(writes') :
                    writes'[m].key = writes[n].key => writes'[m].value \in {NoJob, writes[n].value}
        <5>1. \A m \in 1..Len(writes') : writes'[m].by = "consumer" =>
                    m \in 1..Len(writes) /\ writes'[m] = writes[m]
          BY <1>2, <1>4, <1>5, <1>6
        <5>2. \A m \in (n + 1)..Len(writes') :
                    m \in (n + 1)..Len(writes) \/ m = Len(writes) + 1
          BY <1>5
        <5>3. \A m \in (n + 1)..Len(writes) : writes'[m] = writes[m]
          BY <1>5, <3>1
        <5>4. /\ writes'[Len(writes) + 1].value = jobs[current.key]
              /\ writes'[Len(writes) + 1].key = current.key
          BY <1>2, <1>4, <1>5
        <5>5. writes[n].by = "consumer" =>
                \A m \in 1..Len(writes') : writes'[m].by = "consumer" => m = n
          BY <2>1, <3>1, <5>1
        <5>6. ASSUME writes[n].by = "consumer", NEW m \in (n + 1)..Len(writes'),
                     writes'[m].key = writes[n].key
              PROVE  writes'[m].value \in {NoJob, writes[n].value}
          <6>1. CASE m \in (n + 1)..Len(writes)
            BY <2>1, <3>1, <5>3, <5>6, <6>1
          <6>2. CASE m = Len(writes) + 1
            BY <2>1, <3>1, <5>4, <5>6, <6>2
          <6> QED
            BY <5>2, <6>1, <6>2
        <5> QED
          BY <5>5, <5>6
      <4> QED
        BY <1>3, <2>1, <3>1, <4>1, <4>2
    <3>2. CASE writes'[n] = w
      BY <1>2, <1>3, <1>4, <3>2
    <3> QED
      BY <1>6, <3>1, <3>2
  <2> QED
    BY <2>2 DEF ConsumerStatement
<1>10. FirstEvents'
  BY <1>3 DEF NothingLost, FirstEvents
<1>11. ASSUME NEW k \in Keys
       PROVE  /\ NodeSure(k)' <=> NodeSure(k) /\ (current.key = k => jobs[k] # NoJob)
              /\ NodeReplaces(k)' <=>
                    NodeReplaces(k) /\ (current.key = k => jobs[k] # NoJob /\ jobs[k].replace)
              /\ Uncommitted(k)' <=> Uncommitted(k)
              /\ UpdateAfter(committed, k)' <=> UpdateAfter(committed, k)
              /\ Undelivered(k)' <=> Undelivered(k)
              /\ UpdateAfter(received, k)' <=> UpdateAfter(received, k)
  <2>1. /\ NodeSure(k)' <=> NodeSure(k) /\ (w.key = k => w.value # NoJob)
        /\ NodeReplaces(k)' <=>
              NodeReplaces(k) /\ (w.key = k => w.value # NoJob /\ w.value.replace)
    BY <1>3, <1>4, AppendedNode
  <2>2. w.key = current.key /\ (w.key = k => w.value = jobs[k])
    BY <1>2, <1>4
  <2>3. /\ Uncommitted(k)' <=> Uncommitted(k)
        /\ UpdateAfter(committed, k)' <=> UpdateAfter(committed, k)
        /\ Undelivered(k)' <=> Undelivered(k)
        /\ UpdateAfter(received, k)' <=> UpdateAfter(received, k)
    BY <1>3 DEF Uncommitted, UpdateAfter, Undelivered
  <2> QED
    BY <2>1, <2>2, <2>3
<1>14. OvertakenKeys'
  BY <1>3 DEF NothingLost, OvertakenKeys, AtWork
<1>15. \A k \in Keys : k \notin overtaken' /\ jobs[k] # NoJob => k \notin overtaken
  BY <1>3 DEF NothingLost, OvertakenKeys, AtWork
<1>12. JobsDurable'
  <2>1. ASSUME NEW k \in Keys, jobs[k] # NoJob, k \notin overtaken', k \notin lost
        PROVE  Durable(k)'
    <3>1. Durable(k)
      BY <1>15, <2>1 DEF NothingLost, JobsDurable
    <3> QED
      BY <1>11, <2>1, <3>1 DEF Durable
  <2> QED
    BY <1>3, <2>1 DEF JobsDurable, AtWork
<1>13. ASSUME NEW d \in Docs, Claimed(d)'
       PROVE  Survives(d)' /\ AtHand(d)'
  <2>1. Survives(d) /\ AtHand(d) /\ KeyOf[d] \in Keys /\ Working
    BY <1>3, <1>13, ClaimedBefore DEF NothingLost, Keys, Working
  <2>2. ~RunsToSync(d) /\ ~RunsToReplace(d)
    BY <1>3 DEF RunsToSync, RunsToReplace
  <2>3. /\ WaitsToSync(d)' <=> WaitsToSync(d)
        /\ WaitsToReplace(d)' <=> WaitsToReplace(d)
        /\ WaitsToSync(d) => jobs[KeyOf[d]] # NoJob
        /\ WaitsToReplace(d) => jobs[KeyOf[d]] # NoJob /\ jobs[KeyOf[d]].replace
    BY <1>3 DEF WaitsToSync, WaitsToReplace
  <2>4. /\ Gone(d)' <=> Gone(d)
        /\ Stored(d)' <=> Stored(d)
        /\ Clean(d)' <=> Clean(d)
        /\ ingesting' # d /\ ingesting # d /\ dvd'[d] = dvd[d] /\ log' = log
    BY <1>3, <1>8 DEF Gone, Stored, Clean, FetchedLatest
  <2>5. /\ Undelivered(KeyOf[d]) => Uncommitted(KeyOf[d])
        /\ UpdateAfter(received, KeyOf[d]) => UpdateAfter(committed, KeyOf[d])
    <3>1. \A i \in (received + 1)..Len(log) : i \in (committed + 1)..Len(log)
      BY DEF TypeOK
    <3> QED
      BY <3>1 DEF Undelivered, Uncommitted, UpdateAfter
  <2>6. dvd[d] # 0 /\ KeyOf[d] \notin overtaken' => Stored(d) \/ Durable(KeyOf[d])'
    BY <1>11, <1>15, <2>1, <2>2, <2>3, <2>5 DEF Survives, AtHand, Durable
  <2>7. dvd[d] # 0 /\ ~Clean(d) /\ KeyOf[d] \notin overtaken' => ReplaceDurable(KeyOf[d])'
    BY <1>11, <1>15, <2>1, <2>2, <2>3, <2>5 DEF Survives, AtHand, ReplaceDurable
  <2>8. Survives(d)'
    BY <2>1, <2>4, <2>6, <2>7 DEF Survives
  <2>9. AtHand(d)'
    BY <1>11, <2>1, <2>2, <2>3, <2>4 DEF AtHand
  <2> QED
    BY <2>8, <2>9
<1> QED
  BY <1>7, <1>9, <1>10, <1>12, <1>13, <1>14 DEF NothingLost

LEMMA PublishedEvent ==
    ASSUME TypeOK, NEW kind \in {"processed", "updated", "deleted"}, NEW k \in Keys,
           NEW versions \in SUBSET Docs, NEW removed \in BOOLEAN,
           Publish(kind, k, versions, removed)
    PROVE  /\ log'[Len(log) + 1].versions_removed = versions
           /\ log'[Len(log) + 1].document_removed = removed
<1> DEFINE event == [kind |-> kind, key |-> k, versions_removed |-> versions,
                     document_removed |-> removed]
<1>1. event \in Event /\ event.versions_removed = versions /\ event.document_removed = removed
  BY DEF Event
<1>2. log' = Append(log, event)
  BY DEF Publish
<1> HIDE DEF event
<1>3. log'[Len(log) + 1] = event
  BY <1>1, <1>2, AppendProperties DEF TypeOK
<1> QED
  BY <1>1, <1>3

LEMMA IndexLosesNothing ==
    ASSUME TypeOK, NothingLost, NEW c \in Docs, Index(c)
    PROVE  NothingLost'
<1>1. KeyOf[c] \in Keys /\ {} \in SUBSET Docs /\ FALSE \in BOOLEAN
  BY DEF Keys
<1>2. PICK kind \in {"processed", "updated", "deleted"} :
        /\ kind \in {"processed", "updated"}
        /\ Publish(kind, KeyOf[c], {}, FALSE)
        /\ kind = "processed" => \A o \in DocsOf(KeyOf[c]) : dvd[o] = 0
  BY DEF Index
<1>3. /\ Len(log') = Len(log) + 1 /\ Len(log) \in Nat
      /\ \A i \in 1..Len(log) : log'[i] = log[i]
      /\ log'[Len(log) + 1].kind = kind /\ log'[Len(log) + 1].key = KeyOf[c]
      /\ log'[Len(log) + 1].versions_removed = {} /\ log'[Len(log) + 1].document_removed = FALSE
  BY <1>1, <1>2, PublishKeeps, PublishedEvent
<1>4. UNCHANGED <<committed, received, jobs, retries, worker, current, todo, ingesting, edition,
                  writes, store, overtaken, lost, graph>>
  BY <1>2 DEF Publish, kafka, queue, work, neo4j
<1>5. /\ committed \in Nat /\ received \in Nat
      /\ committed <= received /\ received <= Len(log)
  BY DEF TypeOK
<1>6. \A d \in Docs : dvd'[d] = IF d = c THEN Len(log) + 1 ELSE dvd[d]
  BY DEF Index, TypeOK
<1>7. \A i \in 1..Len(log') : i \in 1..Len(log) \/ i = Len(log) + 1
  BY <1>3
<1>8. SyncsOnly'
  BY <1>4 DEF NothingLost, SyncsOnly
<1>9. ConsumerStatement'
  <2>1. received = committed + 1 => log'[received] = log[received]
    BY <1>3, <1>5
  <2> QED
    BY <1>4, <2>1 DEF NothingLost, ConsumerStatement
<1>10. ASSUME NEW k \in Keys
       PROVE  /\ Durable(k) => Durable(k)'
              /\ ReplaceDurable(k) => ReplaceDurable(k)'
              /\ Undelivered(k) => Undelivered(k)'
              /\ UpdateAfter(received, k) => UpdateAfter(received, k)'
  <2>1. \A i \in 1..Len(log) : i \in 1..Len(log') /\ log'[i] = log[i]
    BY <1>3
  <2>2. /\ \A i \in (committed + 1)..Len(log) : i \in (committed + 1)..Len(log') /\ log'[i] = log[i]
        /\ \A i \in (received + 1)..Len(log) : i \in (received + 1)..Len(log') /\ log'[i] = log[i]
    BY <1>3, <1>5
  <2>3. NodeSure(k)' <=> NodeSure(k)
    BY <1>4 DEF NodeSure
  <2>4. NodeReplaces(k)' <=> NodeReplaces(k)
    BY <1>4, <2>3 DEF NodeReplaces
  <2>5. committed' = committed /\ received' = received
    BY <1>4
  <2>6. /\ Uncommitted(k) => Uncommitted(k)'
        /\ UpdateAfter(committed, k) => UpdateAfter(committed, k)'
    BY <2>2, <2>5 DEF Uncommitted, UpdateAfter
  <2>7. /\ Undelivered(k) => Undelivered(k)'
        /\ UpdateAfter(received, k) => UpdateAfter(received, k)'
    BY <2>2, <2>5 DEF Undelivered, UpdateAfter
  <2> QED
    BY <2>3, <2>4, <2>6, <2>7 DEF Durable, ReplaceDurable
<1>11. JobsDurable'
  BY <1>4, <1>10 DEF NothingLost, JobsDurable, AtWork
<1>12. FirstEvents'
  <2>1. FirstEvents
    BY DEF NothingLost
  <2>2. ASSUME NEW i \in 1..Len(log)
        PROVE  /\ log'[i] = log[i] /\ log[i].kind \in {"processed", "updated"}
               /\ log[i].versions_removed = {} /\ log[i].document_removed = FALSE
               /\ \E d \in DocsOf(log[i].key) : dvd'[d] # 0
               /\ log[i].kind = "processed" => \A j \in 1..(i - 1) : log'[j].key # log[i].key
    <3>1. PICK d \in DocsOf(log[i].key) : dvd[d] # 0
      BY <2>1 DEF FirstEvents
    <3>2. d \in Docs /\ dvd'[d] # 0
      BY <1>3, <1>6, <3>1 DEF DocsOf
    <3>3. \A j \in 1..(i - 1) : log'[j] = log[j]
      BY <1>3
    <3> QED
      BY <1>3, <2>1, <3>2, <3>3 DEF FirstEvents
  <2>3. c \in DocsOf(KeyOf[c]) /\ dvd'[c] # 0
    BY <1>3, <1>6 DEF DocsOf
  <2>4. kind = "processed" => \A j \in 1..Len(log) : log'[j].key # KeyOf[c]
    BY <1>2, <1>3, <2>1 DEF FirstEvents
  <2>5. ASSUME NEW i \in 1..Len(log')
        PROVE  /\ log'[i].kind \in {"processed", "updated"}
               /\ log'[i].versions_removed = {} /\ log'[i].document_removed = FALSE
               /\ \E d \in DocsOf(log'[i].key) : dvd'[d] # 0
               /\ log'[i].kind = "processed" => \A j \in 1..(i - 1) : log'[j].key # log'[i].key
    <3>1. CASE i \in 1..Len(log)
      BY <2>2, <3>1
    <3>2. CASE i = Len(log) + 1
      <4>1. \A j \in 1..(i - 1) : j \in 1..Len(log)
        BY <1>3, <3>2
      <4> QED
        BY <1>2, <1>3, <2>3, <2>4, <3>2, <4>1
    <3> QED
      BY <1>7, <3>1, <3>2
  <2>6. ASSUME NEW d \in Docs, dvd'[d] # 0
        PROVE  dvd'[d] \in 1..Len(log') /\ log'[dvd'[d]].key = KeyOf[d]
    <3>1. CASE d = c
      BY <1>3, <1>6, <3>1
    <3>2. CASE d # c
      <4>1. dvd'[d] = dvd[d] /\ dvd[d] \in 1..Len(log) /\ log[dvd[d]].key = KeyOf[d]
        BY <1>6, <2>1, <2>6, <3>2 DEF FirstEvents
      <4> QED
        BY <1>3, <4>1
    <3> QED
      BY <3>1, <3>2
  <2> QED
    BY <2>5, <2>6 DEF FirstEvents, DocsOf
<1>15. OvertakenKeys'
  <2>1. \A i \in 1..received : log'[i] = log[i]
    BY <1>3, <1>5
  <2> QED
    BY <1>4, <2>1 DEF NothingLost, OvertakenKeys, AtWork
<1>16. \A d \in Docs : Claimed(d)' => Claimed(d)
  BY <1>4, ClaimedBefore
<1>13. ASSUME NEW d \in Docs, Claimed(d)', d # c
       PROVE  Survives(d)' /\ AtHand(d)'
  <2>1. Survives(d) /\ AtHand(d) /\ KeyOf[d] \in Keys /\ dvd'[d] = dvd[d]
    BY <1>6, <1>13, <1>16 DEF NothingLost, Keys
  <2>2. dvd[d] # 0 => log'[dvd[d]] = log[dvd[d]]
    BY <1>3 DEF NothingLost, FirstEvents
  <2>3. /\ Gone(d)' <=> Gone(d)
        /\ Stored(d)' <=> Stored(d)
        /\ Clean(d)' <=> Clean(d)
        /\ WaitsToSync(d)' <=> WaitsToSync(d)
        /\ WaitsToReplace(d)' <=> WaitsToReplace(d)
        /\ RunsToSync(d)' <=> RunsToSync(d)
        /\ RunsToReplace(d)' <=> RunsToReplace(d)
        /\ Working' <=> Working
    BY <1>4, <2>1 DEF Gone, Stored, Clean, FetchedLatest, WaitsToSync, WaitsToReplace, RunsToSync,
                      RunsToReplace, Working
  <2>4. Survives(d)'
    BY <1>4, <1>10, <2>1, <2>2, <2>3 DEF Survives
  <2>5. AtHand(d)'
    BY <1>4, <1>10, <2>1, <2>3 DEF AtHand
  <2> QED
    BY <2>4, <2>5
<1>14. ASSUME Claimed(c)'
       PROVE  Survives(c)' /\ AtHand(c)'
  <2>1. /\ Uncommitted(KeyOf[c])' /\ Undelivered(KeyOf[c])'
        /\ kind = "updated" => UpdateAfter(committed, KeyOf[c])' /\ UpdateAfter(received, KeyOf[c])'
    <3>1. /\ Len(log) + 1 \in (committed' + 1)..Len(log')
          /\ Len(log) + 1 \in (received' + 1)..Len(log')
      BY <1>3, <1>4, <1>5
    <3> QED
      BY <1>3, <3>1 DEF Uncommitted, Undelivered, UpdateAfter
  <2>2. dvd'[c] = Len(log) + 1 /\ dvd'[c] # 0
    BY <1>3, <1>6
  <2>3. kind = "processed" => Clean(c)'
    <3>1. kind = "processed" => Gone(c)
      BY <1>2, <1>14, <1>16 DEF NothingLost, Survives, DocsOf
    <3> QED
      BY <1>4, <3>1 DEF Gone, Clean, FetchedLatest, Absent
  <2>4. Survives(c)'
    BY <1>2, <1>3, <2>1, <2>2, <2>3 DEF Survives, Durable, ReplaceDurable
  <2>5. AtHand(c)'
    BY <1>2, <2>1, <2>3 DEF AtHand
  <2> QED
    BY <2>4, <2>5
<1> QED
  BY <1>8, <1>9, <1>11, <1>12, <1>13, <1>14, <1>15 DEF NothingLost

(* A stop: the node of a key is what some statement in flight made of it, or what it was. *)
LEMMA CrashLosesNothing ==
    ASSUME TypeOK, ReachWork, NothingLost, Crash
    PROVE  NothingLost'
<1> USE DEF external, kafka, queue, work, neo4j, bounds
<1>1. PICK last \in [Keys -> 0..Len(writes)] :
        /\ \A k \in Keys : last[k] # 0 => writes[last[k]].key = k
        /\ store' = [k \in Keys |-> IF last[k] = 0 THEN store[k] ELSE writes[last[k]].value]
  BY DEF Crash
<1>2. /\ writes' = << >> /\ Len(writes') = 0 /\ jobs' = [k \in Keys |-> NoJob] /\ retries' = {}
      /\ worker' = "off" /\ current' = NoJob /\ todo' = {} /\ ingesting' = NoDoc
      /\ received' = committed /\ graph' \in CutShort /\ worker # "deleting"
      /\ overtaken' = {} /\ lost' = lost \cup overtaken
      /\ UNCHANGED <<dvd, log, committed>>
  BY DEF Crash, NothingLost, SyncsOnly
<1>3. ASSUME NEW k \in Keys
      PROVE  \/ store'[k] = store[k]
             \/ \E i \in 1..Len(writes) : writes[i].key = k /\ store'[k] = writes[i].value
  <2>1. last[k] \in 0..Len(writes) /\ Len(writes) \in Nat
    BY DEF TypeOK
  <2>2. store'[k] = IF last[k] = 0 THEN store[k] ELSE writes[last[k]].value
    BY <1>1
  <2> QED
    BY <1>1, <2>1, <2>2
<1>4. SyncsOnly'
  <2>1. \A k \in Keys : store'[k] # NoJob => PlainSync(store'[k])
    BY <1>3 DEF NothingLost, SyncsOnly
  <2> QED
    BY <1>2, <2>1 DEF SyncsOnly
<1>5. ConsumerStatement' /\ OvertakenKeys' /\ JobsDurable'
  BY <1>2 DEF ConsumerStatement, OvertakenKeys, JobsDurable, AtWork
<1>6. FirstEvents'
  BY <1>2 DEF NothingLost, FirstEvents
<1>7. ASSUME NEW k \in Keys
      PROVE  /\ Durable(k) => Durable(k)'
             /\ ReplaceDurable(k) => ReplaceDurable(k)'
  <2>1. NodeSure(k) => NodeSure(k)'
    BY <1>2, <1>3 DEF NodeSure
  <2>2. NodeReplaces(k) => NodeReplaces(k)'
    BY <1>2, <1>3, <2>1 DEF NodeReplaces, NodeSure
  <2>3. /\ Uncommitted(k)' <=> Uncommitted(k)
        /\ UpdateAfter(committed, k)' <=> UpdateAfter(committed, k)
    BY <1>2 DEF Uncommitted, UpdateAfter
  <2> QED
    BY <2>1, <2>2, <2>3 DEF Durable, ReplaceDurable
<1>8. ASSUME NEW d \in Docs, Claimed(d)'
      PROVE  Survives(d)' /\ AtHand(d)'
  <2>1. /\ Survives(d) /\ KeyOf[d] \in Keys /\ dvd'[d] = dvd[d] /\ log' = log /\ ingesting' # d
        /\ KeyOf[d] \notin overtaken
    <3>1. Claimed(d) /\ KeyOf[d] \notin overtaken
      BY <1>2, <1>8, ClaimedBefore DEF Claimed
    <3> QED
      BY <1>2, <3>1, ConstantsAssumption DEF NothingLost, Keys, ConstantsAssumption
  <2>2. \/ graph'[d] = graph[d]
        \/ ingesting = d /\ graph'[d] = HalfSynced(graph[d], edition)
    BY <1>2 DEF CutShort, TypeOK
  <2>3. Gone(d) => Gone(d)'
    BY <2>1, <2>2 DEF Gone
  <2>4. Stored(d) /\ ingesting # d => Stored(d)'
    BY <2>1, <2>2 DEF Stored, FetchedLatest
  <2>5. Clean(d) => Clean(d)'
    <3>1. graph[d].edition \in {0, edition} /\ graph[d].state # "stale" =>
            HalfSynced(graph[d], edition) = [edition |-> edition, state |-> "partial"]
      BY DEF HalfSynced
    <3> QED
      BY <2>1, <2>2, <3>1 DEF Clean, FetchedLatest
  <2>6. Survives(d)'
    BY <1>7, <2>1, <2>3, <2>4, <2>5 DEF Survives
  <2>7. AtHand(d)'
    BY <1>2 DEF AtHand, Working
  <2> QED
    BY <2>6, <2>7
<1> QED
  BY <1>4, <1>5, <1>6, <1>8 DEF NothingLost

(* ... and the queue that starts again finds it there. *)
LEMMA StartLosesNothing ==
    ASSUME TypeOK, Quiet, NothingLost, Start
    PROVE  NothingLost'
<1> USE DEF external, kafka, queue, work, neo4j, bounds
<1>1. /\ writes = << >> /\ Len(writes) = 0 /\ received = committed /\ ingesting = NoDoc
      /\ overtaken = {} /\ jobs' = store /\ worker' = "ready" /\ ingesting' = NoDoc
      /\ UNCHANGED <<dvd, log, committed, received, retries, current, ingesting, edition,
                     writes, store, overtaken, lost, graph>>
  BY DEF Start, Quiet, NothingLost, SyncsOnly
<1>2. SyncsOnly'
  BY <1>1 DEF NothingLost, SyncsOnly
<1>3. ConsumerStatement' /\ OvertakenKeys'
  BY <1>1 DEF ConsumerStatement, OvertakenKeys
<1>4. FirstEvents'
  BY <1>1 DEF NothingLost, FirstEvents
<1>5. ASSUME NEW k \in Keys
      PROVE  /\ Durable(k)' <=> Durable(k)
             /\ ReplaceDurable(k)' <=> ReplaceDurable(k)
             /\ Undelivered(k)' <=> Uncommitted(k)
             /\ UpdateAfter(received, k)' <=> UpdateAfter(committed, k)
  BY <1>1 DEF Durable, ReplaceDurable, Uncommitted, NodeSure, NodeReplaces, UpdateAfter, Undelivered
<1>6. JobsDurable'
  <2>1. \A k \in Keys : jobs'[k] # NoJob => NodeSure(k)
    BY <1>1 DEF NodeSure
  <2> QED
    BY <1>1, <1>5, <2>1 DEF JobsDurable, AtWork, Durable
<1>7. ASSUME NEW d \in Docs, Claimed(d)'
      PROVE  Survives(d)' /\ AtHand(d)'
  <2>1. Survives(d) /\ KeyOf[d] \in Keys
    BY <1>1, <1>7, ClaimedBefore DEF NothingLost, Keys
  <2>2. /\ Gone(d)' <=> Gone(d)
        /\ Stored(d)' <=> Stored(d)
        /\ Clean(d)' <=> Clean(d)
        /\ dvd'[d] = dvd[d] /\ log' = log /\ ingesting' = ingesting /\ overtaken' = overtaken
    BY <1>1 DEF Gone, Stored, Clean, FetchedLatest
  <2>3. Survives(d)'
    BY <1>5, <2>1, <2>2 DEF Survives
  <2>4. NodeSure(KeyOf[d]) => WaitsToSync(d)'
    BY <1>1, <2>1 DEF NodeSure, WaitsToSync, NothingLost, SyncsOnly, PlainSync
  <2>5. NodeReplaces(KeyOf[d]) => WaitsToReplace(d)'
    BY <1>1, <2>1, <2>4 DEF NodeReplaces, WaitsToReplace
  <2>6. AtHand(d)'
    BY <1>1, <1>5, <2>1, <2>2, <2>4, <2>5 DEF AtHand, Survives, Durable, ReplaceDurable
  <2> QED
    BY <2>3, <2>6
<1> QED
  BY <1>2, <1>3, <1>4, <1>6, <1>7 DEF NothingLost

LEMMA NothingLostInit == Init => NothingLost
<1> SUFFICES ASSUME Init
             PROVE  NothingLost
  OBVIOUS
<1>1. /\ Len(log) = 0 /\ Len(writes) = 0 /\ retries = {} /\ worker = "ready"
      /\ overtaken = {} /\ current = NoJob /\ ingesting = NoDoc /\ NoDoc \notin Docs
      /\ \A k \in Keys : jobs[k] = NoJob /\ store[k] = NoJob
      /\ \A d \in Docs : dvd[d] = 0 /\ graph[d] = Absent
  BY ConstantsAssumption DEF Init, ConstantsAssumption
<1>2. SyncsOnly
  BY <1>1 DEF SyncsOnly
<1>3. ConsumerStatement /\ OvertakenKeys /\ JobsDurable /\ FirstEvents
  BY <1>1 DEF ConsumerStatement, OvertakenKeys, JobsDurable, FirstEvents, AtWork
<1>4. ASSUME NEW d \in Docs
      PROVE  Survives(d) /\ AtHand(d)
  BY <1>1, <1>4 DEF Survives, AtHand, Gone
<1> QED
  BY <1>2, <1>3, <1>4 DEF NothingLost

LEMMA NothingLostSettles ==
    NothingLost => \A k \in Keys : k \in lost \/ SharesName(k) \/ SettledOrOwed(k)
<1> SUFFICES ASSUME NothingLost, worker \notin {"off", "absent"}, NEW k \in Keys, ~Owed(k),
                    k \notin lost, ~SharesName(k), NEW d \in DocsOf(k)
             PROVE  graph[d] = [edition |-> dvd[d], state |-> "whole"]
  BY DEF SettledOrOwed, InSync
<1>1. d \in Docs /\ KeyOf[d] = k /\ Survives(d) /\ AtHand(d) /\ Working
  BY DEF DocsOf, NothingLost, Claimed, Working
<1>2. CASE dvd[d] = 0
  BY <1>1, <1>2 DEF Survives, Gone, Absent
<1>3. CASE dvd[d] # 0
  <2>1. ~Undelivered(k) /\ ~WaitsToSync(d)
    BY <1>1 DEF Owed, WaitsToSync
  <2>2. ~RunsToSync(d)
    BY <1>1 DEF Owed, Executing, RunsToSync
  <2> QED
    BY <1>1, <1>3, <2>1, <2>2 DEF AtHand, Stored
<1> QED
  BY <1>2, <1>3

(* What is left in flight when a statement ends. *)
LEMMA RemovedStatement ==
    ASSUME TypeOK, NEW i \in 1..Len(writes), writes' = RemoveAt(writes, i)
    PROVE  \A n \in 1..Len(writes') : \E o \in 1..Len(writes) :
                /\ o # i /\ o = (IF n < i THEN n ELSE n + 1) /\ writes'[n] = writes[o]
<1>1. writes \in Seq(Write) /\ Len(writes) \in Nat
  BY DEF TypeOK
<1>2. /\ Len(writes') = Len(writes) - 1
      /\ \A j \in 1..(Len(writes) - 1) :
            writes'[j] = IF j < i THEN writes[j] ELSE writes[j + 1]
  BY <1>1, RemoveAtType
<1> QED
  BY <1>1, <1>2

LEMMA RemainingStatement ==
    ASSUME TypeOK, NEW i \in 1..Len(writes), writes' = RemoveAt(writes, i)
    PROVE  \A o \in 1..Len(writes) : o # i =>
                \E n \in 1..Len(writes') :
                    o = (IF n < i THEN n ELSE n + 1) /\ writes'[n] = writes[o]
<1>1. writes \in Seq(Write) /\ Len(writes) \in Nat
  BY DEF TypeOK
<1>2. /\ Len(writes') = Len(writes) - 1
      /\ \A j \in 1..(Len(writes) - 1) :
            writes'[j] = IF j < i THEN writes[j] ELSE writes[j + 1]
  BY <1>1, RemoveAtType
<1>3. ASSUME NEW o \in 1..Len(writes), o # i
      PROVE  \E n \in 1..Len(writes') :
                o = (IF n < i THEN n ELSE n + 1) /\ writes'[n] = writes[o]
  <2>1. CASE o < i
    BY <1>1, <1>2, <2>1
  <2>2. CASE o > i
    <3>1. o - 1 \in 1..Len(writes') /\ ~(o - 1 < i) /\ (o - 1) + 1 = o
      BY <1>1, <1>2, <2>2
    <3> QED
      BY <1>2, <3>1
  <2> QED
    BY <1>1, <1>3, <2>1, <2>2
<1> QED
  BY <1>3

(* The consumer's statement is the last one: only the worker's may be older. *)
LEMMA ConsumerOvertakes ==
    ASSUME TypeOK, OwnStatements, ConsumerStatement, NEW i \in 1..Len(writes),
           NEW o \in 1..(i - 1), writes[i].by = "consumer", writes[o].key = writes[i].key
    PROVE  Overtakes(i)
<1>0. writes \in Seq(Write) /\ Len(writes) \in Nat
  BY DEF TypeOK
<1>1. o \in 1..Len(writes) /\ o # i /\ o < i
  BY <1>0
<1>2. \A m \in 1..Len(writes) : m # i => writes[m].by = "worker"
  <2>1. \A m \in 1..Len(writes) : writes[m] \in Write /\ writes[m].by \in {"consumer", "retry", "worker"}
    BY <1>0 DEF Write
  <2> QED
    BY <2>1 DEF ConsumerStatement
<1>3. \A m \in 1..Len(writes) : m # i => m = o
  BY <1>1, <1>2 DEF OwnStatements
<1>4. \A m \in (i + 1)..Len(writes) : m \in 1..Len(writes) /\ m # i /\ m # o
  BY <1>0, <1>1
<1>5. \A m \in (i + 1)..Len(writes) : FALSE
  BY <1>3, <1>4
<1> QED
  BY <1>5 DEF Overtakes

LEMMA StatementEnds ==
    ASSUME TypeOK, OwnStatements, ConsumerStatement, NEW i \in 1..Len(writes),
           writes' = RemoveAt(writes, i), UNCHANGED <<log, jobs, received>>,
           writes[i].by # "consumer" => committed' = committed,
           overtaken \subseteq overtaken',
           writes[i].by = "consumer" /\ Overtakes(i) => writes[i].key \in overtaken'
    PROVE  ConsumerStatement'
<1>0. Len(writes) \in Nat
  BY DEF TypeOK
<1>1. \A n \in 1..Len(writes') : \E o \in 1..Len(writes) :
        o # i /\ o = (IF n < i THEN n ELSE n + 1) /\ writes'[n] = writes[o]
  BY RemovedStatement
<1>2. \A o \in 1..Len(writes) : o # i =>
        \E n \in 1..Len(writes') : o = (IF n < i THEN n ELSE n + 1) /\ writes'[n] = writes[o]
  BY RemainingStatement
<1>3. ASSUME NEW n \in 1..Len(writes')
      PROVE  /\ writes'[n].by # "retry"
             /\ writes'[n].value = NoJob => writes'[n].by = "worker"
             /\ writes'[n].by = "consumer" =>
                   /\ received' = committed' + 1
                   /\ log'[received'].key = writes'[n].key
                   /\ log'[received'].kind = "updated" => writes'[n].value.replace
                   /\ \A m \in 1..Len(writes') : writes'[m].by = "consumer" => m = n
                   /\ jobs'[writes'[n].key] \in {NoJob, writes'[n].value}
                   /\ \A m \in (n + 1)..Len(writes') :
                         writes'[m].key = writes'[n].key => writes'[m].value \in {NoJob, writes'[n].value}
             /\ writes'[n].value = NoJob /\ jobs'[writes'[n].key] # NoJob
                   /\ writes'[n].key \notin overtaken' =>
                   \E m \in (n + 1)..Len(writes') :
                         writes'[m].by = "consumer" /\ writes'[m].key = writes'[n].key
  <2>1. PICK o \in 1..Len(writes) :
          o # i /\ o = (IF n < i THEN n ELSE n + 1) /\ writes'[n] = writes[o]
    BY <1>1
  <2>2. /\ writes[o].by # "retry"
        /\ writes[o].value = NoJob => writes[o].by = "worker"
        /\ writes[o].by = "consumer" =>
              /\ received = committed + 1
              /\ log[received].key = writes[o].key
              /\ log[received].kind = "updated" => writes[o].value.replace
              /\ \A m \in 1..Len(writes) : writes[m].by = "consumer" => m = o
              /\ jobs[writes[o].key] \in {NoJob, writes[o].value}
              /\ \A m \in (o + 1)..Len(writes) :
                    writes[m].key = writes[o].key => writes[m].value \in {NoJob, writes[o].value}
        /\ writes[o].value = NoJob /\ jobs[writes[o].key] # NoJob
              /\ writes[o].key \notin overtaken =>
              \E m \in (o + 1)..Len(writes) :
                    writes[m].by = "consumer" /\ writes[m].key = writes[o].key
    BY DEF ConsumerStatement
  <2>3. writes[o].by = "consumer" => committed' = committed
    BY <2>1, <2>2
  <2>4. writes[o].by = "consumer" =>
          \A m \in 1..Len(writes') : writes'[m].by = "consumer" => m = n
    <3>1. ASSUME writes[o].by = "consumer", NEW m \in 1..Len(writes'), writes'[m].by = "consumer"
          PROVE  m = n
      <4>1. PICK p \in 1..Len(writes) :
              p # i /\ p = (IF m < i THEN m ELSE m + 1) /\ writes'[m] = writes[p]
        BY <1>1
      <4>2. p = o
        BY <2>2, <3>1, <4>1
      <4> QED
        BY <1>0, <2>1, <4>1, <4>2
    <3> QED
      BY <3>1
  <2>5. writes[o].by = "consumer" =>
          \A m \in (n + 1)..Len(writes') :
              writes'[m].key = writes[o].key => writes'[m].value \in {NoJob, writes[o].value}
    <3>1. ASSUME writes[o].by = "consumer", NEW m \in (n + 1)..Len(writes'),
                 writes'[m].key = writes[o].key
          PROVE  writes'[m].value \in {NoJob, writes[o].value}
      <4>1. m \in 1..Len(writes') /\ m > n
        OBVIOUS
      <4>2. PICK p \in 1..Len(writes) :
              p # i /\ p = (IF m < i THEN m ELSE m + 1) /\ writes'[m] = writes[p]
        BY <1>1, <4>1
      <4>3. p \in (o + 1)..Len(writes)
        BY <1>0, <2>1, <4>1, <4>2
      <4> QED
        BY <2>2, <3>1, <4>2, <4>3
    <3> QED
      BY <3>1
  <2>6. ASSUME writes[o].value = NoJob, jobs[writes[o].key] # NoJob,
               writes[o].key \notin overtaken'
        PROVE  \E m \in (n + 1)..Len(writes') :
                   writes'[m].by = "consumer" /\ writes'[m].key = writes[o].key
    <3>1. PICK p \in (o + 1)..Len(writes) :
            writes[p].by = "consumer" /\ writes[p].key = writes[o].key
      BY <2>2, <2>6
    <3>2. p \in 1..Len(writes) /\ p > o
      BY <1>0
    <3>3. p # i
      <4>1. p = i => o \in 1..(i - 1)
        BY <1>0, <3>2
      <4> QED
        BY <2>6, <3>1, <4>1, ConsumerOvertakes
    <3>4. PICK m \in 1..Len(writes') :
            p = (IF m < i THEN m ELSE m + 1) /\ writes'[m] = writes[p]
      BY <1>2, <3>2, <3>3
    <3>5. m > n
      BY <1>0, <2>1, <3>2, <3>4
    <3>6. m \in (n + 1)..Len(writes')
      BY <3>5
    <3> QED
      BY <3>1, <3>4, <3>6
  <2> QED
    BY <2>1, <2>2, <2>3, <2>4, <2>5, <2>6
<1> QED
  BY <1>3 DEF ConsumerStatement

LEMMA WriteFailureLosesNothing ==
    ASSUME TypeOK, OwnStatements, NothingLost, NEW i \in 1..Len(writes), WriteFails(i),
           writes[i].by # "consumer"
    PROVE  NothingLost'
<1> USE DEF external, kafka, queue, work, neo4j, bounds
<1>1. /\ writes' = RemoveAt(writes, i) /\ writes[i].by = "worker"
      /\ worker = "flushing" /\ worker' = "ready"
      /\ UNCHANGED <<dvd, log, committed, received, jobs, retries, current, todo, ingesting,
                     edition, store, overtaken, lost, graph>>
  BY DEF WriteFails, OwnStatements, NothingLost, ConsumerStatement, TypeOK, Write
<1>2. \A n \in 1..Len(writes') : \E o \in 1..Len(writes) : writes'[n] = writes[o]
  BY <1>1, RemovedStatement
<1>3. SyncsOnly'
  BY <1>1, <1>2 DEF NothingLost, SyncsOnly
<1>4. ConsumerStatement'
  BY <1>1, StatementEnds DEF NothingLost
<1>5. FirstEvents' /\ OvertakenKeys'
  BY <1>1 DEF NothingLost, FirstEvents, OvertakenKeys, AtWork
<1>6. ASSUME NEW k \in Keys
      PROVE  /\ Durable(k) => Durable(k)'
             /\ ReplaceDurable(k) => ReplaceDurable(k)'
             /\ Undelivered(k)' <=> Undelivered(k)
             /\ UpdateAfter(received, k)' <=> UpdateAfter(received, k)
  <2>1. NodeSure(k) => NodeSure(k)'
    BY <1>1, <1>2 DEF NodeSure
  <2>2. NodeReplaces(k) => NodeReplaces(k)'
    BY <1>1, <1>2, <2>1 DEF NodeReplaces
  <2> QED
    BY <1>1, <2>1, <2>2
       DEF Durable, ReplaceDurable, Uncommitted, UpdateAfter, Undelivered
<1>7. JobsDurable'
  BY <1>1, <1>6 DEF NothingLost, JobsDurable, AtWork
<1>8. ASSUME NEW d \in Docs, Claimed(d)'
      PROVE  Survives(d)' /\ AtHand(d)'
  <2>1. Survives(d) /\ AtHand(d) /\ KeyOf[d] \in Keys
    BY <1>1, <1>8, ClaimedBefore DEF NothingLost, Keys
  <2>2. /\ Gone(d)' <=> Gone(d)
        /\ Stored(d)' <=> Stored(d)
        /\ Clean(d)' <=> Clean(d)
        /\ WaitsToSync(d)' <=> WaitsToSync(d)
        /\ WaitsToReplace(d)' <=> WaitsToReplace(d)
        /\ ~RunsToSync(d) /\ ~RunsToReplace(d) /\ Working
        /\ dvd'[d] = dvd[d] /\ log' = log /\ ingesting' = ingesting /\ overtaken' = overtaken
    BY <1>1 DEF Gone, Stored, Clean, FetchedLatest, WaitsToSync, WaitsToReplace, RunsToSync,
                RunsToReplace, Working
  <2>3. Survives(d)'
    BY <1>6, <2>1, <2>2 DEF Survives
  <2>4. AtHand(d)'
    BY <1>6, <2>1, <2>2 DEF AtHand
  <2> QED
    BY <2>3, <2>4
<1> QED
  BY <1>3, <1>4, <1>5, <1>7, <1>8 DEF NothingLost

(* A statement commits: the offset that moves with the consumer's was the only thing *)
(* it held back, unless the worker is about to overwrite the node - and then nothing *)
(* of the key waits or runs, and what is at hand decides.                            *)
LEMMA CommitKeeps ==
    ASSUME TypeOK, OwnStatements, NothingLost, NEW i \in 1..Len(writes), Commit(i),
           NEW k \in Keys, k \notin overtaken'
    PROVE  \/ worker = "flushing" /\ jobs[k] = NoJob /\ writes[i].by = "consumer"
           \/ /\ Durable(k) => Durable(k)'
              /\ ReplaceDurable(k) => ReplaceDurable(k)'
<1> USE DEF external, kafka, queue, work, neo4j, bounds
<1>1. /\ writes' = RemoveAt(writes, i)
      /\ writes[i] \in Write /\ writes[i].key \in Keys
      /\ \A o \in Keys : store'[o] = IF o = writes[i].key THEN writes[i].value ELSE store[o]
      /\ UNCHANGED <<log, jobs, received>>
      /\ committed' = IF writes[i].by = "consumer" THEN received ELSE committed
  BY DEF Commit, TypeOK, Write
<1>7. k \notin overtaken /\ (writes[i].key = k => ~Overtakes(i))
  BY DEF Commit, Observed
<1>8. writes[i].by = "consumer" /\ writes[i].key = k =>
        \A h \in 1..(i - 1) : writes[h].key # k
  BY <1>7, ConsumerOvertakes DEF NothingLost
<1>2. \A n \in 1..Len(writes') : \E o \in 1..Len(writes) : o # i /\ writes'[n] = writes[o]
  BY <1>1, RemovedStatement
<1>3. NodeSure(k) => NodeSure(k)'
  <2> SUFFICES ASSUME NodeSure(k)
               PROVE  NodeSure(k)'
    OBVIOUS
  <2>1. store'[k] # NoJob
    <3>1. store'[k] = IF k = writes[i].key THEN writes[i].value ELSE store[k]
      BY <1>1
    <3> QED
      BY <3>1 DEF NodeSure
  <2>2. ASSUME NEW n \in 1..Len(writes'), writes'[n].key = k
        PROVE  writes'[n].value # NoJob
    <3>1. PICK o \in 1..Len(writes) : writes'[n] = writes[o]
      BY <1>2
    <3> QED
      BY <2>2, <3>1 DEF NodeSure
  <2> QED
    BY <2>1, <2>2 DEF NodeSure
<1>4. NodeReplaces(k) => NodeReplaces(k)'
  <2> SUFFICES ASSUME NodeReplaces(k)
               PROVE  NodeReplaces(k)'
    OBVIOUS
  <2>1. store'[k].replace
    <3>1. store'[k] = IF k = writes[i].key THEN writes[i].value ELSE store[k]
      BY <1>1
    <3> QED
      BY <3>1 DEF NodeReplaces
  <2>2. ASSUME NEW n \in 1..Len(writes'), writes'[n].key = k
        PROVE  writes'[n].value.replace
    <3>1. PICK o \in 1..Len(writes) : writes'[n] = writes[o]
      BY <1>2
    <3> QED
      BY <2>2, <3>1 DEF NodeReplaces
  <2> QED
    BY <1>3, <2>1, <2>2 DEF NodeReplaces
<1>5. CASE writes[i].by # "consumer"
  <2>1. /\ Uncommitted(k)' <=> Uncommitted(k)
        /\ UpdateAfter(committed, k)' <=> UpdateAfter(committed, k)
    BY <1>1, <1>5 DEF Uncommitted, UpdateAfter
  <2> QED
    BY <1>3, <1>4, <2>1 DEF Durable, ReplaceDurable
<1>6. CASE writes[i].by = "consumer"
  <2>1. /\ received = committed + 1 /\ log[received].key = writes[i].key
        /\ log[received].kind = "updated" => writes[i].value.replace
        /\ \A m \in 1..Len(writes) : writes[m].by = "consumer" => m = i
        /\ \A m \in (i + 1)..Len(writes) :
              writes[m].key = writes[i].key => writes[m].value \in {NoJob, writes[i].value}
        /\ writes[i].value # NoJob
    BY <1>6 DEF NothingLost, ConsumerStatement
  <2>2. committed' = received /\ committed \in Nat /\ received \in Nat
    BY <1>1, <1>6 DEF TypeOK
  <2>3. \A j \in (committed + 1)..Len(log) : j = received \/ j \in (received + 1)..Len(log)
    BY <2>1, <2>2
  <2>4. CASE k # writes[i].key
    <3>1. Uncommitted(k) => Uncommitted(k)'
      BY <1>1, <2>1, <2>2, <2>3, <2>4 DEF Uncommitted
    <3>2. UpdateAfter(committed, k) => UpdateAfter(committed, k)'
      BY <1>1, <2>1, <2>2, <2>3, <2>4 DEF UpdateAfter
    <3> QED
      BY <1>3, <1>4, <3>1, <3>2 DEF Durable, ReplaceDurable
  <2>5. CASE k = writes[i].key
    <3>1. CASE \E m \in 1..Len(writes) : writes[m].key = k /\ writes[m].value = NoJob
      <4>1. PICK m \in 1..Len(writes) : writes[m].key = k /\ writes[m].value = NoJob
        BY <3>1
      <4>2. writes[m].by = "worker" /\ worker = "flushing"
        BY <4>1 DEF NothingLost, ConsumerStatement, OwnStatements
      <4>3. ASSUME jobs[k] # NoJob
            PROVE  FALSE
        <5>1. PICK p \in (m + 1)..Len(writes) : writes[p].by = "consumer"
          BY <1>7, <4>1, <4>3 DEF NothingLost, ConsumerStatement
        <5>2. p \in 1..Len(writes) /\ m < p /\ Len(writes) \in Nat
          BY DEF TypeOK
        <5>3. p = i
          BY <2>1, <5>1, <5>2
        <5>4. m \in 1..(i - 1)
          BY <5>2, <5>3
        <5> QED
          BY <1>6, <1>8, <2>5, <4>1, <5>4
      <4> QED
        BY <1>6, <4>2, <4>3
    <3>2. CASE ~\E m \in 1..Len(writes) : writes[m].key = k /\ writes[m].value = NoJob
      <4>1. \A m \in 1..Len(writes) :
                writes[m].key = k => writes[m].value = writes[i].value
        <5>1. ASSUME NEW m \in 1..Len(writes), writes[m].key = k
              PROVE  writes[m].value = writes[i].value
          <6>1. m \in 1..(i - 1) \/ m = i \/ m \in (i + 1)..Len(writes)
            BY DEF TypeOK
          <6> QED
            BY <1>6, <1>8, <2>1, <2>5, <3>2, <5>1, <6>1
        <5> QED
          BY <5>1
      <4>2. NodeSure(k)'
        BY <1>1, <1>2, <2>1, <2>5, <3>2 DEF NodeSure
      <4>3. writes[i].value.replace => NodeReplaces(k)'
        <5>1. store'[k] = writes[i].value
          BY <1>1, <2>5
        <5>2. \A n \in 1..Len(writes') : writes'[n].key = k => writes'[n].value = writes[i].value
          BY <1>2, <4>1
        <5> QED
          BY <4>2, <5>1, <5>2 DEF NodeReplaces
      <4>4. UpdateAfter(committed, k) => UpdateAfter(committed, k)' \/ NodeReplaces(k)'
        BY <1>1, <2>1, <2>2, <2>3, <4>3 DEF UpdateAfter
      <4> QED
        BY <1>4, <4>2, <4>4 DEF Durable, ReplaceDurable
    <3> QED
      BY <3>1, <3>2
  <2> QED
    BY <2>4, <2>5
<1> QED
  BY <1>5, <1>6

LEMMA CommitLosesNothing ==
    ASSUME TypeOK, OwnStatements, ReachWork, Quiet, NothingLost,
           NEW i \in 1..Len(writes), Commit(i)
    PROVE  NothingLost'
<1> USE DEF external, kafka, queue, work, neo4j, bounds
<1>1. /\ writes' = RemoveAt(writes, i)
      /\ overtaken' = IF Overtakes(i) THEN overtaken \cup {writes[i].key} ELSE overtaken
      /\ writes[i] \in Write /\ writes[i].key \in Keys
      /\ \A o \in Keys : store'[o] = IF o = writes[i].key THEN writes[i].value ELSE store[o]
      /\ committed' = IF writes[i].by = "consumer" THEN received ELSE committed
      /\ UNCHANGED <<dvd, log, received, jobs, retries, current, todo, ingesting, edition, lost,
                     graph>>
  BY DEF Commit, Observed, TypeOK, Write
<1>2. /\ worker' = worker \/ (worker = "flushing" /\ worker' = "ready")
      /\ worker # "off"
  BY DEF Commit, OwnStatements, Quiet
<1>3. SyncsOnly'
  <2>1. \A n \in 1..Len(writes') : \E o \in 1..Len(writes) : writes'[n] = writes[o]
    BY <1>1, RemovedStatement
  <2> QED
    <3>1. SyncsOnly
      BY DEF NothingLost
    <3>2. \A k \in Keys : store'[k] # NoJob => PlainSync(store'[k])
      <4>1. writes[i].value # NoJob => PlainSync(writes[i].value)
        BY <3>1 DEF SyncsOnly
      <4> QED
        BY <1>1, <3>1, <4>1 DEF SyncsOnly
    <3>3. ASSUME NEW n \in 1..Len(writes'), writes'[n].value # NoJob
          PROVE  PlainSync(writes'[n].value)
      <4>1. PICK o \in 1..Len(writes) : writes'[n] = writes[o]
        BY <2>1
      <4> QED
        BY <3>1, <3>3, <4>1 DEF SyncsOnly
    <3>4. /\ retries' = retries /\ jobs' = jobs /\ current' = current /\ ingesting' = ingesting
          /\ received' = received
      BY <1>1
    <3>5. worker' # "off" /\ worker' # "deleting" /\ (worker' = "absent" => worker = "absent")
      BY <1>2, <3>1 DEF SyncsOnly
    <3> QED
      BY <3>1, <3>2, <3>3, <3>4, <3>5 DEF SyncsOnly
<1>4. ConsumerStatement'
  BY <1>1, StatementEnds DEF NothingLost
<1>5. FirstEvents'
  BY <1>1 DEF NothingLost, FirstEvents
<1>8. OvertakenKeys'
  <2>1. \A k \in overtaken : /\ jobs'[k] # NoJob => ~AtWork(k)'
                             /\ \E j \in 1..received' : log'[j].key = k
    BY <1>1, <1>2 DEF NothingLost, OvertakenKeys, AtWork
  <2>2. ASSUME Overtakes(i)
        PROVE  /\ worker = "flushing"
               /\ \E j \in 1..received : log[j].key = writes[i].key
    <3>1. PICK h \in 1..(i - 1) : writes[h].key = writes[i].key
      BY <2>2 DEF Overtakes
    <3>2. h \in 1..Len(writes) /\ h # i /\ writes \in Seq(Write) /\ Len(writes) \in Nat
      BY DEF TypeOK
    <3>3. writes[h].by \in {"consumer", "worker"} /\ writes[i].by \in {"consumer", "worker"}
      BY <3>2 DEF NothingLost, ConsumerStatement, Write
    <3>4. /\ writes[h].by = "consumer" => writes[i].by = "worker"
          /\ writes[i].by = "consumer" => writes[h].by = "worker"
      BY <3>2, <3>3 DEF NothingLost, ConsumerStatement
    <3>5. worker = "flushing"
      BY <3>2, <3>3, <3>4 DEF OwnStatements
    <3>6. received = committed + 1 /\ log[received].key = writes[i].key
      <4>1. PICK c \in {h, i} : writes[c].by = "consumer"
        BY <3>2, <3>3, <3>4 DEF OwnStatements
      <4>2. c \in 1..Len(writes) /\ writes[c].key = writes[i].key
        BY <3>1, <3>2
      <4> QED
        BY <4>1, <4>2 DEF NothingLost, ConsumerStatement
    <3>7. received \in 1..received
      BY <3>6 DEF TypeOK
    <3> QED
      BY <3>5, <3>6, <3>7
  <2>3. ASSUME Overtakes(i), NEW k \in Keys, k = writes[i].key
        PROVE  /\ ~AtWork(k)'
               /\ \E j \in 1..received' : log'[j].key = k
    BY <1>1, <1>2, <2>2, <2>3 DEF AtWork
  <2>4. ASSUME NEW k \in overtaken'
        PROVE  /\ jobs'[k] # NoJob => ~AtWork(k)'
               /\ \E j \in 1..received' : log'[j].key = k
    <3>1. k \in overtaken \/ (Overtakes(i) /\ k = writes[i].key)
      BY <1>1, <2>4
    <3> QED
      BY <1>1, <2>1, <2>3, <3>1
  <2> QED
    BY <2>4 DEF OvertakenKeys
<1>6. JobsDurable'
  <2>1. ASSUME NEW k \in Keys, jobs'[k] # NoJob \/ AtWork(k)',
               k \notin overtaken', k \notin lost'
        PROVE  Durable(k)'
    <3>1. jobs[k] # NoJob \/ AtWork(k)
      BY <1>1, <1>2, <2>1 DEF AtWork
    <3>2. ~(worker = "flushing" /\ jobs[k] = NoJob)
      BY <3>1 DEF AtWork
    <3>3. k \notin overtaken /\ k \notin lost
      BY <1>1, <2>1
    <3> QED
      BY <2>1, <3>1, <3>2, <3>3, CommitKeeps DEF NothingLost, JobsDurable
  <2> QED
    BY <2>1 DEF JobsDurable
<1>7. ASSUME NEW d \in Docs, Claimed(d)'
      PROVE  Survives(d)' /\ AtHand(d)'
  <2>1. Survives(d) /\ AtHand(d) /\ KeyOf[d] \in Keys
    BY <1>1, <1>7, ClaimedBefore DEF NothingLost, Keys
  <2>2. /\ Gone(d)' <=> Gone(d)
        /\ Stored(d)' <=> Stored(d)
        /\ Clean(d)' <=> Clean(d)
        /\ WaitsToSync(d)' <=> WaitsToSync(d)
        /\ WaitsToReplace(d)' <=> WaitsToReplace(d)
        /\ RunsToSync(d) => RunsToSync(d)'
        /\ RunsToReplace(d) => RunsToReplace(d)'
        /\ Working' <=> Working
        /\ dvd'[d] = dvd[d] /\ log' = log /\ ingesting' = ingesting
    BY <1>1, <1>2 DEF Gone, Stored, Clean, FetchedLatest, WaitsToSync, WaitsToReplace, RunsToSync,
                      RunsToReplace, Working
  <2>3. /\ Undelivered(KeyOf[d])' <=> Undelivered(KeyOf[d])
        /\ UpdateAfter(received, KeyOf[d])' <=> UpdateAfter(received, KeyOf[d])
    BY <1>1 DEF Undelivered, UpdateAfter
  <2>6. ASSUME KeyOf[d] \notin overtaken', dvd[d] # 0
        PROVE  /\ (Stored(d) /\ ingesting # d) \/ Durable(KeyOf[d])'
               /\ Clean(d) \/ ReplaceDurable(KeyOf[d])'
    <3>0. KeyOf[d] \notin overtaken
      BY <1>1, <2>6
    <3>1. CASE worker = "flushing" /\ jobs[KeyOf[d]] = NoJob /\ writes[i].by = "consumer"
      <4>1. Working /\ ~RunsToSync(d) /\ ~RunsToReplace(d)
        BY <3>1 DEF Working, RunsToSync, RunsToReplace
      <4>2. ~WaitsToSync(d) /\ ~WaitsToReplace(d)
        BY <3>1 DEF WaitsToSync, WaitsToReplace
      <4>3. ingesting # d
        BY <3>1, ConstantsAssumption DEF ReachWork, ConstantsAssumption
      <4>4. committed' = received
        BY <1>1, <3>1
      <4>5. /\ Undelivered(KeyOf[d]) => Durable(KeyOf[d])'
            /\ UpdateAfter(received, KeyOf[d]) => ReplaceDurable(KeyOf[d])'
        <5>1. /\ Undelivered(KeyOf[d]) => Uncommitted(KeyOf[d])'
              /\ UpdateAfter(received, KeyOf[d]) => UpdateAfter(committed, KeyOf[d])'
          BY <1>1, <4>4 DEF Undelivered, Uncommitted, UpdateAfter
        <5> QED
          BY <5>1 DEF Durable, ReplaceDurable
      <4> QED
        BY <2>1, <2>6, <4>1, <4>2, <4>3, <4>5 DEF AtHand
    <3>2. CASE /\ Durable(KeyOf[d]) => Durable(KeyOf[d])'
               /\ ReplaceDurable(KeyOf[d]) => ReplaceDurable(KeyOf[d])'
      BY <2>1, <2>6, <3>0, <3>2 DEF Survives
    <3> QED
      BY <2>1, <2>6, <3>1, <3>2, CommitKeeps
  <2>4. Survives(d)'
    BY <2>1, <2>2, <2>6 DEF Survives
  <2>5. AtHand(d)'
    BY <2>1, <2>2, <2>3 DEF AtHand
  <2> QED
    BY <2>4, <2>5
<1> QED
  BY <1>3, <1>4, <1>5, <1>6, <1>7, <1>8 DEF NothingLost

(* The next event is received and put. *)
LEMMA PutPlain ==
    ASSUME NEW job \in Job, NEW later \in Job, PlainSync(job), PlainSync(later)
    PROVE  /\ PlainSync(Merge(job, later))
           /\ Merge(job, later).replace <=> job.replace \/ later.replace
BY DEF PlainSync, HasDeletes, Merge, Job

LEMMA ReceiveLosesNothing ==
    ASSUME TypeOK, NothingLost, Receive
    PROVE  NothingLost'
<1> DEFINE i == received + 1
           k == log[i].key
           merged == IF jobs[k] = NoJob THEN JobOf(i) ELSE Merge(jobs[k], JobOf(i))
           sent == [key |-> k, value |-> merged, by |-> "consumer"]
<1> USE DEF external, kafka, queue, work, neo4j, bounds
<1>1. /\ received = committed /\ received' = i /\ worker # "off" /\ Put(JobOf(i), "consumer")
      /\ i \in 1..Len(log) /\ i > received /\ received \in Nat /\ i \in Nat
      /\ UNCHANGED <<dvd, log, committed, retries, worker, current, todo, ingesting, edition,
                     store, lost, graph>>
  BY DEF Receive, Put, Up, TypeOK
<1>2. JobOf(i) \in Job /\ JobOf(i).key = k /\ k \in Keys
  BY <1>1, JobOfType DEF TypeOK, Job
<1>3. PlainSync(JobOf(i)) /\ (JobOf(i).replace <=> log[i].kind = "updated")
  <2>1. /\ log[i].kind \in {"processed", "updated"}
        /\ log[i].versions_removed = {} /\ log[i].document_removed = FALSE
    BY <1>1 DEF NothingLost, FirstEvents
  <2> QED
    BY <2>1 DEF JobOf, PlainSync, HasDeletes
<1>4. /\ merged \in Job /\ merged # NoJob /\ merged.key = k /\ PlainSync(merged)
      /\ merged.replace <=> (jobs[k] # NoJob /\ jobs[k].replace) \/ log[i].kind = "updated"
  <2>1. CASE jobs[k] = NoJob
    BY <1>2, <1>3, <2>1, JobNotNone
  <2>2. CASE jobs[k] # NoJob
    <3>1. jobs[k] \in Job /\ PlainSync(jobs[k]) /\ jobs[k].key = k
      BY <1>2, <2>2 DEF TypeOK, NothingLost, SyncsOnly
    <3>2. merged = Merge(jobs[k], JobOf(i))
      BY <2>2
    <3> HIDE DEF merged, k, i
    <3> QED
      BY <1>2, <1>3, <2>2, <3>1, <3>2, MergeType, PutPlain, JobNotNone
  <2> QED
    BY <2>1, <2>2
<1>5. sent \in Write /\ sent.key = k /\ sent.value = merged /\ sent.by = "consumer"
  BY <1>2, <1>4 DEF Write
<1>6. /\ writes' = Append(writes, sent) /\ overtaken' = overtaken \ {k}
      /\ \A o \in Keys : jobs'[o] = IF o = k THEN merged ELSE jobs[o]
  BY <1>1, <1>2 DEF Put, TypeOK
<1> HIDE DEF merged
<1>7. PICK w \in Write : w = sent
  BY <1>5
<1> HIDE DEF sent
<1>8. /\ Len(writes') = Len(writes) + 1 /\ Len(writes) \in Nat
      /\ \A n \in 1..Len(writes) : writes'[n] = writes[n]
      /\ writes'[Len(writes) + 1] = w
  BY <1>6, <1>7, AppendProperties DEF TypeOK
<1>9. \A n \in 1..Len(writes') : n \in 1..Len(writes) \/ (n = Len(writes) + 1 /\ writes'[n] = w)
  BY <1>8
<1>10. w.key = k /\ w.value = merged /\ w.by = "consumer"
  BY <1>5, <1>7
<1> HIDE DEF k
<1>11. SyncsOnly'
  <2>1. \A n \in 1..Len(writes') : writes'[n].value # NoJob => PlainSync(writes'[n].value)
    BY <1>4, <1>8, <1>9, <1>10 DEF NothingLost, SyncsOnly
  <2>2. \A o \in Keys : jobs'[o] # NoJob => PlainSync(jobs'[o])
    BY <1>4, <1>6 DEF NothingLost, SyncsOnly
  <2> QED
    BY <1>1, <2>1, <2>2 DEF NothingLost, SyncsOnly
<1>12. ConsumerStatement'
  <2>1. \A n \in 1..Len(writes) : writes[n].by = "worker" /\ writes[n].key \in Keys
    BY <1>1 DEF NothingLost, ConsumerStatement, TypeOK, Write
  <2>2. ASSUME NEW n \in 1..Len(writes')
        PROVE  /\ writes'[n].by # "retry"
               /\ writes'[n].value = NoJob => writes'[n].by = "worker"
               /\ writes'[n].by = "consumer" =>
                     /\ received' = committed' + 1
                     /\ log'[received'].key = writes'[n].key
                     /\ log'[received'].kind = "updated" => writes'[n].value.replace
                     /\ \A m \in 1..Len(writes') : writes'[m].by = "consumer" => m = n
                     /\ jobs'[writes'[n].key] \in {NoJob, writes'[n].value}
                     /\ \A m \in (n + 1)..Len(writes') :
                           writes'[m].key = writes'[n].key => writes'[m].value \in {NoJob, writes'[n].value}
               /\ writes'[n].value = NoJob /\ jobs'[writes'[n].key] # NoJob
                     /\ writes'[n].key \notin overtaken' =>
                     \E m \in (n + 1)..Len(writes') :
                           writes'[m].by = "consumer" /\ writes'[m].key = writes'[n].key
    <3>1. CASE n \in 1..Len(writes)
      <4>1. writes'[n] = writes[n] /\ writes[n].by = "worker" /\ writes[n].key \in Keys
        BY <1>8, <2>1, <3>1
      <4>2. ASSUME writes[n].value = NoJob, jobs'[writes[n].key] # NoJob,
                   writes[n].key \notin overtaken'
            PROVE  \E m \in (n + 1)..Len(writes') :
                        writes'[m].by = "consumer" /\ writes'[m].key = writes[n].key
        <5>1. CASE writes[n].key = k
          <6>1. Len(writes) + 1 \in (n + 1)..Len(writes')
            BY <1>8, <3>1
          <6> QED
            BY <1>8, <1>10, <5>1, <6>1
        <5>2. CASE writes[n].key # k
          <6>1. jobs[writes[n].key] # NoJob /\ writes[n].key \notin overtaken
            BY <1>6, <4>1, <4>2, <5>2
          <6>2. PICK m \in (n + 1)..Len(writes) : writes[m].by = "consumer"
            BY <3>1, <4>2, <6>1 DEF NothingLost, ConsumerStatement
          <6>3. m \in 1..Len(writes)
            BY <3>1
          <6> QED
            BY <2>1, <6>2, <6>3
        <5> QED
          BY <5>1, <5>2
      <4> QED
        BY <4>1, <4>2
    <3>2. CASE n = Len(writes) + 1 /\ writes'[n] = w
      <4>1. \A m \in 1..Len(writes') : writes'[m].by = "consumer" => m = n
        BY <1>8, <1>9, <2>1, <3>2
      <4>2. log'[received'].key = k /\ received' = committed' + 1 /\ log' = log
        BY <1>1 DEF k
      <4>3. log'[received'].kind = "updated" => merged.replace
        BY <1>1, <1>4
      <4>4. \A m \in (n + 1)..Len(writes') : FALSE
        BY <1>8, <3>2
      <4>5. jobs'[k] = merged /\ merged # NoJob
        BY <1>2, <1>4, <1>6
      <4> QED
        BY <1>10, <3>2, <4>1, <4>2, <4>3, <4>4, <4>5
    <3> QED
      BY <1>9, <3>1, <3>2
  <2> QED
    BY <2>2 DEF ConsumerStatement
<1>13. FirstEvents' /\ OvertakenKeys'
  <2>1. received \in Nat /\ received' = received + 1
    BY <1>1
  <2>2. \A j \in 1..received : j \in 1..received'
    BY <2>1
  <2>3. overtaken \subseteq Keys
    BY DEF TypeOK
  <2> QED
    BY <1>1, <1>6, <2>2, <2>3 DEF NothingLost, FirstEvents, OvertakenKeys, AtWork
<1>18. k \in overtaken => log[i].kind = "updated"
  <2> SUFFICES ASSUME k \in overtaken
               PROVE  log[i].kind = "updated"
    OBVIOUS
  <2>1. PICK j \in 1..received : log[j].key = k
    BY DEF NothingLost, OvertakenKeys
  <2>2. j \in 1..(i - 1) /\ log[i].key = k
    BY <1>1 DEF k
  <2> QED
    BY <1>1, <2>1, <2>2 DEF NothingLost, FirstEvents
<1>14. ASSUME NEW o \in Keys
       PROVE  /\ NodeSure(o)' <=> NodeSure(o)
              /\ NodeReplaces(o)' <=> NodeReplaces(o) /\ (o = k => merged.replace)
              /\ Uncommitted(o)' <=> Uncommitted(o)
              /\ UpdateAfter(committed, o)' <=> UpdateAfter(committed, o)
  <2>1. /\ NodeSure(o)' <=> NodeSure(o) /\ (w.key = o => w.value # NoJob)
        /\ NodeReplaces(o)' <=>
              NodeReplaces(o) /\ (w.key = o => w.value # NoJob /\ w.value.replace)
    BY <1>1, <1>6, <1>7, AppendedNode
  <2>2. /\ Uncommitted(o)' <=> Uncommitted(o)
        /\ UpdateAfter(committed, o)' <=> UpdateAfter(committed, o)
    BY <1>1 DEF Uncommitted, UpdateAfter
  <2> QED
    BY <1>4, <1>10, <2>1, <2>2
<1>15. Uncommitted(k) /\ (log[i].kind = "updated" => UpdateAfter(committed, k))
  <2>1. i \in (committed + 1)..Len(log) /\ log[i].key = k
    BY <1>1 DEF k
  <2> QED
    BY <2>1 DEF Uncommitted, UpdateAfter
<1>16. JobsDurable'
  <2>1. ASSUME NEW o \in Keys, jobs'[o] # NoJob \/ AtWork(o)', o \notin overtaken', o \notin lost'
        PROVE  Durable(o)'
    <3>1. o # k => (jobs[o] # NoJob \/ AtWork(o)) /\ o \notin overtaken /\ o \notin lost
      BY <1>1, <1>6, <2>1 DEF AtWork
    <3>2. Durable(o)
      BY <1>15, <3>1 DEF NothingLost, JobsDurable, Durable
    <3> QED
      BY <1>14, <3>2 DEF Durable
  <2> QED
    BY <2>1 DEF JobsDurable
<1>17. ASSUME NEW d \in Docs, Claimed(d)'
       PROVE  Survives(d)' /\ AtHand(d)'
  <2>1. Survives(d) /\ AtHand(d) /\ KeyOf[d] \in Keys
    BY <1>1, <1>17, ClaimedBefore DEF NothingLost, Keys
  <2>2. /\ Gone(d)' <=> Gone(d)
        /\ Stored(d)' <=> Stored(d)
        /\ Clean(d)' <=> Clean(d)
        /\ RunsToSync(d)' <=> RunsToSync(d)
        /\ RunsToReplace(d)' <=> RunsToReplace(d)
        /\ Working' <=> Working
        /\ dvd'[d] = dvd[d] /\ log' = log /\ ingesting' = ingesting
    BY <1>1 DEF Gone, Stored, Clean, FetchedLatest, RunsToSync, RunsToReplace, Working
  <2>3. Durable(KeyOf[d]) => Durable(KeyOf[d])'
    BY <1>14, <2>1 DEF Durable
  <2>4. ASSUME dvd[d] # 0, log[dvd[d]].kind = "updated", ReplaceDurable(KeyOf[d])
        PROVE  ReplaceDurable(KeyOf[d])'
    <3>1. CASE UpdateAfter(committed, KeyOf[d])
      BY <1>14, <2>1, <3>1 DEF ReplaceDurable
    <3>2. CASE ~UpdateAfter(committed, KeyOf[d])
      <4>1. NodeReplaces(KeyOf[d])
        BY <2>4, <3>2 DEF ReplaceDurable
      <4>2. dvd[d] \in 1..Len(log) /\ log[dvd[d]].key = KeyOf[d]
        BY <2>4 DEF NothingLost, FirstEvents
      <4>3. dvd[d] \notin (committed + 1)..Len(log)
        BY <2>4, <3>2, <4>2 DEF UpdateAfter
      <4>4. dvd[d] \in 1..(i - 1)
        BY <1>1, <4>2, <4>3 DEF TypeOK
      <4>5. KeyOf[d] # k
        <5>1. ASSUME KeyOf[d] = k
              PROVE  FALSE
          <6>1. log[i].kind = "processed"
            BY <1>1, <1>15, <3>2, <5>1 DEF NothingLost, FirstEvents
          <6>2. log[dvd[d]].key # log[i].key
            BY <1>1, <4>4, <6>1 DEF NothingLost, FirstEvents
          <6> QED
            BY <4>2, <5>1, <6>2 DEF k
        <5> QED
          BY <5>1
      <4> QED
        BY <1>14, <2>1, <4>1, <4>5 DEF ReplaceDurable
    <3> QED
      BY <3>1, <3>2
  <2>7. ASSUME dvd[d] # 0, KeyOf[d] \notin overtaken'
        PROVE  /\ (Stored(d) /\ ingesting # d) \/ Durable(KeyOf[d])'
               /\ Clean(d) \/ ReplaceDurable(KeyOf[d])'
    <3>1. CASE KeyOf[d] \notin overtaken
      BY <2>1, <2>3, <2>4, <2>7, <3>1 DEF Survives
    <3>2. CASE KeyOf[d] \in overtaken
      <4>1. KeyOf[d] = k /\ log[i].kind = "updated"
        BY <1>6, <1>18, <2>7, <3>2
      <4> QED
        BY <1>14, <1>15, <2>1, <4>1 DEF Durable, ReplaceDurable
    <3> QED
      BY <3>1, <3>2
  <2>5. Survives(d)'
    BY <2>1, <2>2, <2>7 DEF Survives
  <2>6. AtHand(d)'
    <3>1. \A j \in (received + 1)..Len(log) : j = i \/ j \in (received' + 1)..Len(log')
      BY <1>1
    <3>2. CASE KeyOf[d] = k
      <4>1. WaitsToSync(d)'
        BY <1>2, <1>4, <1>6, <3>2 DEF WaitsToSync, PlainSync
      <4>2. WaitsToReplace(d) \/ log[i].kind = "updated" => WaitsToReplace(d)'
        BY <1>2, <1>4, <1>6, <3>2, <4>1 DEF WaitsToReplace, WaitsToSync
      <4>3. UpdateAfter(received, KeyOf[d]) =>
              log[i].kind = "updated" \/ UpdateAfter(received, KeyOf[d])'
        BY <1>1, <3>1 DEF UpdateAfter
      <4> QED
        BY <2>1, <2>2, <3>2, <4>1, <4>2, <4>3 DEF AtHand
    <3>3. CASE KeyOf[d] # k
      <4>1. /\ WaitsToSync(d)' <=> WaitsToSync(d)
            /\ WaitsToReplace(d)' <=> WaitsToReplace(d)
        BY <1>6, <2>1, <3>3 DEF WaitsToSync, WaitsToReplace
      <4>2. /\ Undelivered(KeyOf[d]) => Undelivered(KeyOf[d])'
            /\ UpdateAfter(received, KeyOf[d]) => UpdateAfter(received, KeyOf[d])'
        BY <1>1, <3>1, <3>3 DEF Undelivered, UpdateAfter, k
      <4> QED
        BY <2>1, <2>2, <4>1, <4>2 DEF AtHand
    <3> QED
      BY <3>2, <3>3
  <2> QED
    BY <2>5, <2>6
<1> QED
  BY <1>11, <1>12, <1>13, <1>16, <1>17 DEF NothingLost

LEMMA NothingLostInductive ==
    ASSUME TypeOK, OwnStatements, ReachWork, Quiet, OnlySyncs => NothingLost,
           [Next]_vars, OnlySyncs'
    PROVE  NothingLost'
<1>1. /\ OnlySyncs /\ ~DeleteFails /\ ~SyncFails
      /\ \A k \in Keys : \A gone \in SUBSET DocsOf(k) : ~Unregister(k, gone)
      /\ \A i \in 1..Len(writes) : WriteFails(i) => writes[i].by # "consumer"
  BY OnlySyncsStep
<1>2. NothingLost
  BY <1>1
<1>3. CASE IduDvd
  BY <1>1, <1>2, <1>3, IndexLosesNothing DEF IduDvd
<1>4. CASE Receive
  BY <1>2, <1>4, ReceiveLosesNothing
<1>5. CASE Requeue
  BY <1>2, <1>5 DEF Requeue, NothingLost, SyncsOnly
<1>6. CASE Statement
  BY <1>2, <1>6, CommitLosesNothing DEF Statement
<1>7. CASE Worker
  <2>1. ~DeleteName
    BY <1>2 DEF DeleteName, NothingLost, SyncsOnly
  <2>2. CASE Sleep \/ Wake \/ Resolve
    BY <1>2, <2>2, RestLosesNothing
  <2>3. CASE \E k \in Keys : Take(k)
    BY <1>2, <2>3, TakeLosesNothing
  <2>4. CASE \E d \in Docs : Fetch(d)
    BY <1>2, <2>4, FetchLosesNothing
  <2>5. CASE Synchronised
    BY <1>2, <2>5, SynchronisedLosesNothing
  <2>6. CASE Finish
    BY <1>2, <2>6, FinishLosesNothing
  <2> QED
    BY <1>7, <2>1, <2>2, <2>3, <2>4, <2>5, <2>6 DEF Worker
<1>8. CASE \E i \in 1..Len(writes) : WriteFails(i)
  BY <1>1, <1>2, <1>8, WriteFailureLosesNothing
<1>9. CASE Crash
  BY <1>2, <1>9, CrashLosesNothing
<1>10. CASE Start
  BY <1>2, <1>10, StartLosesNothing
<1>11. CASE StartFails \/ UNCHANGED vars
  BY <1>2, <1>11, RestLosesNothing
<1> QED
  BY <1>1, <1>3, <1>4, <1>5, <1>6, <1>7, <1>8, <1>9, <1>10, <1>11 DEF Next

(***************************************************************************)
(* RestartLosesNoSync: with no deletion among the events and no failed     *)
(* run, a stop at any moment leaves every document in sync or owed work -  *)
(* for every number of documents, events and stops, in whatever order the  *)
(* statements on a :SyncJob node commit, and even when the consumer's is   *)
(* the only statement that never met an unreachable Neo4j.  Left out, one  *)
(* by one, are the documents whose latest statement had overtaken an older *)
(* one at a stop, and users' documents that have the name of a shared one. *)
(***************************************************************************)
THEOREM SyncsSurviveRestarts == Spec => []RestartLosesNoSync
<1> DEFINE IInv == /\ TypeOK /\ OwnStatements /\ ReachWork /\ Quiet
                   /\ OnlySyncs => NothingLost
<1>1. Init => IInv
  <2>1. Init => OwnStatements /\ ReachWork /\ Quiet
    BY DEF Init, OwnStatements, ReachWork, Quiet
  <2> QED
    BY <2>1, InitType, NothingLostInit
<1>2. IInv /\ [Next]_vars => IInv'
  BY NextType, OwnStatementsInductive, ReachWorkInductive, QuietInductive, NothingLostInductive
<1>3. IInv => RestartLosesNoSync
  BY NothingLostSettles DEF RestartLosesNoSync, OnlySyncs
<1> HIDE DEF IInv
<1> QED
  BY <1>1, <1>2, <1>3, PTL DEF Spec
=============================================================================
