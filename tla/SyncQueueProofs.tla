--------------------------- MODULE SyncQueueProofs ---------------------------
(***************************************************************************)
(* Theorems about SyncQueue, for every value of its constants.             *)
(***************************************************************************)
EXTENDS SyncQueue, SequenceTheorems, TLAPS

-----------------------------------------------------------------------------
(* Typing of the helpers. *)

LEMMA MergeType ==
    ASSUME NEW job \in Job, NEW later \in Job
    PROVE  Merge(job, later) \in Job /\ Merge(job, later).key = job.key
BY ZenonT(60) DEF Merge, Job, Max2

LEMMA JobOfType ==
    ASSUME log \in Seq(Event), NEW i \in 1..Len(log)
    PROVE  JobOf(i) \in Job /\ JobOf(i).key = log[i].key
<1>1. log[i] \in Event
  OBVIOUS
<1> QED
  BY <1>1 DEF JobOf, Job, Event

LEMMA RemoveAtType ==
    ASSUME NEW S, NEW s \in Seq(S), NEW i \in 1..Len(s)
    PROVE  /\ RemoveAt(s, i) \in Seq(S)
           /\ Len(RemoveAt(s, i)) = Len(s) - 1
           /\ \A j \in 1..(Len(s) - 1) :
                RemoveAt(s, i)[j] = IF j < i THEN s[j] ELSE s[j + 1]
<1> DEFINE before == SubSeq(s, 1, i - 1)
           after  == SubSeq(s, i + 1, Len(s))
<1>1. Len(s) \in Nat /\ i \in 1..Len(s) /\ \A j \in 1..Len(s) : s[j] \in S
  OBVIOUS
<1>2. /\ before \in Seq(S) /\ Len(before) = i - 1
      /\ \A j \in 1..(i - 1) : before[j] = s[j]
  <2>1. \A j \in 1..(i - 1) : s[j] \in S
    BY <1>1
  <2> QED
    BY <1>1, <2>1, SubSeqProperties, SMT
<1>3. /\ after \in Seq(S) /\ Len(after) = Len(s) - i
      /\ \A j \in 1..(Len(s) - i) : after[j] = s[i + j]
  <2>1. \A j \in (i + 1)..Len(s) : s[j] \in S
    BY <1>1
  <2>2. /\ after \in Seq(S)
        /\ Len(after) = IF i + 1 <= Len(s) THEN Len(s) - (i + 1) + 1 ELSE 0
        /\ \A j \in 1..(Len(s) - (i + 1) + 1) : after[j] = s[(i + 1) + j - 1]
    BY <1>1, <2>1, SubSeqProperties
  <2> QED
    BY <1>1, <2>2
<1> HIDE DEF before, after
<1>4. /\ before \o after \in Seq(S)
      /\ Len(before \o after) = Len(before) + Len(after)
      /\ \A j \in 1..(Len(before) + Len(after)) :
            (before \o after)[j] = IF j <= Len(before) THEN before[j]
                                   ELSE after[j - Len(before)]
  BY <1>2, <1>3, ConcatProperties
<1>5. ASSUME NEW j \in 1..(Len(s) - 1)
      PROVE  (before \o after)[j] = IF j < i THEN s[j] ELSE s[j + 1]
  <2>1. CASE j < i
    BY <1>1, <1>2, <1>3, <1>4, <2>1
  <2>2. CASE j >= i
    <3>1. j - (i - 1) \in 1..(Len(s) - i) /\ j \in Nat /\ i \in Nat
      BY <1>1, <2>2
    <3>2. (before \o after)[j] = after[j - (i - 1)]
      BY <1>1, <1>2, <1>3, <1>4, <2>2
    <3>3. after[j - (i - 1)] = s[i + (j - (i - 1))]
      BY <1>3, <3>1
    <3>4. i + (j - (i - 1)) = j + 1
      BY <3>1
    <3> QED
      BY <1>1, <2>2, <3>2, <3>3, <3>4
  <2>3. j < i \/ j >= i
    BY <1>1
  <2> QED
    BY <2>1, <2>2, <2>3, Zenon
<1>6. RemoveAt(s, i) = before \o after
  BY DEF RemoveAt, before, after
<1>7. Len(before \o after) = Len(s) - 1
  BY <1>1, <1>2, <1>3, <1>4
<1> QED
  BY <1>4, <1>5, <1>6, <1>7

LEMMA JobNotNone == \A job \in Job : job # NoJob
BY ConstantsAssumption DEF ConstantsAssumption

LEMMA InitType == Init => TypeOK
<1> SUFFICES ASSUME Init
             PROVE  TypeOK
  OBVIOUS
<1>1. Absent \in DocState
  BY DEF Absent, DocState
<1>2. log \in Seq(Event) /\ writes \in Seq(Write) /\ Len(log) = 0
  BY DEF Init
<1>3. /\ committed \in Nat /\ received \in Nat
      /\ committed <= received /\ received <= committed + 1 /\ received <= Len(log)
  BY <1>2 DEF Init
<1>4. graph \in [Docs -> DocState] /\ dvd \in [Docs -> Nat]
  BY <1>1 DEF Init
<1> QED
  BY <1>2, <1>3, <1>4, Zenon DEF Init, TypeOK

LEMMA SyncedType ==
    ASSUME NEW old \in DocState, NEW e \in Nat, NEW replace \in BOOLEAN
    PROVE  Synced(old, e, replace) \in DocState /\ HalfSynced(old, e) \in DocState
BY DEF Synced, HalfSynced, DocState

LEMMA CutShortType ==
    ASSUME TypeOK
    PROVE  CutShort \subseteq [Docs -> DocState]
<1>1. \A d \in Docs : HalfSynced(graph[d], edition) \in DocState
  BY DEF TypeOK, HalfSynced, DocState
<1>2. Absent \in DocState
  BY DEF Absent, DocState
<1>3. graph \in [Docs -> DocState] /\ ingesting \in Docs \cup {NoDoc}
  BY DEF TypeOK
<1> QED
  BY <1>1, <1>2, <1>3 DEF CutShort

(* What put does to the types, whoever calls it. *)
LEMMA PutType ==
    ASSUME TypeOK, NEW job \in Job, NEW by \in {"consumer", "retry", "worker"},
           Put(job, by)
    PROVE  /\ jobs' \in [Keys -> Job \cup {NoJob}]
           /\ \A k \in Keys : jobs'[k] # NoJob => jobs'[k].key = k
           /\ writes' \in Seq(Write)
           /\ overtaken' \subseteq Keys
           /\ UNCHANGED <<store, lost>>
<1> DEFINE merged == IF jobs[job.key] = NoJob THEN job ELSE Merge(jobs[job.key], job)
           sent   == [key |-> job.key, value |-> merged, by |-> by]
<1>1. job.key \in Keys
  BY DEF Job
<1>2. merged \in Job /\ merged.key = job.key
  BY <1>1, MergeType DEF TypeOK
<1>3. sent \in Write
  BY <1>1, <1>2 DEF Write
<1>4. /\ jobs' = [jobs EXCEPT ![job.key] = merged] /\ writes' = Append(writes, sent)
      /\ overtaken' = overtaken \ {job.key} /\ UNCHANGED <<store, lost>>
  BY DEF Put
<1> HIDE DEF merged, sent
<1> QED
  BY <1>1, <1>2, <1>3, <1>4 DEF TypeOK

-----------------------------------------------------------------------------
(* Every action preserves the types. *)

LEMMA NextType == TypeOK /\ [Next]_vars => TypeOK'
<1> SUFFICES ASSUME TypeOK, [Next]_vars
             PROVE  TypeOK'
  OBVIOUS
<1> USE DEF external, kafka, queue, work, neo4j, bounds
<1>1. ASSUME NEW kind \in {"processed", "updated", "deleted"}, NEW k \in Keys,
             NEW versions \in SUBSET Docs, NEW removed \in BOOLEAN,
             Publish(kind, k, versions, removed), dvd' \in [Docs -> Nat]
      PROVE  TypeOK'
  <2> DEFINE event == [kind |-> kind, key |-> k, versions_removed |-> versions,
                       document_removed |-> removed]
  <2>1. event \in Event
    BY DEF Event
  <2>2. log' = Append(log, event)
    BY <1>1 DEF Publish
  <2> HIDE DEF event
  <2>3. log' \in Seq(Event) /\ Len(log') = Len(log) + 1
    BY <2>1, <2>2 DEF TypeOK
  <2>4. received' <= Len(log')
    BY <1>1, <2>3 DEF TypeOK, Publish
  <2> QED
    BY <1>1, <2>3, <2>4 DEF TypeOK, Publish
<1>2. ASSUME NEW d \in Docs, Index(d)
      PROVE  TypeOK'
  <2>1. KeyOf[d] \in Keys
    BY ConstantsAssumption DEF ConstantsAssumption, KeyOf, Keys
  <2>2. dvd' \in [Docs -> Nat]
    BY <1>2 DEF Index, TypeOK
  <2> QED
    BY <1>1, <1>2, <2>1, <2>2 DEF Index
<1>3. ASSUME NEW k \in Keys, NEW gone \in SUBSET DocsOf(k), Unregister(k, gone)
      PROVE  TypeOK'
  <2>1. gone \in SUBSET Docs
    BY DEF DocsOf
  <2>2. dvd' \in [Docs -> Nat]
    BY <1>3 DEF Unregister, TypeOK
  <2> QED
    BY <1>1, <1>3, <2>1, <2>2 DEF Unregister
<1>4. CASE Receive
  <2>1. received + 1 \in 1..Len(log)
    BY <1>4 DEF Receive, TypeOK
  <2>2. JobOf(received + 1) \in Job
    BY <2>1, JobOfType DEF TypeOK
  <2> QED
    BY <1>4, <2>1, <2>2, PutType DEF Receive, TypeOK
<1>5. CASE Requeue
  <2> PICK job \in retries : Retry(job)
    BY <1>5 DEF Requeue
  <2>1. job \in Job
    BY DEF TypeOK
  <2> QED
    BY <2>1, PutType DEF Retry, TypeOK
<1>6. ASSUME NEW i \in 1..Len(writes), Commit(i)
      PROVE  TypeOK'
  <2>1. writes[i] \in Write
    BY DEF TypeOK
  <2>2. writes' \in Seq(Write)
    BY <1>6, RemoveAtType DEF Commit, TypeOK
  <2>3. /\ store' \in [Keys -> Job \cup {NoJob}]
        /\ \A k \in Keys : store'[k] # NoJob => store'[k].key = k
    BY <1>6, <2>1 DEF Commit, TypeOK, Write
  <2>4. /\ committed' \in Nat /\ received' \in Nat
        /\ committed' <= received' /\ received' <= committed' + 1
        /\ received' <= Len(log')
    BY <1>6 DEF Commit, TypeOK
  <2>5. /\ wakeup' \in BOOLEAN
        /\ worker' = "ready" \/ worker' = worker
    BY <1>6 DEF Commit, TypeOK
  <2>6. overtaken' \subseteq Keys /\ lost' = lost
    BY <1>6, <2>1 DEF Commit, Observed, TypeOK, Write
  <2> QED
    BY <1>6, <2>2, <2>3, <2>4, <2>5, <2>6 DEF Commit, TypeOK
<1>7. ASSUME NEW i \in 1..Len(writes), WriteFails(i)
      PROVE  TypeOK'
  <2>1. writes[i].by \in Callers
    BY DEF TypeOK, Write, Callers
  <2>2. writes' \in Seq(Write)
    BY <1>7, RemoveAtType DEF WriteFails, TypeOK
  <2>3. faults' \in [Callers -> Nat]
    BY <1>7, <2>1 DEF WriteFails, TypeOK
  <2> QED
    BY <1>7, <2>2, <2>3 DEF WriteFails, TypeOK
<1>8. CASE Worker
  <2>1. ASSUME NEW k \in Keys, Take(k)
        PROVE  TypeOK'
    BY <2>1 DEF Take, TypeOK, SyncPhase
  <2>2. CASE Sleep
    BY <2>2 DEF Sleep, TypeOK
  <2>3. CASE Wake
    BY <2>3 DEF Wake, TypeOK
  <2>4. CASE DeleteName
    BY <2>4 DEF DeleteName, TypeOK, SyncPhase, Absent, DocState
  <2>5. CASE Resolve
    BY <2>5 DEF Resolve, TypeOK, DocsOf, Reach
  <2>6. CASE Synchronised
    BY <2>6, SyncedType DEF Synchronised, TypeOK, Job
  <2>7. CASE Finish
    <3> DEFINE sent == [key |-> current.key, value |-> jobs[current.key],
                        by |-> "worker"]
    <3>1. current \in Job
      BY <2>7 DEF Finish, TypeOK
    <3>2. sent \in Write
      BY <3>1 DEF TypeOK, Write, Job
    <3>3. writes' = Append(writes, sent)
      BY <2>7 DEF Finish
    <3> HIDE DEF sent
    <3>4. writes' \in Seq(Write)
      BY <3>2, <3>3 DEF TypeOK
    <3> QED
      BY <2>7, <3>4 DEF Finish, TypeOK
  <2>8. ASSUME NEW d \in Docs, Fetch(d)
        PROVE  TypeOK'
    BY <2>8 DEF Fetch, TypeOK
  <2> QED
    BY <1>8, <2>1, <2>2, <2>3, <2>4, <2>5, <2>6, <2>7, <2>8 DEF Worker
<1>9. ASSUME NEW part \in Parts, Failed(part), current # NoJob
      PROVE  TypeOK'
  <2>1. current \in Job
    BY <1>9 DEF TypeOK
  <2>2. retries' \subseteq Job
    <3>1. [current EXCEPT !.attempts = @ + 1] \in Job
      BY <2>1 DEF Job
    <3> QED
      BY <1>9, <3>1 DEF Failed, TypeOK
  <2>3. graph' \in [Docs -> DocState]
    BY <1>9, CutShortType DEF Failed
  <2>4. failures' \in [Parts \cup {"overflow"} -> Nat]
    <3> DEFINE counted == [failures EXCEPT ![part] = @ + 1]
               over == IF current.attempts < FloatExponents THEN failures["overflow"]
                       ELSE failures["overflow"] + 1
    <3>1. counted \in [Parts \cup {"overflow"} -> Nat]
      BY DEF TypeOK
    <3>2. over \in Nat
      BY DEF TypeOK
    <3>3. failures' = [counted EXCEPT !["overflow"] = over]
      BY <1>9 DEF Failed
    <3> HIDE DEF counted, over
    <3> QED
      BY <3>1, <3>2, <3>3
  <2> QED
    BY <1>9, <2>2, <2>3, <2>4 DEF Failed, TypeOK
<1>10. CASE DeleteFails \/ SyncFails
  <2>1. current # NoJob
    BY <1>10 DEF DeleteFails, SyncFails, TypeOK
  <2> QED
    BY <1>9, <1>10, <2>1 DEF DeleteFails, SyncFails, Parts
<1>11. CASE Crash
  <2>1. PICK last \in [Keys -> 0..Len(writes)] :
          /\ \A k \in Keys : last[k] # 0 => writes[last[k]].key = k
          /\ store' = [k \in Keys |-> IF last[k] = 0 THEN store[k]
                                      ELSE writes[last[k]].value]
    BY <1>11 DEF Crash
  <2>2. ASSUME NEW k \in Keys
        PROVE  /\ store'[k] \in Job \cup {NoJob}
               /\ store'[k] # NoJob => store'[k].key = k
    <3>1. CASE last[k] = 0
      BY <2>1, <3>1 DEF TypeOK
    <3>2. CASE last[k] # 0
      <4>1. last[k] \in 1..Len(writes)
        BY <3>2 DEF TypeOK
      <4>2. writes[last[k]] \in Write
        BY <4>1 DEF TypeOK
      <4> QED
        BY <2>1, <3>2, <4>2 DEF Write
    <3> QED
      BY <3>1, <3>2
  <2>3. store' \in [Keys -> Job \cup {NoJob}]
    BY <2>1, <2>2
  <2>4. graph' \in [Docs -> DocState]
    BY <1>11, CutShortType DEF Crash
  <2>5. writes' \in Seq(Write)
    BY <1>11 DEF Crash
  <2>6. jobs' \in [Keys -> Job \cup {NoJob}] /\ \A k \in Keys : jobs'[k] = NoJob
    BY <1>11 DEF Crash
  <2>7. /\ committed' \in Nat /\ received' \in Nat
        /\ committed' <= received' /\ received' <= committed' + 1
        /\ received' <= Len(log') /\ crashes' \in Nat
    BY <1>11 DEF Crash, TypeOK
  <2>8. /\ dvd' \in [Docs -> Nat] /\ log' \in Seq(Event)
        /\ retries' \subseteq Job /\ wakeup' \in BOOLEAN
        /\ todo' \subseteq Docs /\ ingesting' \in Docs \cup {NoDoc} /\ edition' \in Nat
        /\ failures' \in [Parts \cup {"overflow"} -> Nat] /\ faults' \in [Callers -> Nat]
        /\ overtaken' \subseteq Keys /\ lost' \subseteq Keys
    BY <1>11 DEF Crash, TypeOK
  <2>9. worker' = "off" /\ current' = NoJob
    BY <1>11 DEF Crash
  <2> QED
    BY <2>2, <2>3, <2>4, <2>5, <2>6, <2>7, <2>8, <2>9 DEF TypeOK
<1>12. CASE Start
  BY <1>12 DEF Start, TypeOK
<1>13. CASE StartFails
  BY <1>13 DEF StartFails, TypeOK, Callers
<1>14. CASE UNCHANGED vars
  BY <1>14 DEF vars, TypeOK
<1> QED
  BY <1>2, <1>3, <1>4, <1>5, <1>6, <1>7, <1>8, <1>10, <1>11, <1>12, <1>13, <1>14
     DEF Next, IduDvd, Statement

(***************************************************************************)
(* Type correctness, for any set of documents, names and scopes and any    *)
(* number of events, failures, outages and restarts: every waiting and     *)
(* every persisted job is filed under its own key, and the consumer is at  *)
(* most one event ahead of the committed offset (queue.py, consumer.py).   *)
(***************************************************************************)
THEOREM TypeCorrect == Spec => []TypeOK
<1>1. Init => TypeOK
  BY InitType
<1>2. TypeOK /\ [Next]_vars => TypeOK'
  BY NextType
<1> QED
  BY <1>1, <1>2, PTL DEF Spec

-----------------------------------------------------------------------------
(* A job touches the documents it reaches only. *)

(* The worker awaits the statements it sends, one at a time. *)
OwnStatements ==
    \A i \in 1..Len(writes) :
        writes[i].by = "worker" =>
            /\ worker = "flushing"
            /\ \A h \in 1..Len(writes) : writes[h].by = "worker" => h = i

LEMMA OwnStatementsInductive ==
    TypeOK /\ OwnStatements /\ [Next]_vars => OwnStatements'
<1> SUFFICES ASSUME TypeOK, OwnStatements, [Next]_vars
             PROVE  OwnStatements'
  OBVIOUS
<1> USE DEF external, kafka, queue, work, neo4j, bounds
<1>0. writes \in Seq(Write) /\ Len(writes) \in Nat
  BY DEF TypeOK
<1>1. ASSUME NEW w, w \in Write, writes' = Append(writes, w),
             w.by # "worker", worker' = worker
      PROVE  OwnStatements'
  <2>1. /\ Len(writes') = Len(writes) + 1
        /\ \A i \in 1..Len(writes) : writes'[i] = writes[i]
        /\ writes'[Len(writes) + 1] = w
    BY <1>0, <1>1, AppendProperties
  <2> QED
    BY <1>0, <1>1, <2>1 DEF OwnStatements
<1>2. ASSUME NEW job \in Job, NEW by \in {"consumer", "retry"},
             Put(job, by), worker' = worker
      PROVE  OwnStatements'
  <2> DEFINE merged == IF jobs[job.key] = NoJob THEN job ELSE Merge(jobs[job.key], job)
             sent   == [key |-> job.key, value |-> merged, by |-> by]
  <2>1. sent \in Write /\ sent.by = by
    <3>1. job.key \in Keys
      BY DEF Job
    <3>2. merged \in Job /\ merged.key = job.key
      BY <3>1, MergeType DEF TypeOK
    <3> QED
      BY <3>1, <3>2 DEF Write
  <2>2. writes' = Append(writes, sent)
    BY <1>2 DEF Put
  <2> HIDE DEF sent, merged
  <2> QED
    BY <1>1, <1>2, <2>1, <2>2
<1>3. CASE Receive
  <2>1. received + 1 \in 1..Len(log)
    BY <1>3 DEF Receive, TypeOK
  <2>2. JobOf(received + 1) \in Job
    BY <2>1, JobOfType DEF TypeOK
  <2> QED
    BY <1>2, <1>3, <2>2 DEF Receive
<1>4. CASE Requeue
  <2> PICK job \in retries : Retry(job)
    BY <1>4 DEF Requeue
  <2>1. job \in Job
    BY DEF TypeOK
  <2> QED
    BY <1>2, <2>1 DEF Retry
<1>5. ASSUME NEW i \in 1..Len(writes), writes' = RemoveAt(writes, i),
             worker' = IF writes[i].by = "worker" THEN "ready" ELSE worker
      PROVE  OwnStatements'
  <2>1. /\ Len(writes') = Len(writes) - 1
        /\ \A j \in 1..(Len(writes) - 1) :
             writes'[j] = IF j < i THEN writes[j] ELSE writes[j + 1]
    BY <1>0, <1>5, RemoveAtType
  <2>2. ASSUME NEW j \in 1..Len(writes')
        PROVE  \E h \in 1..Len(writes) : h = (IF j < i THEN j ELSE j + 1)
                                         /\ h # i /\ writes'[j] = writes[h]
    BY <1>0, <2>1
  <2>3. ASSUME NEW j \in 1..Len(writes'), writes'[j].by = "worker"
        PROVE  worker' = "flushing"
    BY <1>5, <2>2, <2>3 DEF OwnStatements
  <2>4. ASSUME NEW j \in 1..Len(writes'), writes'[j].by = "worker",
               NEW l \in 1..Len(writes'), writes'[l].by = "worker"
        PROVE  l = j
    <3>1. PICK h \in 1..Len(writes) : h = (IF j < i THEN j ELSE j + 1)
                                      /\ h # i /\ writes'[j] = writes[h]
      BY <2>2
    <3>2. PICK g \in 1..Len(writes) : g = (IF l < i THEN l ELSE l + 1)
                                      /\ g # i /\ writes'[l] = writes[g]
      BY <2>2
    <3>3. h = g
      BY <2>4, <3>1, <3>2 DEF OwnStatements
    <3>4. j \in Int /\ l \in Int /\ i \in Int
      BY <1>0, <2>1
    <3> QED
      BY <3>1, <3>2, <3>3, <3>4
  <2> QED
    BY <2>3, <2>4 DEF OwnStatements
<1>6. ASSUME NEW i \in 1..Len(writes), Commit(i) \/ WriteFails(i)
      PROVE  OwnStatements'
  <2>1. /\ writes' = RemoveAt(writes, i)
        /\ worker' = IF writes[i].by = "worker" THEN "ready" ELSE worker
    BY <1>6 DEF Commit, WriteFails
  <2> QED
    BY <1>5, <2>1
<1>7. CASE Finish
  <2> DEFINE sent == [key |-> current.key, value |-> jobs[current.key], by |-> "worker"]
  <2>1. current \in Job
    BY <1>7 DEF Finish, TypeOK
  <2>2. sent \in Write
    BY <2>1 DEF TypeOK, Write, Job
  <2>3. writes' = Append(writes, sent) /\ worker' = "flushing" /\ worker = "finishing"
    BY <1>7 DEF Finish
  <2> HIDE DEF sent
  <2>4. /\ Len(writes') = Len(writes) + 1
        /\ \A i \in 1..Len(writes) : writes'[i] = writes[i]
    BY <1>0, <2>2, <2>3, AppendProperties
  <2>5. \A i \in 1..Len(writes) : writes[i].by # "worker"
    BY <2>3 DEF OwnStatements
  <2> QED
    BY <1>0, <2>3, <2>4, <2>5 DEF OwnStatements
<1>8. CASE Crash
  BY <1>8 DEF Crash, OwnStatements
<1>9. ASSUME writes' = writes, worker' = worker \/ worker # "flushing"
      PROVE  OwnStatements'
  BY <1>9 DEF OwnStatements
<1>10. CASE IduDvd \/ Start \/ StartFails \/ DeleteFails \/ SyncFails \/ UNCHANGED vars
  BY <1>9, <1>10 DEF IduDvd, Index, Unregister, Publish, Start, StartFails,
                     DeleteFails, SyncFails, Failed, vars
<1>11. CASE Sleep \/ Wake \/ DeleteName \/ Resolve \/ Synchronised
  BY <1>9, <1>11 DEF Sleep, Wake, DeleteName, Resolve, Synchronised
<1>12. ASSUME NEW k \in Keys, Take(k)
       PROVE  OwnStatements'
  BY <1>9, <1>12 DEF Take
<1>13. ASSUME NEW d \in Docs, Fetch(d)
       PROVE  OwnStatements'
  BY <1>9, <1>13 DEF Fetch
<1> QED
  BY <1>3, <1>4, <1>6, <1>7, <1>8, <1>10, <1>11, <1>12, <1>13
     DEF Next, Worker, Statement

(* What the running job still has to sync, and the document in work, are of its name *)
(* and, for a user's job, of its scope.                                               *)
ReachWork ==
    /\ worker = "syncing" => todo \subseteq Reach(current.key)
    /\ ingesting # NoDoc => worker = "syncing" /\ ingesting \in Reach(current.key)

LEMMA ReachesDocs == \A k \in Keys : DocsOf(k) \subseteq Reach(k)
BY DEF DocsOf, Reach, KeyOf

LEMMA ReachWorkInductive ==
    TypeOK /\ OwnStatements /\ ReachWork /\ [Next]_vars => ReachWork'
<1> SUFFICES ASSUME TypeOK, OwnStatements, ReachWork, [Next]_vars
             PROVE  ReachWork'
  OBVIOUS
<1> USE DEF external, kafka, queue, work, neo4j, bounds
<1>1. CASE Resolve
  <2>1. current \in Job /\ current.key \in Keys
    BY <1>1 DEF Resolve, TypeOK, Job
  <2>2. DocsOf(current.key) \subseteq Reach(current.key)
    BY <2>1, ReachesDocs
  <2> QED
    BY <1>1, <2>2 DEF Resolve, ReachWork
<1>2. ASSUME NEW d \in Docs, Fetch(d)
      PROVE  ReachWork'
  BY <1>2 DEF Fetch, ReachWork
<1>3. CASE Synchronised
  BY <1>3 DEF Synchronised, ReachWork
<1>4. ASSUME NEW k \in Keys, Take(k)
      PROVE  ReachWork'
  BY <1>4 DEF Take, SyncPhase, ReachWork
<1>5. CASE Sleep \/ Wake \/ DeleteName \/ Finish
  BY <1>5 DEF Sleep, Wake, DeleteName, Finish, SyncPhase, ReachWork
<1>6. CASE DeleteFails \/ SyncFails \/ Crash
  BY <1>6 DEF DeleteFails, SyncFails, Failed, Crash, ReachWork
<1>7. CASE Start \/ StartFails
  BY <1>7 DEF Start, StartFails, ReachWork
<1>8. CASE IduDvd \/ Receive \/ Requeue
  BY <1>8 DEF IduDvd, Index, Unregister, Publish, Receive, Requeue, Retry, ReachWork
<1>9. ASSUME NEW i \in 1..Len(writes), Commit(i) \/ WriteFails(i)
      PROVE  ReachWork'
  <2>1. UNCHANGED <<current, todo, ingesting>>
    BY <1>9 DEF Commit, WriteFails
  <2>2. worker' = worker \/ (worker = "flushing" /\ worker' = "ready")
    BY <1>9 DEF Commit, WriteFails, OwnStatements
  <2> QED
    BY <2>1, <2>2 DEF ReachWork
<1>10. CASE UNCHANGED vars
  BY <1>10 DEF vars, ReachWork
<1> QED
  BY <1>1, <1>2, <1>3, <1>4, <1>5, <1>6, <1>7, <1>8, <1>9, <1>10
     DEF Next, Worker, Statement

(* Every step that changes the graph is one of a job that reaches the document. *)
LEMMA ReachedStep ==
    TypeOK /\ ReachWork /\ [Next]_vars =>
        \A d \in Docs : graph'[d] # graph[d] =>
            current # NoJob /\ d \in Reach(current.key)
<1> SUFFICES ASSUME TypeOK, ReachWork, [Next]_vars, NEW d \in Docs, graph'[d] # graph[d]
             PROVE  current # NoJob /\ d \in Reach(current.key)
  OBVIOUS
<1> USE DEF external, kafka, queue, work, neo4j, bounds
<1>1. Targets(current) \subseteq Reach(current.key)
  BY DEF Targets, StoredByName
<1>2. CASE DeleteName
  BY <1>1, <1>2 DEF DeleteName, TypeOK
<1>3. ASSUME ingesting = d
      PROVE  current # NoJob /\ d \in Reach(current.key)
  BY <1>3, ConstantsAssumption DEF ReachWork, TypeOK, ConstantsAssumption
<1>4. CASE Synchronised
  <2>1. ingesting = d
    BY <1>4 DEF Synchronised, TypeOK
  <2> QED
    BY <1>3, <2>1
<1>5. ASSUME graph' \in CutShort
      PROVE  current # NoJob /\ d \in Reach(current.key)
  <2>1. CASE worker = "deleting"
    <3>1. PICK done \in SUBSET Targets(current) :
            graph' = [e \in Docs |-> IF e \in done THEN Absent ELSE graph[e]]
      BY <1>5, <2>1 DEF CutShort
    <3>2. d \in Targets(current) /\ current # NoJob
      BY <2>1, <3>1 DEF TypeOK
    <3> QED
      BY <1>1, <3>2
  <2>2. CASE worker # "deleting" /\ ingesting # NoDoc
    <3>1. graph' = [graph EXCEPT ![ingesting] = HalfSynced(@, edition)] \/ graph' = graph
      BY <1>5, <2>2 DEF CutShort
    <3>2. ingesting = d
      BY <3>1 DEF TypeOK
    <3> QED
      BY <1>3, <3>2
  <2>3. CASE worker # "deleting" /\ ingesting = NoDoc
    BY <1>5, <2>3 DEF CutShort
  <2> QED
    BY <2>1, <2>2, <2>3
<1>6. CASE DeleteFails \/ SyncFails \/ Crash
  BY <1>5, <1>6 DEF DeleteFails, SyncFails, Failed, Crash
<1>7. UNCHANGED graph \/ DeleteName \/ Synchronised \/ DeleteFails \/ SyncFails \/ Crash
  <2>1. CASE IduDvd \/ Receive \/ Requeue \/ Statement \/ Start \/ StartFails
    BY <2>1 DEF IduDvd, Index, Unregister, Publish, Receive, Requeue, Retry,
                Statement, Commit, Start, StartFails
  <2>2. CASE Worker
    BY <2>2 DEF Worker, Take, Sleep, Wake, Resolve, Fetch, Finish
  <2>3. ASSUME NEW i \in 1..Len(writes), WriteFails(i)
        PROVE  UNCHANGED graph
    BY <2>3 DEF WriteFails
  <2>4. CASE UNCHANGED vars
    BY <2>4 DEF vars
  <2> QED
    BY <2>1, <2>2, <2>3, <2>4 DEF Next
<1> QED
  BY <1>2, <1>4, <1>6, <1>7

(***************************************************************************)
(* Whatever names users' documents and shared documents have, whatever     *)
(* fails and whenever the process stops, a user's job changes the graph    *)
(* only in documents of its name and its own scope, and a job of the       *)
(* shared corpus only in documents of its name (service.py:247-248, 284,   *)
(* writer.py:788-805), also where a deletion, a sync or a stop comes       *)
(* between the lookup of the documents and the writes that rest on it.     *)
(***************************************************************************)
THEOREM OwnDocumentsOnly == Spec => OtherScopesUntouched
<1> DEFINE IInv == TypeOK /\ OwnStatements /\ ReachWork
           Touched == \A d \in Docs : graph'[d] # graph[d] =>
                        /\ current # NoJob /\ current.key.name = NameOf[d]
                        /\ current.key.scope \in {Shared, ScopeOf[d]}
<1>1. Init => IInv
  BY InitType DEF Init, OwnStatements, ReachWork
<1>2. IInv /\ [Next]_vars => IInv'
  BY NextType, OwnStatementsInductive, ReachWorkInductive
<1>3. IInv /\ [Next]_vars => [Touched]_vars
  BY ReachedStep DEF Reach
<1> QED
  BY <1>1, <1>2, <1>3, PTL DEF Spec, OtherScopesUntouched

-----------------------------------------------------------------------------
(* Where names are apart a job touches the documents of its own key only. *)

(* No user's document has the name of a shared document: where one has, the shared *)
(* one's job reaches the user's (Reach), and the property fails.                   *)
NamesApart ==
    \A d, e \in Docs : NameOf[d] = NameOf[e] /\ ScopeOf[d] = Shared => ScopeOf[e] = Shared

LEMMA ReachesOwn == NamesApart => \A k \in Keys : Reach(k) = DocsOf(k)
<1> SUFFICES ASSUME NamesApart, NEW k \in Keys
             PROVE  Reach(k) = DocsOf(k)
  OBVIOUS
<1>1. PICK c \in Docs : k = KeyOf[c]
  BY DEF Keys
<1>2. k.name = NameOf[c] /\ k.scope = ScopeOf[c]
  BY <1>1 DEF KeyOf
<1>3. ASSUME NEW d \in Docs
      PROVE  KeyOf[d] = k <=> NameOf[d] = k.name /\ ScopeOf[d] = k.scope
  BY <1>1, <1>2 DEF KeyOf
<1>4. ASSUME NEW d \in Docs, NameOf[d] = k.name
      PROVE  (k.scope # Shared => ScopeOf[d] = k.scope) <=> ScopeOf[d] = k.scope
  BY <1>2, <1>4 DEF NamesApart
<1> QED
  BY <1>3, <1>4 DEF Reach, DocsOf

(* What the running job still has to sync, and the document in work, are its own. *)
OwnWork ==
    /\ worker = "syncing" => todo \subseteq DocsOf(current.key)
    /\ ingesting # NoDoc => worker = "syncing" /\ ingesting \in DocsOf(current.key)

LEMMA ReachWorkIsOwn == NamesApart /\ TypeOK /\ ReachWork => OwnWork
<1> SUFFICES ASSUME NamesApart, TypeOK, ReachWork
             PROVE  OwnWork
  OBVIOUS
<1>1. worker = "syncing" => Reach(current.key) = DocsOf(current.key)
  BY ReachesOwn DEF TypeOK, Job
<1> QED
  BY <1>1 DEF ReachWork, OwnWork

LEMMA OwnDocumentsStep ==
    NamesApart /\ TypeOK /\ ReachWork /\ [Next]_vars =>
        \A d \in Docs : graph'[d] # graph[d] => current # NoJob /\ current.key = KeyOf[d]
<1> SUFFICES ASSUME NamesApart, TypeOK, ReachWork, [Next]_vars,
                    NEW d \in Docs, graph'[d] # graph[d]
             PROVE  current # NoJob /\ current.key = KeyOf[d]
  OBVIOUS
<1>1. current # NoJob /\ d \in Reach(current.key)
  BY ReachedStep
<1>2. current.key \in Keys
  BY <1>1 DEF TypeOK, Job
<1> QED
  BY <1>1, <1>2, ReachesOwn DEF DocsOf

-----------------------------------------------------------------------------
(* A waiting job is persisted. *)

(* Nothing is in flight while the process is down: what is restored is what is stored. *)
Quiet == worker = "off" => writes = << >>

LEMMA QuietInductive == Quiet /\ [Next]_vars => Quiet'
<1> SUFFICES ASSUME Quiet, [Next]_vars
             PROVE  Quiet'
  OBVIOUS
<1> USE DEF external, kafka, queue, work, neo4j, bounds
<1>1. CASE IduDvd \/ Start \/ StartFails \/ Crash \/ DeleteFails \/ SyncFails
  BY <1>1 DEF IduDvd, Index, Unregister, Publish, Start, StartFails, Crash, DeleteFails,
              SyncFails, Failed, Quiet
<1>2. CASE Receive \/ Requeue
  BY <1>2 DEF Receive, Requeue, Retry, Up, Quiet
<1>3. CASE Worker
  BY <1>3 DEF Worker, Take, Sleep, Wake, DeleteName, Resolve, Fetch, Synchronised, Finish,
              SyncPhase, Quiet
<1>4. ASSUME NEW i \in 1..Len(writes), Commit(i) \/ WriteFails(i)
      PROVE  Quiet'
  <2>1. writes # << >>
    BY <1>4
  <2> QED
    BY <1>4, <2>1 DEF Commit, WriteFails, Quiet
<1>5. CASE UNCHANGED vars
  BY <1>5 DEF vars, Quiet
<1> QED
  BY <1>1, <1>2, <1>3, <1>4, <1>5 DEF Next, Statement

(* A statement that is sent for a key is what its node will be. *)
LEMMA SentIsPersisted ==
    ASSUME TypeOK, NEW w \in Write, writes' = Append(writes, w), store' = store
    PROVE  /\ Persisted(w.key, w.value)'
           /\ \A k \in Keys, job \in Job \cup {NoJob} :
                k # w.key /\ Persisted(k, job) => Persisted(k, job)'
<1>1. /\ Len(writes') = Len(writes) + 1 /\ Len(writes) \in Nat
      /\ \A i \in 1..Len(writes) : writes'[i] = writes[i]
      /\ writes'[Len(writes) + 1] = w
  BY AppendProperties DEF TypeOK
<1>2. Persisted(w.key, w.value)'
  BY <1>1 DEF Persisted
<1>3. ASSUME NEW k \in Keys, NEW job \in Job \cup {NoJob}, k # w.key, Persisted(k, job)
      PROVE  Persisted(k, job)'
  <2>1. CASE /\ \A i \in 1..Len(writes) : writes[i].key # k
             /\ store[k] = job
    BY <1>1, <1>3, <2>1 DEF Persisted
  <2>2. ASSUME NEW i \in 1..Len(writes), writes[i].key = k, writes[i].value = job,
               \A h \in (i + 1)..Len(writes) : writes[h].key # k
        PROVE  Persisted(k, job)'
    <3>1. i \in 1..Len(writes') /\ writes'[i].key = k /\ writes'[i].value = job
      BY <1>1, <2>2
    <3>2. \A h \in (i + 1)..Len(writes') : writes'[h].key # k
      BY <1>1, <1>3, <2>2
    <3> QED
      BY <3>1, <3>2 DEF Persisted
  <2> QED
    BY <1>3, <2>1, <2>2 DEF Persisted
<1> QED
  BY <1>2, <1>3

(* ... and stays so when a statement commits, unless it is the latest of its key and *)
(* commits before an older one.                                                      *)
LEMMA CommittedIsPersisted ==
    ASSUME TypeOK, NEW i \in 1..Len(writes), Observed(i),
           writes' = RemoveAt(writes, i),
           store' = [store EXCEPT ![writes[i].key] = writes[i].value],
           NEW k \in Keys, NEW job \in Job \cup {NoJob}, k \notin overtaken',
           Persisted(k, job)
    PROVE  Persisted(k, job)'
<1>0. writes \in Seq(Write) /\ Len(writes) \in Nat
  BY DEF TypeOK
<1>1. /\ Len(writes') = Len(writes) - 1
      /\ \A j \in 1..(Len(writes) - 1) :
           writes'[j] = IF j < i THEN writes[j] ELSE writes[j + 1]
  BY <1>0, RemoveAtType
<1>2. writes[i] \in Write /\ writes[i].key \in Keys
  BY <1>0 DEF Write
<1>3. \A e \in Keys : store'[e] = IF e = writes[i].key THEN writes[i].value ELSE store[e]
  BY <1>2 DEF TypeOK
<1>4. CASE /\ \A j \in 1..Len(writes) : writes[j].key # k
           /\ store[k] = job
  <2>1. \A j \in 1..Len(writes') : writes'[j].key # k
    BY <1>0, <1>1, <1>4
  <2>2. store'[k] = job
    BY <1>3, <1>4
  <2> QED
    BY <2>1, <2>2 DEF Persisted
<1>5. ASSUME NEW l \in 1..Len(writes), writes[l].key = k, writes[l].value = job,
             \A h \in (l + 1)..Len(writes) : writes[h].key # k
      PROVE  Persisted(k, job)'
  <2>1. CASE l = i
    <3>0. \A h \in 1..(i - 1) : writes[h].key # k
      BY <1>0, <1>5, <2>1 DEF Observed, Overtakes
    <3>1. \A j \in 1..Len(writes) : j # i => writes[j].key # k
      BY <1>0, <1>5, <2>1, <3>0
    <3>2. \A j \in 1..Len(writes') : writes'[j].key # k
      BY <1>0, <1>1, <3>1
    <3>3. store'[k] = job
      BY <1>3, <1>5, <2>1
    <3> QED
      BY <3>2, <3>3 DEF Persisted
  <2>2. CASE l < i
    <3>1. writes[i].key # k
      BY <1>0, <1>5, <2>2
    <3>2. l \in 1..Len(writes') /\ writes'[l] = writes[l]
      BY <1>0, <1>1, <2>2
    <3>3. \A h \in (l + 1)..Len(writes') : writes'[h].key # k
      BY <1>0, <1>1, <1>5, <2>2
    <3> QED
      BY <1>5, <3>2, <3>3 DEF Persisted
  <2>3. CASE l > i
    <3>1. l - 1 \in 1..Len(writes') /\ writes'[l - 1] = writes[l]
      BY <1>0, <1>1, <2>3
    <3>2. \A h \in ((l - 1) + 1)..Len(writes') : writes'[h].key # k
      BY <1>0, <1>1, <1>5, <2>3
    <3> QED
      BY <1>5, <3>1, <3>2 DEF Persisted
  <2> QED
    BY <1>0, <2>1, <2>2, <2>3
<1> QED
  BY <1>4, <1>5 DEF Persisted

LEMMA PersistedStep ==
    ASSUME TypeOK, Quiet, WaitingJobsArePersisted, [Next]_vars, NoFaults'
    PROVE  \A k \in Keys, v \in Job :
                jobs'[k] = v /\ k \notin overtaken' => Persisted(k, v)'
<1> USE DEF external, kafka, queue, work, neo4j, bounds
<1>1. NoFaults /\ \A i \in 1..Len(writes) : ~WriteFails(i)
  <2>1. ASSUME NEW i \in 1..Len(writes), WriteFails(i)
        PROVE  FALSE
    <3>1. writes[i].by \in Callers
      BY DEF TypeOK, Write, Callers
    <3>2. faults'[writes[i].by] = faults[writes[i].by] + 1 /\ faults[writes[i].by] \in Nat
      BY <2>1, <3>1 DEF WriteFails, TypeOK
    <3> QED
      BY <3>1, <3>2 DEF NoFaults
  <2>2. ~StartFails
    <3>1. "start" \in Callers /\ faults["start"] \in Nat
      BY DEF Callers, TypeOK
    <3> QED
      BY <3>1 DEF StartFails, NoFaults, TypeOK
  <2>3. faults' = faults
    <3>1. CASE IduDvd \/ Receive \/ Requeue \/ Statement \/ Start \/ Crash
      BY <3>1 DEF IduDvd, Index, Unregister, Publish, Receive, Requeue, Retry,
                  Statement, Commit, Start, Crash
    <3>2. CASE Worker \/ DeleteFails \/ SyncFails
      BY <3>2 DEF Worker, Take, Sleep, Wake, DeleteName, Resolve, Synchronised, Fetch,
                  Finish, DeleteFails, SyncFails, Failed
    <3>3. CASE UNCHANGED vars
      BY <3>3 DEF vars
    <3> QED
      BY <2>1, <2>2, <3>1, <3>2, <3>3 DEF Next
  <2> QED
    BY <2>1, <2>3 DEF NoFaults
<1>2. \A k \in Keys, v \in Job : jobs[k] = v /\ k \notin overtaken => Persisted(k, v)
  BY <1>1, JobNotNone DEF WaitingJobsArePersisted, NoFaults
<1>3. ASSUME writes' = writes, store' = store, overtaken' = overtaken,
             \A k \in Keys : jobs'[k] = jobs[k] \/ jobs'[k] = NoJob
      PROVE  \A k \in Keys, v \in Job :
                jobs'[k] = v /\ k \notin overtaken' => Persisted(k, v)'
  BY <1>2, <1>3, JobNotNone DEF Persisted
<1>4. ASSUME NEW job \in Job, NEW by \in {"consumer", "retry", "worker"},
             Put(job, by), store' = store
      PROVE  \A k \in Keys, v \in Job :
                jobs'[k] = v /\ k \notin overtaken' => Persisted(k, v)'
  <2> DEFINE merged == IF jobs[job.key] = NoJob THEN job ELSE Merge(jobs[job.key], job)
             sent   == [key |-> job.key, value |-> merged, by |-> by]
  <2>1. job.key \in Keys
    BY DEF Job
  <2>2. merged \in Job /\ merged.key = job.key
    BY <2>1, MergeType DEF TypeOK
  <2>3. sent \in Write /\ sent.key = job.key /\ sent.value = merged
    BY <2>1, <2>2 DEF Write
  <2>4. /\ jobs' = [jobs EXCEPT ![job.key] = merged] /\ writes' = Append(writes, sent)
        /\ overtaken' = overtaken \ {job.key}
    BY <1>4 DEF Put
  <2> HIDE DEF merged
  <2>5. PICK w \in Write : w = sent
    BY <2>3
  <2> HIDE DEF sent
  <2>6. /\ Persisted(w.key, w.value)'
        /\ \A k \in Keys, old \in Job \cup {NoJob} :
                k # w.key /\ Persisted(k, old) => Persisted(k, old)'
    BY <1>4, <2>4, <2>5, SentIsPersisted
  <2>7. ASSUME NEW k \in Keys, NEW v \in Job, jobs'[k] = v, k \notin overtaken'
        PROVE  Persisted(k, v)'
    <3>1. CASE k = w.key
      BY <2>1, <2>3, <2>4, <2>5, <2>6, <2>7, <3>1 DEF TypeOK
    <3>2. CASE k # w.key
      <4>1. jobs[k] = v /\ k \notin overtaken
        BY <2>3, <2>4, <2>5, <2>7, <3>2 DEF TypeOK
      <4> QED
        BY <1>2, <2>6, <3>2, <4>1
    <3> QED
      BY <3>1, <3>2
  <2> QED
    BY <2>7
<1>5. CASE Receive
  <2>1. received + 1 \in 1..Len(log)
    BY <1>5 DEF Receive, TypeOK
  <2>2. JobOf(received + 1) \in Job
    BY <2>1, JobOfType DEF TypeOK
  <2> QED
    BY <1>4, <1>5, <2>2 DEF Receive, Put
<1>6. CASE Requeue
  <2> PICK job \in retries : Retry(job)
    BY <1>6 DEF Requeue
  <2>1. job \in Job
    BY DEF TypeOK
  <2> QED
    BY <1>4, <2>1 DEF Retry, Put
<1>7. ASSUME NEW i \in 1..Len(writes), Commit(i)
      PROVE  \A k \in Keys, v \in Job :
                jobs'[k] = v /\ k \notin overtaken' => Persisted(k, v)'
  <2>1. /\ Observed(i)
        /\ writes' = RemoveAt(writes, i)
        /\ store' = [store EXCEPT ![writes[i].key] = writes[i].value]
        /\ jobs' = jobs /\ overtaken \subseteq overtaken'
    BY <1>7 DEF Commit, Observed
  <2>2. ASSUME NEW k \in Keys, NEW job \in Job \cup {NoJob}, k \notin overtaken',
               Persisted(k, job)
        PROVE  Persisted(k, job)'
    BY <2>1, <2>2, CommittedIsPersisted
  <2> QED
    BY <1>2, <2>1, <2>2
<1>8. CASE Finish
  <2> DEFINE sent == [key |-> current.key, value |-> jobs[current.key], by |-> "worker"]
  <2>1. current \in Job /\ current.key \in Keys
    BY <1>8 DEF Finish, TypeOK, Job
  <2>2. sent \in Write /\ sent.key = current.key /\ sent.value = jobs[current.key]
    BY <2>1 DEF TypeOK, Write
  <2>3. /\ writes' = Append(writes, sent) /\ store' = store /\ jobs' = jobs
        /\ overtaken' = overtaken \ {current.key}
    BY <1>8 DEF Finish
  <2>4. PICK w \in Write : w = sent
    BY <2>2
  <2> HIDE DEF sent
  <2>5. /\ Persisted(w.key, w.value)'
        /\ \A k \in Keys, old \in Job \cup {NoJob} :
                k # w.key /\ Persisted(k, old) => Persisted(k, old)'
    BY <2>3, <2>4, SentIsPersisted
  <2>6. ASSUME NEW k \in Keys, NEW v \in Job, jobs'[k] = v, k \notin overtaken'
        PROVE  Persisted(k, v)'
    <3>1. CASE k = w.key
      BY <2>2, <2>3, <2>4, <2>5, <2>6, <3>1
    <3>2. CASE k # w.key
      BY <1>2, <2>2, <2>3, <2>4, <2>5, <2>6, <3>2
    <3> QED
      BY <3>1, <3>2
  <2> QED
    BY <2>6
<1>9. CASE Start
  <2>1. writes = << >> /\ writes' = writes /\ store' = store /\ jobs' = store
    BY <1>9 DEF Start, Quiet
  <2> QED
    BY <2>1 DEF Persisted
<1>10. CASE Crash
  BY <1>10, JobNotNone DEF Crash
<1>11. CASE IduDvd \/ DeleteFails \/ SyncFails \/ UNCHANGED vars
  BY <1>3, <1>11 DEF IduDvd, Index, Unregister, Publish, DeleteFails, SyncFails, Failed, vars
<1>12. CASE Sleep \/ Wake \/ DeleteName \/ Resolve \/ Synchronised
  BY <1>3, <1>12 DEF Sleep, Wake, DeleteName, Resolve, Synchronised
<1>13. ASSUME NEW k \in Keys, Take(k)
       PROVE  \A e \in Keys, v \in Job :
                jobs'[e] = v /\ e \notin overtaken' => Persisted(e, v)'
  BY <1>3, <1>13 DEF Take, TypeOK
<1>14. ASSUME NEW d \in Docs, Fetch(d)
       PROVE  \A e \in Keys, v \in Job :
                jobs'[e] = v /\ e \notin overtaken' => Persisted(e, v)'
  BY <1>3, <1>14 DEF Fetch
<1>15. ~StartFails
  <2>1. "start" \in Callers /\ faults["start"] \in Nat
    BY DEF Callers, TypeOK
  <2> QED
    BY <2>1 DEF StartFails, NoFaults, TypeOK
<1> QED
  BY <1>1, <1>5, <1>6, <1>7, <1>8, <1>9, <1>10, <1>11, <1>12, <1>13, <1>14, <1>15
     DEF Next, Worker, Statement

LEMMA PersistedInductive ==
    TypeOK /\ Quiet /\ WaitingJobsArePersisted /\ [Next]_vars
        => WaitingJobsArePersisted'
<1> SUFFICES ASSUME TypeOK, Quiet, WaitingJobsArePersisted, [Next]_vars, NoFaults',
                    NEW k \in Keys, jobs'[k] # NoJob, k \notin overtaken'
             PROVE  Persisted(k, jobs[k])'
  BY DEF WaitingJobsArePersisted, NoFaults
<1>1. PICK v \in Job : v = jobs'[k]
  BY NextType DEF TypeOK
<1>2. Persisted(k, v)'
  BY <1>1, PersistedStep
<1> QED
  BY <1>1, <1>2 DEF Persisted

(***************************************************************************)
(* As long as Neo4j answers, a job that waits in memory is persisted as it *)
(* waits, or its statement is on its way: put saves what it merged, the    *)
(* worker that finishes a job keeps the node of a newer one, and start     *)
(* restores what is stored (queue.py:149-158, 176-185, 221-225), over any  *)
(* number of failing runs and restarts and in whatever order the           *)
(* statements of the two sessions commit.  The one way out is the one the  *)
(* code leaves open: the latest statement of the key has overtaken an      *)
(* older one.                                                              *)
(***************************************************************************)
THEOREM PendingPersisted == Spec => []WaitingJobsArePersisted
<1> DEFINE IInv == TypeOK /\ Quiet /\ WaitingJobsArePersisted
<1>1. Init => IInv
  <2>1. Init => WaitingJobsArePersisted
    BY DEF Init, WaitingJobsArePersisted
  <2> QED
    BY <2>1, InitType DEF Init, Quiet
<1>2. IInv /\ [Next]_vars => IInv'
  BY NextType, QuietInductive, PersistedInductive
<1> QED
  BY <1>1, <1>2, PTL DEF Spec
=============================================================================
