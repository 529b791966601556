------------------------- MODULE DocLifecycleProofs -------------------------
(***************************************************************************)
(* Theorems about DocLifecycle, for every value of its constants.          *)
(***************************************************************************)
EXTENDS DocLifecycle, TLAPS

-----------------------------------------------------------------------------
(* Type correctness. *)

LEMMA IdleType == /\ Idle \in RunType
                  /\ Nothing \in Content /\ NoDocument.failed = {}
                  /\ \A c \in Clauses : Nothing[c] = NoText
BY DEF Idle, RunType, Nothing, Content, NoDocument, Steps, OpNames

LEMMA EditionType ==
    ASSUME NEW n \in 1..Len(Editions), NEW content \in Editions[n]
    PROVE  content \in Content
BY LifecycleAssumption DEF LifecycleAssumption

LEMMA DisturbedType ==
    ASSUME TypeOK, NEW now \in BOOLEAN, Disturbed(now)
    PROVE  disturbances' \in 0..MaxDisturbances
BY LifecycleAssumption DEF LifecycleAssumption, TypeOK, Disturbed

LEMMA InitType == Init => TypeOK
BY IdleType, LifecycleAssumption DEF LifecycleAssumption, Init, TypeOK, NoDocument

(* The steps of an actor: where it goes, and what it has learnt. *)

LEMMA GotoType ==
    ASSUME TypeOK, NEW a \in Actors, NEW step \in Steps, Goto(a, step)
    PROVE  run' \in [Actors -> RunType]
BY DEF Goto, TypeOK, RunType

LEMMA DoneType ==
    ASSUME TypeOK, NEW a \in Actors, Done(a)
    PROVE  run' \in [Actors -> RunType]
BY IdleType DEF Done, TypeOK

LEMMA BeginsType ==
    ASSUME TypeOK, NEW a \in Actors, NEW r \in RunType, run' = [run EXCEPT ![a] = r]
    PROVE  run' \in [Actors -> RunType]
BY DEF TypeOK

LEMMA UpsertType ==
    ASSUME TypeOK, NEW incomplete \in BOOLEAN, NEW failed \in SUBSET Clauses,
           Upsert(incomplete, failed)
    PROVE  doc' \in [stored : BOOLEAN, hash : Nat, incomplete : BOOLEAN,
                     failed : SUBSET Clauses]
BY DEF Upsert, TypeOK

LEMMA CallType ==
    ASSUME TypeOK, NEW a \in Actors, Call(a)
    PROVE  TypeOK'
<1> DEFINE RunOK == run' \in [Actors -> RunType]
<1> USE IdleType DEF graph
<1>1. CASE SyncProcessed(a)
  <2>1. RunOK
    BY <1>1 DEF SyncProcessed, TypeOK, RunType, Steps, OpNames
  <2> QED
    BY <1>1, <2>1 DEF SyncProcessed, TypeOK
<1>2. CASE SyncUpdated(a)
  <2>1. RunOK
    BY <1>2 DEF SyncUpdated, TypeOK, RunType, Steps, OpNames
  <2> QED
    BY <1>2, <2>1 DEF SyncUpdated, TypeOK
<1>3. CASE Backfill(a)
  <2>1. RunOK
    BY <1>3 DEF Backfill, TypeOK, RunType, Steps, OpNames
  <2> QED
    BY <1>3, <2>1 DEF Backfill, TypeOK
<1>4. CASE Delete(a)
  BY <1>4 DEF Delete, TypeOK, Content, NoDocument
<1>5. ASSUME NEW listed, Reconcile(a, listed)
      PROVE  TypeOK'
  <2> DEFINE sync == [Idle EXCEPT !.op = "reconcile", !.at = "guard"]
             again == [sync EXCEPT !.at = "fetch", !.replace = TRUE]
             retry == [sync EXCEPT !.op = "retry", !.at = "fetch", !.replace = TRUE,
                                   !.failed = doc.failed]
             ingest == [sync EXCEPT !.op = "ingest", !.at = "fetch"]
  <2>2. {sync, again, retry, ingest} \subseteq RunType
    <3>1. sync \in RunType
      BY DEF RunType, Steps, OpNames
    <3> HIDE DEF sync
    <3>2. again \in RunType
      BY <3>1 DEF RunType, Steps
    <3>3. retry \in RunType
      BY <3>1 DEF RunType, Steps, OpNames, TypeOK
    <3>4. ingest \in RunType
      BY <3>1 DEF RunType, Steps, OpNames
    <3> QED
      BY <3>1, <3>2, <3>3, <3>4
  <2>3. \E r \in {sync, again, retry, ingest} : run' = [run EXCEPT ![a] = r]
    BY <1>5 DEF Reconcile
  <2>1. RunOK
    BY <2>2, <2>3, BeginsType
  <2> QED
    BY <1>5, <2>1 DEF Reconcile, TypeOK
<1>6. ASSUME NEW ids \in SUBSET Clauses, Explained(a, ids)
      PROVE  TypeOK'
  <2>1. RunOK
    BY <1>6 DEF Explained, TypeOK, RunType, Steps, OpNames
  <2> QED
    BY <1>6, <2>1, DisturbedType DEF Explained, TypeOK
<1>7. ASSUME NEW replace \in BOOLEAN, Extract(a, replace)
      PROVE  TypeOK'
  <2>1. RunOK
    BY <1>7 DEF Extract, TypeOK, RunType, Steps, OpNames
  <2> QED
    BY <1>7, <2>1 DEF Extract, TypeOK
<1> QED
  BY <1>1, <1>2, <1>3, <1>4, <1>5, <1>6, <1>7 DEF Call

LEMMA CarryType ==
    ASSUME TypeOK, NEW a \in Actors, Carry(a)
    PROVE  /\ mark' \in Content
           /\ restr' \in [Clauses -> SUBSET Texts]
<1> DEFINE old(M, c) == {p[2] : p \in {q \in M : q[1] = c}}
           gives(M) == {p[2] : p \in M}
           takes(M) == {p[1] : p \in M}
<1>1. PICK M :
        /\ M \subseteq Clauses \X Clauses
        /\ mark' = [c \in Clauses |-> IF c \in takes(M) THEN text[c] ELSE mark[c]]
        /\ restr' = [c \in Clauses |->
                        IF c \in gives(M) THEN {}
                        ELSE restr[c] \cup UNION {restr[o] : o \in old(M, c)}]
  <2> DEFINE keep   == ClauseIds(run[a].content)
             takers == {c \in keep : text[c] # NoText /\ mark[c] # text[c]}
             donors == {c \in Clauses \ keep : text[c] # NoText /\ mark[c] = text[c]}
             matches(new, o) == new \in takers /\ o \in donors /\ text[new] = text[o]
             pairs == {p \in takers \X donors : matches(p[1], p[2])}
  <2>1. \E M \in SUBSET pairs :
          /\ mark' = [c \in Clauses |-> IF c \in takes(M) THEN text[c] ELSE mark[c]]
          /\ restr' = [c \in Clauses |->
                          IF c \in gives(M) THEN {}
                          ELSE restr[c] \cup UNION {restr[o] : o \in old(M, c)}]
    BY DEF Carry
  <2>2. pairs \subseteq Clauses \X Clauses
    BY DEF ClauseIds
  <2> QED
    BY <2>1, <2>2
<1>2. mark' \in Content
  BY <1>1 DEF TypeOK, Content
<1>3. ASSUME NEW c \in Clauses
      PROVE  UNION {restr[o] : o \in old(M, c)} \subseteq Texts
  BY <1>1 DEF TypeOK
<1> QED
  BY <1>1, <1>2, <1>3 DEF TypeOK

LEMMA IngestionType ==
    ASSUME TypeOK, NEW a \in Actors, Ingestion(a)
    PROVE  TypeOK'
<1> DEFINE RunOK == run' \in [Actors -> RunType]
<1> USE DEF graph
<1>0. run[a] \in RunType
  BY DEF TypeOK
<1>1. CASE Guard(a)
  <2>1. RunOK
    <3> DEFINE r == [run[a] EXCEPT !.at = "fetch",
                              !.unchanged = IF doc.stored /\ ~doc.incomplete /\ Restrictions
                                            THEN doc.hash ELSE 0]
    <3>1. r \in RunType
      BY <1>0 DEF RunType, Steps, TypeOK
    <3>2. run' = [run EXCEPT ![a] = r]
      BY <1>1 DEF Guard, TypeOK
    <3> QED
      BY <3>1, <3>2, BeginsType
  <2> QED
    BY <1>1, <2>1 DEF Guard, TypeOK
<1>2. CASE Fetch(a)
  <2>1. RunOK
    BY <1>2, DoneType DEF Fetch, TypeOK, RunType, Steps, ClauseIds
  <2> QED
    BY <1>2, <2>1 DEF Fetch, TypeOK
<1>3. CASE UpsertDocument(a)
  <2>1. RunOK
    BY <1>3, GotoType DEF UpsertDocument, Steps
  <2>2. run[a].hash \in Nat
    BY DEF TypeOK, RunType
  <2> QED
    BY <1>3, <2>1, <2>2 DEF UpsertDocument, TypeOK
<1>4. CASE Carry(a)
  <2>1. RunOK
    BY <1>4, GotoType DEF Carry, Steps
  <2> QED
    BY <1>4, <2>1, CarryType DEF Carry, TypeOK
<1>5. CASE Prune(a)
  <2>1. RunOK
    <3> DEFINE r == [run[a] EXCEPT !.at = "explain",
                              !.pruned = (({c \in Clauses : text[c] # NoText}
                                             \ ClauseIds(run[a].content)) # {})]
    <3>1. r \in RunType
      BY <1>0 DEF RunType, Steps, TypeOK
    <3>2. run' = [run EXCEPT ![a] = r]
      BY <1>5 DEF Prune, TypeOK
    <3> QED
      BY <3>1, <3>2, BeginsType
  <2> QED
    BY <1>5, <2>1 DEF Prune, TypeOK, Content
<1>6. ASSUME NEW c \in Clauses, UpsertClause(a, c)
      PROVE  TypeOK'
  <2>1. RunOK
    <3> DEFINE r == [run[a] EXCEPT !.todo = run[a].todo \ {c},
                              !.at = IF run[a].todo \ {c} = {}
                                     THEN IF run[a].replace THEN "carry" ELSE "explain"
                                     ELSE "clauses"]
    <3>1. r \in RunType
      BY <1>0 DEF RunType, Steps, TypeOK
    <3>2. run' = [run EXCEPT ![a] = r]
      BY <1>6 DEF UpsertClause, TypeOK
    <3> QED
      BY <3>1, <3>2, BeginsType
  <2>2. run[a].content[c] \in Texts \cup {NoText}
    BY DEF TypeOK, RunType, Content
  <2> QED
    BY <1>6, <2>1, <2>2 DEF UpsertClause, TypeOK, Content
<1>7. ASSUME NEW own \in SUBSET Clauses, Link(a, own)
      PROVE  TypeOK'
  <2>1. RunOK
    <3>1. run[a].replace \in BOOLEAN /\ run[a].failed \in SUBSET Clauses
      BY DEF TypeOK, RunType
    <3>2. ASSUME NEW replace \in BOOLEAN, NEW reuse \in BOOLEAN,
                 run' = [run EXCEPT ![a].at = "begin", ![a].replace = replace,
                                    ![a].reuse = reuse]
          PROVE  RunOK
      <4> DEFINE r == [run[a] EXCEPT !.at = "begin", !.replace = replace, !.reuse = reuse]
      <4>1. r \in RunType
        BY <1>0 DEF RunType, Steps
      <4>2. run' = [run EXCEPT ![a] = r]
        BY <3>2 DEF TypeOK
      <4> QED
        BY <4>1, <4>2, BeginsType
    <3>3. ASSUME NEW ids \in SUBSET Clauses,
                 run' = [run EXCEPT ![a].at = "begin", ![a].replace = FALSE,
                                    ![a].named = TRUE, ![a].ids = ids]
          PROVE  RunOK
      <4> DEFINE r == [run[a] EXCEPT !.at = "begin", !.replace = FALSE,
                                     !.named = TRUE, !.ids = ids]
      <4>1. r \in RunType
        BY <1>0 DEF RunType, Steps
      <4>2. run' = [run EXCEPT ![a] = r]
        BY <3>3 DEF TypeOK
      <4> QED
        BY <4>1, <4>2, BeginsType
    <3> HIDE DEF RunOK
    <3>4. CASE Done(a)
      BY <3>4, DoneType DEF RunOK
    <3> QED
      BY <1>7, <3>1, <3>2, <3>3, <3>4 DEF Link
  <2> QED
    BY <1>7, <2>1 DEF Link, TypeOK, Content
<1> QED
  BY <1>1, <1>2, <1>3, <1>4, <1>5, <1>6, <1>7 DEF Ingestion

LEMMA ExtractionType ==
    ASSUME TypeOK, NEW a \in Actors, Extraction(a)
    PROVE  TypeOK'
<1> DEFINE RunOK == run' \in [Actors -> RunType]
<1> USE DEF graph
<1>0. /\ run[a] \in RunType
      /\ run[a].bad \in SUBSET Clauses /\ run[a].clauses \in Content
      /\ \A c \in Clauses : run[a].clauses[c] \in Texts \cup {NoText}
  BY DEF TypeOK, RunType, Content
<1>1. CASE Forget(a)
  <2>1. RunOK
    BY <1>1, GotoType DEF Forget, Steps
  <2> QED
    BY <1>1, <2>1 DEF Forget, TypeOK, Content
<1>2. CASE Begin(a)
  <2>1. RunOK
    <3>1. ASSUME NEW replace \in BOOLEAN, NEW named \in BOOLEAN, NEW ids \in SUBSET Clauses,
                 NEW clauses \in Content,
                 run' = [run EXCEPT ![a].at = "mark", ![a].replace = replace,
                                    ![a].named = named, ![a].ids = ids,
                                    ![a].clauses = clauses]
          PROVE  RunOK
      <4> DEFINE r == [run[a] EXCEPT !.at = "mark", !.replace = replace, !.named = named,
                                     !.ids = ids, !.clauses = clauses]
      <4>1. r \in RunType
        BY <1>0 DEF RunType, Steps
      <4>2. run' = [run EXCEPT ![a] = r]
        BY <3>1 DEF TypeOK
      <4> QED
        BY <4>1, <4>2, BeginsType
    <3> HIDE DEF RunOK
    <3>2. CASE Done(a)
      BY <3>2, DoneType DEF RunOK
    <3>3. ASSUME NEW chosen \in SUBSET Clauses
          PROVE  [c \in Clauses |-> IF c \in chosen THEN text[c] ELSE NoText] \in Content
      BY DEF TypeOK, Content
    <3>4. /\ run[a].replace \in BOOLEAN /\ run[a].named \in BOOLEAN
          /\ run[a].reuse \in BOOLEAN
      BY <1>0 DEF RunType
    <3> DEFINE reads(chosen) ==
                 [c \in Clauses |-> IF c \in chosen THEN text[c] ELSE NoText]
    <3>5. \/ Done(a)
          \/ \E chosen \in SUBSET Clauses, replace, named \in BOOLEAN :
               run' = [run EXCEPT ![a].at = "mark", ![a].replace = replace,
                                  ![a].named = named, ![a].ids = chosen,
                                  ![a].clauses = reads(chosen)]
      <4> DEFINE present == {c \in Clauses : text[c] # NoText}
                 fresh   == {c \in present : mark[c] # text[c]}
                 reusing == run[a].reuse /\ run[a].replace /\ ~run[a].named /\ fresh # present
                 byIds   == reusing \/ run[a].named
                 picked  == IF reusing THEN fresh
                            ELSE IF run[a].named THEN present \cap run[a].ids ELSE present
      <4>1. \/ Done(a)
            \/ run' = [run EXCEPT ![a].at = "mark", ![a].replace = run[a].replace \/ byIds,
                                  ![a].named = byIds, ![a].ids = picked,
                                  ![a].clauses = reads(picked)]
        BY <1>2 DEF Begin
      <4>2. picked \in SUBSET Clauses
        OBVIOUS
      <4>3. byIds \in BOOLEAN /\ (run[a].replace \/ byIds) \in BOOLEAN
        BY <3>4
      <4> HIDE DEF picked, byIds, reads
      <4> QED
        BY <4>1, <4>2, <4>3
    <3>6. ASSUME NEW chosen \in SUBSET Clauses, NEW replace \in BOOLEAN, NEW named \in BOOLEAN,
                 run' = [run EXCEPT ![a].at = "mark", ![a].replace = replace,
                                    ![a].named = named, ![a].ids = chosen,
                                    ![a].clauses = reads(chosen)]
          PROVE  RunOK
      BY <3>1, <3>3, <3>6
    <3> QED
      BY <3>2, <3>5, <3>6
  <2>2. doc' = doc \/ Upsert(FALSE, {})
    BY <1>2 DEF Begin
  <2>3. restr' \in [Clauses -> SUBSET Texts]
    BY <1>2 DEF Begin, TypeOK
  <2> QED
    BY <1>2, <2>1, <2>2, <2>3, UpsertType DEF Begin, TypeOK
<1>3. CASE MarkIncomplete(a)
  <2>1. RunOK
    BY <1>3, GotoType DEF MarkIncomplete, Steps
  <2> QED
    BY <1>3, <2>1, UpsertType DEF MarkIncomplete, TypeOK
<1>4. CASE DeleteOld(a)
  <2>1. RunOK
    BY <1>4, GotoType DEF DeleteOld, Steps
  <2> QED
    BY <1>4, <2>1 DEF DeleteOld, TypeOK
<1>5. CASE MarkExtracted(a)
  <2>1. RunOK
    BY <1>5, GotoType DEF MarkExtracted, Steps
  <2>2. mark' \in Content
    BY <1>0, <1>5 DEF MarkExtracted, TypeOK, Content
  <2> QED
    BY <1>5, <2>1, <2>2 DEF MarkExtracted, TypeOK
<1>6. CASE Finish(a)
  <2>1. RunOK
    BY <1>6, DoneType DEF Finish
  <2> QED
    BY <1>0, <1>6, <2>1, UpsertType DEF Finish, TypeOK
<1>7. ASSUME NEW bad \in SUBSET Clauses, Llm(a, bad)
      PROVE  TypeOK'
  <2>1. RunOK
    <3> DEFINE r == [run[a] EXCEPT !.at = "delete", !.bad = bad,
                                   !.todo = ClauseIds(run[a].clauses) \ bad]
    <3>1. r \in RunType
      BY <1>0 DEF RunType, Steps, ClauseIds
    <3>2. run' = [run EXCEPT ![a] = r]
      BY <1>7 DEF Llm, TypeOK
    <3> QED
      BY <3>1, <3>2, BeginsType
  <2> QED
    BY <1>7, <2>1, DisturbedType DEF Llm, TypeOK
<1>8. ASSUME NEW c \in Clauses, WriteClause(a, c)
      PROVE  TypeOK'
  <2>1. RunOK
    <3> DEFINE r == [run[a] EXCEPT !.todo = run[a].todo \ {c},
                              !.at = IF run[a].todo \ {c} = {} THEN "extracted" ELSE "write"]
    <3>1. r \in RunType
      BY <1>0 DEF RunType, Steps, TypeOK
    <3>2. run' = [run EXCEPT ![a] = r]
      BY <1>8 DEF WriteClause, TypeOK
    <3> QED
      BY <3>1, <3>2, BeginsType
  <2>2. \A t : Extracted(t) \subseteq Texts
    BY LifecycleAssumption DEF LifecycleAssumption, Extracted
  <2> QED
    BY <1>8, <2>1, <2>2 DEF WriteClause, TypeOK
<1> QED
  BY <1>1, <1>2, <1>3, <1>4, <1>5, <1>6, <1>7, <1>8 DEF Extraction

LEMMA NextType == TypeOK /\ [Next]_vars => TypeOK'
<1> SUFFICES ASSUME TypeOK, [Next]_vars
             PROVE  TypeOK'
  OBVIOUS
<1>1. CASE Publish
  BY <1>1, EditionType, LifecycleAssumption DEF LifecycleAssumption, Publish, TypeOK, graph
<1>2. CASE Remove
  BY <1>2 DEF Remove, TypeOK, graph
<1>3. ASSUME NEW a \in Actors, Interrupt(a)
      PROVE  TypeOK'
  BY <1>3, IdleType, DisturbedType DEF Interrupt, TypeOK, Done, graph
<1>4. CASE UNCHANGED vars
  BY <1>4 DEF vars, graph, TypeOK
<1> QED
  BY <1>1, <1>2, <1>3, <1>4, CallType, IngestionType, ExtractionType DEF Next, IduDvd

(***************************************************************************)
(* Type correctness, for any clauses, texts and editions, any number of    *)
(* actors and any operations cut short anywhere.                           *)
(***************************************************************************)
THEOREM TypeCorrect == Spec => []TypeOK
<1>1. Init => TypeOK
  BY InitType
<1>2. TypeOK /\ [Next]_vars => TypeOK'
  BY NextType
<1> QED
  BY <1>1, <1>2, PTL DEF Spec

-----------------------------------------------------------------------------
(* What an extraction has read.  One actor alone - the worker of the queue - finds *)
(* the document as it read it, from the reading to the last restriction it writes. *)

OneActor == \A x, y \in Actors : x = y

ReadsOf(a) ==
    LET r == run[a]
    IN /\ r.at \in {"mark", "llm", "delete", "write"} =>
            \A c \in Clauses : r.clauses[c] # NoText => text[c] # NoText
       /\ r.at \in {"mark", "llm", "delete"} /\ ~r.named =>
            \A c \in Clauses : text[c] # NoText => r.clauses[c] # NoText
       /\ r.at \in {"delete", "write"} =>
            \A c \in r.todo : r.clauses[c] # NoText /\ c \notin r.bad

Reads == \A a \in Actors : ReadsOf(a)

(* Operations that have not read the clauses yet, or have written all they had. *)
LEMMA GotoAt ==
    ASSUME TypeOK, NEW a \in Actors, NEW step, Goto(a, step)
    PROVE  /\ run'[a].at = step
           /\ run'[a].clauses = run[a].clauses /\ run'[a].named = run[a].named
           /\ run'[a].bad = run[a].bad /\ run'[a].todo = run[a].todo
<1>1. run \in [Actors -> RunType] /\ run[a] \in RunType
  BY DEF TypeOK
<1>2. run'[a] = [run[a] EXCEPT !.at = step]
  BY <1>1 DEF Goto
<1> QED
  BY <1>1, <1>2 DEF RunType

LEMMA DoneAt ==
    ASSUME TypeOK, NEW a \in Actors, Done(a)
    PROVE  run'[a].at = "idle"
BY DEF TypeOK, Done, Idle

LEMMA BeforeReading ==
    ASSUME TypeOK, NEW a \in Actors,
           Call(a) \/ Ingestion(a) \/ Interrupt(a) \/ Forget(a) \/ MarkExtracted(a) \/ Finish(a)
    PROVE  run'[a].at \notin {"mark", "llm", "delete", "write"}
<1>0. run \in [Actors -> RunType]
  BY DEF TypeOK
<1>1. CASE Call(a)
  <2>1. CASE Delete(a)
    BY <2>1, <1>0 DEF Delete, Begins
  <2>2. CASE SyncProcessed(a) \/ SyncUpdated(a) \/ Backfill(a)
    <3>1. CASE SyncProcessed(a)
      BY <3>1, <1>0 DEF SyncProcessed, Idle
    <3>2. CASE SyncUpdated(a)
      BY <3>2, <1>0 DEF SyncUpdated, Idle
    <3>3. CASE Backfill(a)
      BY <3>3, <1>0 DEF Backfill, Idle
    <3> QED
      BY <2>2, <3>1, <3>2, <3>3
  <2>3. ASSUME NEW listed, Reconcile(a, listed)
        PROVE  run'[a].at \in {"guard", "fetch"}
    <3> DEFINE sync == [Idle EXCEPT !.op = "reconcile", !.at = "guard"]
               again == [sync EXCEPT !.at = "fetch", !.replace = TRUE]
               retry == [sync EXCEPT !.op = "retry", !.at = "fetch", !.replace = TRUE,
                                     !.failed = doc.failed]
               ingest == [sync EXCEPT !.op = "ingest", !.at = "fetch"]
    <3>1. \A r \in {sync, again, retry, ingest} : r.at \in {"guard", "fetch"}
      BY DEF Idle
    <3>2. \E r \in {sync, again, retry, ingest} : run' = [run EXCEPT ![a] = r]
      BY <2>3 DEF Reconcile
    <3> HIDE DEF sync, again, retry, ingest
    <3> QED
      BY <1>0, <3>1, <3>2
  <2>4. ASSUME NEW ids \in SUBSET Clauses, Explained(a, ids)
        PROVE  run'[a].at = "forget"
    BY <2>4, <1>0 DEF Explained, Idle
  <2>5. ASSUME NEW replace \in BOOLEAN, Extract(a, replace)
        PROVE  run'[a].at = "begin"
    BY <2>5, <1>0 DEF Extract, Idle
  <2> QED
    BY <1>1, <2>1, <2>2, <2>3, <2>4, <2>5 DEF Call
<1>2. CASE Ingestion(a)
  <2>1. CASE Guard(a)
    BY <2>1, <1>0 DEF Guard
  <2>2. CASE Fetch(a)
    BY <2>2, <1>0, DoneAt DEF Fetch, RunType
  <2>3. CASE UpsertDocument(a) \/ Carry(a)
    BY <2>3, GotoAt DEF UpsertDocument, Carry
  <2>4. CASE Prune(a)
    BY <2>4, <1>0 DEF Prune
  <2>5. ASSUME NEW c \in Clauses, UpsertClause(a, c)
        PROVE  run'[a].at \in {"carry", "explain", "clauses"}
    BY <2>5, <1>0 DEF UpsertClause
  <2>6. ASSUME NEW own \in SUBSET Clauses, Link(a, own)
        PROVE  run'[a].at \in {"begin", "idle"}
    <3>1. \/ Done(a)
          \/ \E replace, reuse : run' = [run EXCEPT ![a].at = "begin", ![a].replace = replace,
                                                    ![a].reuse = reuse]
          \/ \E ids : run' = [run EXCEPT ![a].at = "begin", ![a].replace = FALSE,
                                         ![a].named = TRUE, ![a].ids = ids]
      BY <2>6 DEF Link
    <3>2. CASE Done(a)
      BY <3>2, DoneAt
    <3>3. ASSUME NEW replace, NEW reuse,
                 run' = [run EXCEPT ![a].at = "begin", ![a].replace = replace,
                                    ![a].reuse = reuse]
          PROVE  run'[a].at = "begin"
      <4>1. run'[a] = [run[a] EXCEPT !.at = "begin", !.replace = replace, !.reuse = reuse]
        BY <1>0, <3>3
      <4>2. run[a] \in RunType
        BY <1>0
      <4> QED
        BY <4>1, <4>2 DEF RunType
    <3>4. ASSUME NEW ids,
                 run' = [run EXCEPT ![a].at = "begin", ![a].replace = FALSE,
                                    ![a].named = TRUE, ![a].ids = ids]
          PROVE  run'[a].at = "begin"
      <4>1. run'[a] = [run[a] EXCEPT !.at = "begin", !.replace = FALSE, !.named = TRUE,
                                     !.ids = ids]
        BY <1>0, <3>4
      <4>2. run[a] \in RunType
        BY <1>0
      <4> QED
        BY <4>1, <4>2 DEF RunType
    <3> QED
      BY <3>1, <3>2, <3>3, <3>4
  <2> QED
    BY <1>2, <2>1, <2>2, <2>3, <2>4, <2>5, <2>6 DEF Ingestion
<1>3. CASE Interrupt(a) \/ Forget(a) \/ MarkExtracted(a) \/ Finish(a)
  <2>1. CASE Interrupt(a) \/ Finish(a)
    BY <2>1, DoneAt DEF Interrupt, Finish
  <2>2. CASE Forget(a)
    BY <2>2, GotoAt DEF Forget
  <2>3. CASE MarkExtracted(a)
    BY <2>3, GotoAt DEF MarkExtracted
  <2> QED
    BY <1>3, <2>1, <2>2, <2>3
<1> QED
  BY <1>1, <1>2, <1>3

LEMMA BeginReads ==
    ASSUME TypeOK, NEW a \in Actors, Begin(a)
    PROVE  ReadsOf(a)'
<1> DEFINE present == {c \in Clauses : text[c] # NoText}
           fresh   == {c \in present : mark[c] # text[c]}
           reusing == run[a].reuse /\ run[a].replace /\ ~run[a].named /\ fresh # present
           byIds   == reusing \/ run[a].named
           picked  == IF reusing THEN fresh
                      ELSE IF run[a].named THEN present \cap run[a].ids ELSE present
           read    == [c \in Clauses |-> IF c \in picked THEN text[c] ELSE NoText]
<1>0. run \in [Actors -> RunType] /\ text' = text
  BY DEF TypeOK, Begin
<1>1. CASE Done(a)
  BY <1>0, <1>1 DEF Done, Idle, ReadsOf
<1>2. CASE run' = [run EXCEPT ![a].at = "mark", ![a].replace = run[a].replace \/ byIds,
                              ![a].named = byIds, ![a].ids = picked, ![a].clauses = read]
  <2>1. run'[a].at = "mark" /\ run'[a].named = byIds /\ run'[a].clauses = read
    <3>1. run'[a] = [run[a] EXCEPT !.at = "mark", !.replace = run[a].replace \/ byIds,
                                   !.named = byIds, !.ids = picked, !.clauses = read]
      BY <1>0, <1>2
    <3>2. run[a] \in RunType
      BY <1>0
    <3> HIDE DEF byIds, picked, read
    <3> QED
      BY <3>1, <3>2 DEF RunType
  <2>2. picked \subseteq present /\ (~byIds => picked = present)
    OBVIOUS
  <2> HIDE DEF picked, byIds
  <2> QED
    BY <1>0, <2>1, <2>2 DEF ReadsOf
<1> QED
  BY <1>1, <1>2 DEF Begin

LEMMA ReadsInductive == OneActor /\ TypeOK /\ Reads /\ [Next]_vars => Reads'
<1> SUFFICES ASSUME OneActor, TypeOK, Reads, [Next]_vars, NEW b \in Actors
             PROVE  ReadsOf(b)'
  BY DEF Reads
<1>0. run \in [Actors -> RunType] /\ ReadsOf(b)
  BY DEF TypeOK, Reads
<1>1. CASE UNCHANGED <<run, text>>
  BY <1>0, <1>1 DEF ReadsOf
<1>2. ASSUME NEW a \in Actors,
             Call(a) \/ Ingestion(a) \/ Interrupt(a) \/ Forget(a) \/ MarkExtracted(a) \/ Finish(a)
      PROVE  ReadsOf(b)'
  <2>1. a = b
    BY DEF OneActor
  <2> QED
    BY <1>2, <2>1, BeforeReading DEF ReadsOf
<1>3. ASSUME NEW a \in Actors, Begin(a)
      PROVE  ReadsOf(b)'
  BY <1>3, BeginReads DEF OneActor
<1>4. ASSUME NEW a \in Actors, MarkIncomplete(a)
      PROVE  ReadsOf(b)'
  <2>1. a = b
    BY DEF OneActor
  <2> QED
    BY <1>0, <1>4, <2>1 DEF MarkIncomplete, Goto, ReadsOf
<1>5. ASSUME NEW a \in Actors, NEW bad \in SUBSET Clauses, Llm(a, bad)
      PROVE  ReadsOf(b)'
  <2>1. a = b
    BY DEF OneActor
  <2>2. /\ run[b].at = "llm" /\ run'[b].at = "delete"
        /\ run'[b].clauses = run[b].clauses /\ run'[b].named = run[b].named
        /\ run'[b].bad = bad /\ run'[b].todo = ClauseIds(run[b].clauses) \ bad
    BY <1>0, <1>5, <2>1 DEF Llm, RunType
  <2> QED
    BY <1>0, <1>5, <2>2 DEF Llm, graph, ReadsOf, ClauseIds
<1>6. ASSUME NEW a \in Actors, DeleteOld(a)
      PROVE  ReadsOf(b)'
  <2>1. a = b
    BY DEF OneActor
  <2>2. /\ run[b].at = "delete" /\ run'[b].at \in {"finish", "write"}
        /\ run'[b].clauses = run[b].clauses /\ run'[b].named = run[b].named
        /\ run'[b].bad = run[b].bad /\ run'[b].todo = run[b].todo
    BY <1>0, <1>6, <2>1 DEF DeleteOld, Goto, RunType
  <2> QED
    BY <1>0, <1>6, <2>2 DEF DeleteOld, ReadsOf
<1>7. ASSUME NEW a \in Actors, NEW c \in Clauses, WriteClause(a, c)
      PROVE  ReadsOf(b)'
  <2>1. a = b
    BY DEF OneActor
  <2>2. /\ run[b].at = "write" /\ run'[b].at \in {"extracted", "write"}
        /\ run'[b].clauses = run[b].clauses
        /\ run'[b].bad = run[b].bad /\ run'[b].todo = run[b].todo \ {c}
    BY <1>0, <1>7, <2>1 DEF WriteClause, RunType
  <2> QED
    BY <1>0, <1>7, <2>2 DEF WriteClause, ReadsOf
<1>8. CASE Publish \/ Remove \/ UNCHANGED vars
  BY <1>1, <1>8 DEF Publish, Remove, vars, graph
<1> QED
  BY <1>2, <1>3, <1>4, <1>5, <1>6, <1>7, <1>8 DEF Next, IduDvd, Extraction

(* What a statement of the graph may take from a clause that stays. *)

LEMMA CarryKeeps ==
    ASSUME TypeOK, NEW a \in Actors, Carry(a), NEW c \in Clauses
    PROVE  \/ restr[c] \subseteq restr'[c]
           \/ \E o \in Clauses \ {c} : text[o] = text[c] /\ restr[c] \subseteq restr'[o]
<1> DEFINE old(M, d) == {p[2] : p \in {q \in M : q[1] = d}}
           gives(M) == {p[2] : p \in M}
           keep   == ClauseIds(run[a].content)
           takers == {d \in keep : text[d] # NoText /\ mark[d] # text[d]}
           donors == {d \in Clauses \ keep : text[d] # NoText /\ mark[d] = text[d]}
           matches(new, o) == new \in takers /\ o \in donors /\ text[new] = text[o]
           pairs == {p \in takers \X donors : matches(p[1], p[2])}
<1>1. PICK M \in SUBSET pairs :
        restr' = [d \in Clauses |-> IF d \in gives(M) THEN {}
                                    ELSE restr[d] \cup UNION {restr[o] : o \in old(M, d)}]
  BY DEF Carry
<1>2. CASE c \notin gives(M)
  BY <1>1, <1>2
<1>3. CASE c \in gives(M)
  <2>1. PICK p \in M : p[2] = c
    BY <1>3
  <2>2. /\ p[1] \in Clauses \ {c} /\ text[p[1]] = text[c]
        /\ p[1] \notin gives(M)
    BY <1>1, <2>1 DEF ClauseIds
  <2>3. c \in old(M, p[1])
    BY <2>1
  <2>4. restr[c] \subseteq restr'[p[1]]
    BY <1>1, <2>2, <2>3
  <2> QED
    BY <2>2, <2>4
<1> QED
  BY <1>2, <1>3

LEMMA KeptStep ==
    OneActor /\ TypeOK /\ Reads /\ [Next]_vars =>
        \A c \in Clauses :
            text'[c] # NoText /\ ~(restr[c] \subseteq restr'[c]) =>
               \/ \E a \in Actors : run[a].clauses[c] # NoText /\ c \notin run[a].bad
               \/ \E o \in Clauses \ {c} : text[o] = text[c] /\ restr[c] \subseteq restr'[o]
<1> SUFFICES ASSUME OneActor, TypeOK, Reads, [Next]_vars,
                    NEW c \in Clauses, text'[c] # NoText, ~(restr[c] \subseteq restr'[c])
             PROVE  \/ \E a \in Actors : run[a].clauses[c] # NoText /\ c \notin run[a].bad
                    \/ \E o \in Clauses \ {c} : text[o] = text[c] /\ restr[c] \subseteq restr'[o]
  OBVIOUS
<1>0. text \in [Clauses -> Texts \cup {NoText}] /\ restr \in [Clauses -> SUBSET Texts]
  BY DEF TypeOK, Content
<1>1. CASE Publish \/ Remove \/ UNCHANGED vars
  BY <1>1 DEF Publish, Remove, vars, graph
<1>2. ASSUME NEW a \in Actors, Call(a) \/ Interrupt(a)
      PROVE  FALSE
  <2>1. CASE Delete(a)
    BY <2>1 DEF Delete, Nothing
  <2>2. CASE ~Delete(a)
    BY <1>2, <2>2 DEF Call, SyncProcessed, SyncUpdated, Reconcile, Explained, Extract,
                      Backfill, Interrupt, graph
  <2> QED
    BY <2>1, <2>2
<1>3. ASSUME NEW a \in Actors, Ingestion(a)
      PROVE  \E o \in Clauses \ {c} : text[o] = text[c] /\ restr[c] \subseteq restr'[o]
  <2>1. CASE Prune(a)
    BY <1>0, <2>1 DEF Prune
  <2>2. CASE Carry(a)
    BY <2>2, CarryKeeps
  <2>3. CASE ~Prune(a) /\ ~Carry(a)
    BY <1>3, <2>3 DEF Ingestion, Guard, Fetch, UpsertDocument, UpsertClause, Link, graph
  <2> QED
    BY <2>1, <2>2, <2>3
<1>4. ASSUME NEW a \in Actors, Begin(a)
      PROVE  FALSE
  <2>1. CASE restr' = restr
    BY <2>1
  <2>2. CASE restr' # restr
    <3>1. {d \in Clauses : text[d] # NoText} = {} /\ text' = text
      BY <1>4, <2>2 DEF Begin
    <3> QED
      BY <3>1
  <2> QED
    BY <2>1, <2>2
<1>5. ASSUME NEW a \in Actors, DeleteOld(a)
      PROVE  run[a].clauses[c] # NoText /\ c \notin run[a].bad
  <2>1. ReadsOf(a) /\ run[a].at = "delete" /\ text' = text
    BY <1>5 DEF Reads, DeleteOld
  <2>2. \/ c \in run[a].todo
        \/ run[a].bad = {} /\ ~run[a].named
    BY <1>0, <1>5 DEF DeleteOld
  <2>3. CASE c \in run[a].todo
    BY <2>1, <2>3 DEF ReadsOf
  <2>4. CASE run[a].bad = {} /\ ~run[a].named
    BY <2>1, <2>4 DEF ReadsOf
  <2> QED
    BY <2>2, <2>3, <2>4
<1>6. ASSUME NEW a \in Actors, NEW d \in Clauses, WriteClause(a, d)
      PROVE  FALSE
  BY <1>0, <1>6 DEF WriteClause
<1>7. ASSUME NEW a \in Actors, Extraction(a), ~Begin(a), ~DeleteOld(a),
             \A d \in Clauses : ~WriteClause(a, d)
      PROVE  FALSE
  BY <1>7 DEF Extraction, Forget, MarkIncomplete, Llm, MarkExtracted, Finish, graph
<1> QED
  BY <1>1, <1>2, <1>3, <1>4, <1>5, <1>6, <1>7 DEF Next, IduDvd

(***************************************************************************)
(* With one actor - the queue's worker, which runs its jobs one after      *)
(* another - no operation, however it fails or is cut short, takes a       *)
(* restriction from a clause that stays, unless that clause has a valid    *)
(* result of the running extraction or another clause of the same text     *)
(* took it over (pipeline/service.py:275-292, writer.py:571-661).          *)
(***************************************************************************)
THEOREM NormsKept == OneActor => (Spec => LostOnlyToNewResult)
<1> SUFFICES ASSUME OneActor
             PROVE  Spec => LostOnlyToNewResult
  OBVIOUS
<1> DEFINE IInv == TypeOK /\ Reads
<1>1. Init => IInv
  BY InitType DEF Init, Reads, ReadsOf, Idle
<1>2. IInv /\ [Next]_vars => IInv'
  BY NextType, ReadsInductive
<1>3. IInv /\ [Next]_vars =>
        [\A c \in Clauses :
           text'[c] # NoText /\ ~(restr[c] \subseteq restr'[c]) =>
              \/ \E a \in Actors : run[a].clauses[c] # NoText /\ c \notin run[a].bad
              \/ \E o \in Clauses \ {c} : text[o] = text[c] /\ restr[c] \subseteq restr'[o]]_vars
  BY KeptStep
<1> QED
  BY <1>1, <1>2, <1>3, PTL DEF Spec, LostOnlyToNewResult

-----------------------------------------------------------------------------
(* A document that passes for unchanged is whole.  The invariant says how far an     *)
(* operation is with bringing the graph in line, and what the document's markers and *)
(* those of its clauses promise meanwhile; it is about the one actor there is.       *)

(* From when on an operation has read and written what. *)
Ingesting == {"clauses", "carry", "prune", "explain"}
Before == {"guard", "fetch", "document"} \cup Ingesting
Marked == {"llm", "delete", "write", "extracted", "finish"}
Extracting == {"mark"} \cup Marked

(* What the admin asks for. *)
AdminOps == {"extract", "reextract", "backfill"}

(* No operation is cut short between the statements that write its clauses. *)
ClausesUncut == \A op \in OpNames : "clauses" \notin InterruptedAt[op]

(* No operation is cut short where the markers do not tell what is missing. *)
Uncut ==
    /\ \A op \in OpNames : {"prune", "write"} \cap InterruptedAt[op] = {}
    /\ ClausesUncut \/ \A a \in Actors : Ops[a] \cap AdminOps = {}

(* A clause id has one text, whatever edition brings it. *)
HasWords(w) ==
    \A n \in 1..Len(Editions) : \A content \in Editions[n] :
        \A c \in Clauses : content[c] \in {NoText, w[c]}

StableTexts == \E w \in [Clauses -> Texts] : HasWords(w)

(* That text. *)
Words == CHOOSE w \in [Clauses -> Texts] : HasWords(w)

(* No document asks for the extraction of clauses of another one. *)
NoNamed == \A a \in Actors : "explained" \notin Ops[a]

-----------------------------------------------------------------------------
(* No event of a newer edition waits: what is stored is that of IDU_DVD, or becomes *)
(* it in the running operation.                                                     *)
Current == dvd.held /\ owed # "updated"

(* The running operation is the sync of the latest edition. *)
Behind(a) == owed = "none" /\ run[a].op = "updated"

(* The event of the first edition waits, or its sync runs. *)
Starting(a) == owed = "processed" \/ run[a].op = "processed"

(* The clause has the restrictions its text states, and no others. *)
Complete(c) == restr[c] = Extracted(text[c])

(* How an operation comes along. *)
Shape(a) ==
    LET r == run[a]
    IN /\ r.at # "forget"
       /\ (r.at = "idle") <=> (r.op = "none")
       /\ r.op # "explained"
       /\ r.op \in AdminOps => /\ r.at \notin Before /\ ClausesUncut
                               /\ r.at = "begin" => ~r.named
       /\ r.at \in Before => ~r.named
       /\ r.op = "updated" => /\ r.unchanged = 0 /\ r.at # "guard"
                              /\ r.at \in Before => r.replace
       /\ r.at \in Ingesting \cup {"document"} => r.hash # 0
       /\ r.at \in {"document", "clauses"} => r.todo \subseteq ClauseIds(r.content)
       /\ dvd.held => dvd.hash # 0 /\ ClauseIds(dvd.content) # {}
       /\ dvd.hash = 0 => /\ ~doc.stored /\ owed = "none"
                          /\ r.at = "idle" \/ r.op \in AdminOps

(* What the graph has of a clause. *)
Clean(a) ==
    LET r == run[a]
    IN /\ ~doc.stored => text = Nothing /\ ~doc.incomplete
       /\ r.at \in Ingesting \cup Extracting => doc.stored
       /\ r.at = "begin" => doc.stored \/ r.op \in AdminOps
       /\ \A c \in Clauses :
            /\ {text[c], dvd.content[c], r.content[c]} \subseteq {NoText, Words[c]}
            /\ text[c] = NoText => mark[c] = NoText
            /\ restr[c] \subseteq Extracted(text[c])
            /\ text[c] # NoText /\ mark[c] = text[c] =>
                 \/ Complete(c)
                 \/ (r.at = "prune" /\ r.content[c] = NoText)
                 \/ (r.at = "write" /\ c \in r.todo)

(* What an extraction has read, and what it has done of it. *)
Extracts(a) ==
    LET r == run[a]
        ids == ClauseIds(r.clauses)
    IN r.at \in Extracting =>
         /\ ids # {}
         /\ \A c \in ids : r.clauses[c] = text[c]
         /\ ~r.named /\ r.at \in {"mark", "llm", "delete"} =>
              \A c \in Clauses \ ids : text[c] = NoText
         /\ r.at \in Marked => doc.incomplete /\ doc.failed = {}
         /\ r.at = "delete" => r.bad \subseteq ids /\ r.todo = ids \ r.bad
         /\ r.at = "write" => r.todo \subseteq ids \ r.bad
         /\ r.at \in {"extracted", "finish"} => r.todo = {}
         /\ r.at \in {"write", "extracted", "finish"} =>
              \A c \in (ids \ r.bad) \ r.todo : Complete(c)
         /\ Current => \A c \in Clauses \ ids : Complete(c)

(* How far the clauses are those of the edition. *)
Texted(a) ==
    LET r == run[a]
    IN Current =>
         /\ r.at \in {"document"} \cup Ingesting => r.content = dvd.content
         /\ r.at \in {"document", "clauses", "carry", "prune"} =>
              \A c \in ClauseIds(dvd.content) :
                 \/ text[c] = dvd.content[c]
                 \/ r.at \in {"document", "clauses"} /\ c \in r.todo
         /\ r.at \in {"explain", "begin"} \cup Extracting /\ doc.stored => text = dvd.content
         /\ ~Behind(a) =>
              /\ \A c \in Clauses : text[c] # NoText => dvd.content[c] # NoText
              /\ Starting(a) \/ doc.stored
              /\ doc.stored /\ text # dvd.content =>
                    /\ Starting(a) /\ ~Restrictions /\ ~doc.incomplete
                    /\ r.at = "clauses" \/ ~ClausesUncut

(* What the markers of the document say. *)
Marks(a) ==
    LET r == run[a]
    IN Current =>
         /\ r.at = "begin" /\ r.named => \A c \in Clauses \ r.ids : Complete(c)
         /\ ~Behind(a) =>
              /\ doc.stored /\ ~doc.incomplete /\ (Restrictions \/ ~Starting(a)) =>
                    \A c \in Clauses : Complete(c)
              /\ doc.incomplete /\ doc.failed # {} =>
                    \A c \in Clauses \ doc.failed : Complete(c)
              /\ r.op = "retry" /\ r.at \in Before =>
                    /\ doc.incomplete
                    /\ r.failed # {} => \A c \in Clauses \ r.failed : Complete(c)
              /\ r.at \in Before /\ r.unchanged # 0 =>
                    doc.stored /\ ~doc.incomplete /\ Restrictions

(* The invariant, of one actor. *)
Tracks(a) == Shape(a) /\ Clean(a) /\ Extracts(a) /\ Texted(a) /\ Marks(a)

LEMMA WordsOfEditions ==
    ASSUME StableTexts
    PROVE  /\ Words \in [Clauses -> Texts]
           /\ \A n \in 1..Len(Editions) : \A content \in Editions[n] :
                 \A c \in Clauses : content[c] \in {NoText, Words[c]}
BY DEF StableTexts, Words, HasWords

LEMMA NothingExtracted == Extracted(NoText) = {}
BY LifecycleAssumption DEF LifecycleAssumption, Extracted

(* An operation begins: it finds the document at rest. *)
LEMMA StartsTrack ==
    ASSUME TypeOK, NEW a \in Actors, Tracks(a), run[a].at = "idle",
           UNCHANGED <<dvd, doc, text, mark, restr>>,
           NEW rec \in RunType, run' = [run EXCEPT ![a] = rec],
           rec.op \in OpNames \ {"explained"}, ~rec.named, rec.unchanged = 0,
           rec.content = Nothing,
           rec.at \in {"guard", "fetch", "begin"},
           rec.at = "begin" <=> rec.op \in AdminOps,
           rec.op \in AdminOps => ClausesUncut,
           rec.op = "updated" => rec.at = "fetch" /\ rec.replace,
           rec.op = "retry" => doc.incomplete /\ rec.failed = doc.failed,
           dvd.hash # 0 \/ rec.op \in AdminOps,
           \/ owed' = owed /\ rec.op \notin {"processed", "updated"}
           \/ owed = rec.op /\ owed' = "none" /\ rec.op \in {"processed", "updated"}
    PROVE  Tracks(a)'
<1> USE DEF Tracks, Before, Ingesting, Extracting, Marked, AdminOps
<1>0. run'[a] = rec
  BY DEF TypeOK
<1>1. Shape(a)'
  BY <1>0 DEF Shape, OpNames
<1>2. Clean(a)'
  <2>1. \A c \in Clauses : rec.content[c] = NoText
    BY DEF Nothing
  <2> QED
    BY <1>0, <2>1 DEF Clean, Complete, Shape
<1>3. Extracts(a)'
  BY <1>0 DEF Extracts
<1>4. run[a].op = "none" /\ ~Behind(a)
  BY DEF Shape, Behind
<1>5. Current' => Current \/ rec.op = "updated"
  BY DEF Current
<1>6. rec.op = "updated" => Behind(a)'
  BY <1>0 DEF Behind, OpNames
<1>7. CASE rec.op = "updated"
  <2>1. rec.at = "fetch"
    BY <1>7
  <2> QED
    BY <1>0, <1>1, <1>2, <1>3, <1>6, <1>7, <2>1 DEF Texted, Marks
<1>8. CASE rec.op # "updated"
  <2>1. ~Behind(a)' /\ (Starting(a)' <=> Starting(a)) /\ (Current' => Current)
    BY <1>0, <1>4, <1>5, <1>8 DEF Behind, Starting
  <2>2. Texted(a)'
    BY <1>0, <1>4, <2>1 DEF Texted, Restrictions, Clean
  <2>3. Marks(a)'
    BY <1>0, <1>4, <2>1 DEF Marks, Restrictions, Complete
  <2> QED
    BY <1>1, <1>2, <1>3, <2>2, <2>3
<1> QED
  BY <1>7, <1>8

LEMMA CallTracks ==
    ASSUME TypeOK, Uncut, NoNamed, NEW a \in Actors, Tracks(a), Call(a)
    PROVE  Tracks(a)'
<1> USE IdleType DEF graph
<1>1. CASE SyncProcessed(a)
  <2> DEFINE rec == [Idle EXCEPT !.op = "processed", !.at = "guard"]
  <2>1. rec \in RunType
    BY DEF RunType, Steps, OpNames
  <2>2. /\ rec.op = "processed" /\ rec.at = "guard" /\ ~rec.named /\ rec.unchanged = 0
        /\ rec.content = Nothing
    BY DEF Idle
  <2>3. /\ run' = [run EXCEPT ![a] = rec] /\ run[a].at = "idle"
        /\ owed = "processed" /\ owed' = "none"
        /\ UNCHANGED <<dvd, doc, text, mark, restr>>
    BY <1>1 DEF SyncProcessed, Begins
  <2>4. dvd.hash # 0
    BY <2>3 DEF Tracks, Shape
  <2> HIDE DEF rec
  <2> QED
    BY <2>1, <2>2, <2>3, <2>4, StartsTrack DEF OpNames, AdminOps
<1>2. CASE SyncUpdated(a)
  <2> DEFINE rec == [Idle EXCEPT !.op = "updated", !.at = "fetch", !.replace = TRUE]
  <2>1. rec \in RunType
    BY DEF RunType, Steps, OpNames
  <2>2. /\ rec.op = "updated" /\ rec.at = "fetch" /\ ~rec.named /\ rec.unchanged = 0
        /\ rec.content = Nothing /\ rec.replace
    BY DEF Idle
  <2>3. /\ run' = [run EXCEPT ![a] = rec] /\ run[a].at = "idle"
        /\ owed = "updated" /\ owed' = "none"
        /\ UNCHANGED <<dvd, doc, text, mark, restr>>
    BY <1>2 DEF SyncUpdated, Begins
  <2>4. dvd.hash # 0
    BY <2>3 DEF Tracks, Shape
  <2> HIDE DEF rec
  <2> QED
    BY <2>1, <2>2, <2>3, <2>4, StartsTrack DEF OpNames, AdminOps
<1>3. ASSUME NEW rec \in RunType, rec.op \in AdminOps \cap Ops[a], rec.at = "begin",
             ~rec.named, rec.unchanged = 0, rec.content = Nothing,
             run[a].at = "idle", run' = [run EXCEPT ![a] = rec],
             UNCHANGED <<dvd, owed, doc, text, mark, restr>>
      PROVE  Tracks(a)'
  <2>1. ClausesUncut
    BY <1>3 DEF Uncut
  <2> QED
    BY <1>3, <2>1, StartsTrack DEF OpNames, AdminOps
<1>4. CASE Backfill(a)
  <2> DEFINE rec == [Idle EXCEPT !.op = "backfill", !.at = "begin"]
  <2>1. rec \in RunType
    BY DEF RunType, Steps, OpNames
  <2>2. /\ rec.op = "backfill" /\ rec.at = "begin" /\ ~rec.named /\ rec.unchanged = 0
        /\ rec.content = Nothing
    BY DEF Idle
  <2>3. /\ run' = [run EXCEPT ![a] = rec] /\ run[a].at = "idle" /\ "backfill" \in Ops[a]
        /\ UNCHANGED <<dvd, owed, doc, text, mark, restr>>
    BY <1>4 DEF Backfill, Begins
  <2> HIDE DEF rec
  <2> QED
    BY <1>3, <2>1, <2>2, <2>3 DEF AdminOps
<1>5. ASSUME NEW replace \in BOOLEAN, Extract(a, replace)
      PROVE  Tracks(a)'
  <2> DEFINE op  == IF replace THEN "reextract" ELSE "extract"
             rec == [Idle EXCEPT !.op = op, !.at = "begin", !.replace = replace]
  <2>1. rec \in RunType
    BY DEF RunType, Steps, OpNames
  <2>2. /\ rec.op = op /\ rec.at = "begin" /\ ~rec.named /\ rec.unchanged = 0
        /\ rec.content = Nothing
    BY DEF Idle
  <2>3. /\ run' = [run EXCEPT ![a] = rec] /\ run[a].at = "idle" /\ op \in Ops[a]
        /\ UNCHANGED <<dvd, owed, doc, text, mark, restr>>
    BY <1>5 DEF Extract, Begins
  <2> HIDE DEF rec
  <2> QED
    BY <1>3, <2>1, <2>2, <2>3 DEF AdminOps
<1>6. ASSUME NEW ids \in SUBSET Clauses, Explained(a, ids)
      PROVE  Tracks(a)'
  BY <1>6 DEF Explained, Begins, NoNamed
<1>7. ASSUME NEW listed \in 1..dvd.hash, Reconcile(a, listed)
      PROVE  Tracks(a)'
  <2> DEFINE sync == [Idle EXCEPT !.op = "reconcile", !.at = "guard"]
             again == [sync EXCEPT !.at = "fetch", !.replace = TRUE]
             retry == [sync EXCEPT !.op = "retry", !.at = "fetch", !.replace = TRUE,
                                   !.failed = doc.failed]
             ingest == [sync EXCEPT !.op = "ingest", !.at = "fetch"]
             plain(r) == /\ r \in RunType /\ ~r.named /\ r.unchanged = 0 /\ r.content = Nothing
                         /\ r.op \in {"reconcile", "retry", "ingest"} /\ r.at \in {"guard", "fetch"}
  <2>1. plain(sync) /\ sync.op = "reconcile"
    BY DEF Idle, RunType, Steps, OpNames
  <2> HIDE DEF sync
  <2>2. plain(again) /\ again.op = "reconcile"
    BY <2>1 DEF RunType, Steps
  <2>3. plain(retry) /\ retry.op = "retry" /\ retry.failed = doc.failed
    BY <2>1 DEF RunType, Steps, OpNames, TypeOK
  <2>4. plain(ingest) /\ ingest.op = "ingest"
    BY <2>1 DEF RunType, Steps, OpNames
  <2> HIDE DEF again, retry, ingest
  <2>5. PICK rec \in {sync, again, retry, ingest} :
          /\ run' = [run EXCEPT ![a] = rec]
          /\ rec = retry => doc.incomplete
    <3>1. \/ run' = [run EXCEPT ![a] = sync]
          \/ run' = [run EXCEPT ![a] = again]
          \/ run' = [run EXCEPT ![a] = retry] /\ doc.incomplete
          \/ run' = [run EXCEPT ![a] = ingest] /\ ~doc.incomplete
      BY <1>7 DEF Reconcile, sync, again, retry, ingest
    <3>2. retry # sync /\ retry # again /\ retry # ingest
      BY <2>1, <2>2, <2>3, <2>4
    <3> QED
      BY <3>1, <3>2
  <2>6. plain(rec) /\ (rec.op = "retry" => doc.incomplete /\ rec.failed = doc.failed)
    BY <2>1, <2>2, <2>3, <2>4, <2>5
  <2>7. dvd.hash # 0
    BY DEF TypeOK
  <2>8. run[a].at = "idle" /\ UNCHANGED <<dvd, owed, doc, text, mark, restr>>
    BY <1>7 DEF Reconcile, Begins
  <2> QED
    BY <2>5, <2>6, <2>7, <2>8, StartsTrack DEF OpNames, AdminOps
<1>8. CASE Delete(a)
  <2>1. run' = run /\ dvd' = dvd /\ owed' = owed /\ ~dvd.held /\ run[a].at = "idle"
        /\ doc' = NoDocument /\ text' = Nothing /\ mark' = Nothing
    BY <1>8 DEF Delete, Begins
  <2>2. \A c \in Clauses : restr'[c] = {} /\ text'[c] = NoText /\ mark'[c] = NoText
    BY <1>8, NothingExtracted DEF Delete, Nothing, Tracks, Clean
  <2>3. ~doc'.stored /\ ~doc'.incomplete
    BY <2>1 DEF NoDocument
  <2>4. Clean(a)'
    BY <2>1, <2>2, <2>3 DEF Tracks, Clean, Extracting, Marked, Ingesting
  <2>5. Shape(a)'
    BY <2>1, <2>3 DEF Tracks, Shape
  <2> QED
    BY <2>1, <2>4, <2>5 DEF Tracks, Extracts, Texted, Marks, Current, Extracting, Marked
<1> QED
  BY <1>1, <1>2, <1>4, <1>5, <1>6, <1>7, <1>8 DEF Call

(* IDU_DVD changes the document, or an operation is cut short. *)
LEMMA PublishTracks ==
    ASSUME TypeOK, Consumed, StableTexts, NEW a \in Actors, Tracks(a), Publish
    PROVE  Tracks(a)'
<1> USE DEF Tracks
<1>1. /\ run' = run /\ doc' = doc /\ text' = text /\ mark' = mark /\ restr' = restr
      /\ dvd'.held /\ dvd'.hash # 0
      /\ owed' = IF dvd.hash = 0 THEN "processed" ELSE "updated"
  <2>1. dvd.hash \in Nat
    BY DEF TypeOK
  <2> QED
    BY <2>1 DEF Publish, graph
<1>2. \A c \in Clauses : dvd'.content[c] \in {NoText, Words[c]}
  BY WordsOfEditions, LifecycleAssumption DEF Publish, LifecycleAssumption, TypeOK
<1>3. Clean(a)'
  BY <1>1, <1>2 DEF Clean, Complete
<1>4. Shape(a)'
  <2>1. ClauseIds(dvd'.content) # {}
    BY LifecycleAssumption DEF Publish, LifecycleAssumption, ClauseIds, TypeOK
  <2> QED
    BY <1>1, <2>1 DEF Shape
<1>5. CASE dvd.hash # 0
  <2>1. ~Current'
    BY <1>1, <1>5 DEF Current
  <2>2. Extracts(a)'
    BY <1>1, <2>1 DEF Extracts, Complete
  <2> QED
    BY <1>3, <1>4, <2>1, <2>2 DEF Texted, Marks
<1>6. CASE dvd.hash = 0
  <2>1. /\ ~doc.stored /\ run[a].at \in {"idle", "begin"} /\ (run[a].at = "begin" => ~run[a].named)
        /\ run[a].op # "updated"
    <3>1. run[a].at \in Steps \cup {"idle"}
      BY DEF TypeOK, RunType
    <3>2. ~doc.stored /\ (run[a].at = "idle" \/ run[a].op \in AdminOps)
      BY <1>6 DEF Shape
    <3>3. run[a].at \notin Extracting \cup {"forget"}
      BY <3>2 DEF Clean, Shape
    <3>4. /\ run[a].at = "idle" => run[a].op = "none"
          /\ run[a].op \in AdminOps => /\ run[a].at \notin Before
                                       /\ run[a].at = "begin" => ~run[a].named
      BY DEF Shape
    <3>5. run[a].at \notin Before /\ run[a].op # "updated" /\ (run[a].at = "begin" => ~run[a].named)
      BY <3>2, <3>4 DEF AdminOps, Before, Ingesting
    <3> QED
      BY <3>1, <3>2, <3>3, <3>5 DEF Steps, Extracting, Marked, Before, Ingesting
  <2>2. ~doc.incomplete /\ \A c \in Clauses : text[c] = NoText
    BY <2>1 DEF Clean, Nothing
  <2>3. Starting(a)'
    BY <1>1, <1>6 DEF Starting
  <2>4. Extracts(a)'
    BY <1>1, <2>1 DEF Extracts, Extracting, Marked
  <2>5. Texted(a)'
    BY <1>1, <2>1, <2>2, <2>3 DEF Texted, Ingesting
  <2>6. Marks(a)'
    BY <1>1, <2>1, <2>2, <2>3 DEF Marks, Before, Ingesting
  <2> QED
    BY <1>3, <1>4, <2>4, <2>5, <2>6
<1> QED
  BY <1>5, <1>6

LEMMA RemoveTracks ==
    ASSUME TypeOK, NEW a \in Actors, Tracks(a), Remove
    PROVE  Tracks(a)'
<1>1. /\ run' = run /\ doc' = doc /\ text' = text /\ mark' = mark /\ restr' = restr
      /\ owed' = owed /\ ~dvd'.held /\ dvd'.hash = dvd.hash /\ dvd'.content = dvd.content
      /\ dvd.held
  BY DEF Remove, graph, TypeOK
<1> QED
  BY <1>1 DEF Tracks, Shape, Clean, Extracts, Texted, Marks, Current, Complete

LEMMA InterruptTracks ==
    ASSUME TypeOK, Uncut, NEW a \in Actors, Tracks(a), Interrupt(a)
    PROVE  Tracks(a)'
<1> USE DEF Tracks
<1>1. /\ run'[a] = Idle
      /\ dvd' = dvd /\ doc' = doc /\ text' = text /\ mark' = mark /\ restr' = restr
      /\ owed' = IF owed = "none" /\ run[a].op \in {"processed", "updated"}
                 THEN run[a].op ELSE owed
  BY DEF Interrupt, Done, TypeOK, graph
<1>2. Idle.at = "idle" /\ Idle.op = "none" /\ Idle.content = Nothing
  BY DEF Idle
<1>3. run[a].at \notin {"prune", "write"} /\ (run[a].at = "clauses" => ~ClausesUncut)
  <2>1. run[a].op \in OpNames /\ run[a].at \in InterruptedAt[run[a].op]
    BY DEF Interrupt, Shape, TypeOK, RunType
  <2> QED
    BY <2>1 DEF Uncut, ClausesUncut
<1>4. Shape(a)'
  <2>1. dvd.hash = 0 => owed' = "none"
    BY <1>1 DEF Shape, AdminOps
  <2> QED
    BY <1>1, <1>2, <2>1 DEF Shape, Before, Ingesting, AdminOps
<1>5. Clean(a)'
  <2>1. \A c \in Clauses : Nothing[c] = NoText
    BY DEF Nothing
  <2> QED
    BY <1>1, <1>2, <1>3, <2>1 DEF Clean, Complete, Ingesting, Extracting, Marked
<1>6. Extracts(a)'
  BY <1>1, <1>2 DEF Extracts, Extracting, Marked
<1>7. Current' => Current /\ ~Behind(a) /\ ~Behind(a)' /\ (Starting(a) <=> Starting(a)')
  BY <1>1, <1>2 DEF Current, Behind, Starting, TypeOK
<1>8. Texted(a)'
  BY <1>1, <1>2, <1>3, <1>7 DEF Texted, Restrictions, Ingesting, Extracting, Marked
<1>9. Marks(a)'
  BY <1>1, <1>2, <1>7 DEF Marks, Restrictions, Complete, Before, Ingesting
<1> QED
  BY <1>4, <1>5, <1>6, <1>8, <1>9

LEMMA GotoLocal ==
    ASSUME TypeOK, NEW a \in Actors, NEW step, Goto(a, step)
    PROVE  /\ run'[a].at = step
           /\ run'[a].op = run[a].op /\ run'[a].replace = run[a].replace
           /\ run'[a].reuse = run[a].reuse /\ run'[a].named = run[a].named
           /\ run'[a].ids = run[a].ids /\ run'[a].unchanged = run[a].unchanged
           /\ run'[a].failed = run[a].failed /\ run'[a].hash = run[a].hash
           /\ run'[a].content = run[a].content /\ run'[a].pruned = run[a].pruned
           /\ run'[a].clauses = run[a].clauses /\ run'[a].bad = run[a].bad
           /\ run'[a].todo = run[a].todo
<1>1. run \in [Actors -> RunType] /\ run[a] \in RunType
  BY DEF TypeOK
<1>2. run'[a] = [run[a] EXCEPT !.at = step]
  BY <1>1 DEF Goto
<1> QED
  BY <1>1, <1>2 DEF RunType

LEMMA DoneLocal ==
    ASSUME TypeOK, NEW a \in Actors, Done(a)
    PROVE  run'[a].at = "idle" /\ run'[a].op = "none" /\ run'[a].content = Nothing
BY DEF TypeOK, Done, Idle

(* The reads of an ingestion. *)
LEMMA GuardTracks ==
    ASSUME TypeOK, NEW a \in Actors, Tracks(a), Guard(a)
    PROVE  Tracks(a)'
<1> USE DEF Tracks, Before, Ingesting, Extracting, Marked
<1>1. /\ run[a].at = "guard"
      /\ dvd' = dvd /\ owed' = owed /\ doc' = doc /\ text' = text /\ mark' = mark /\ restr' = restr
  BY DEF Guard, graph
<1>2. /\ run'[a].at = "fetch" /\ run'[a].op = run[a].op /\ run'[a].replace = run[a].replace
      /\ run'[a].named = run[a].named /\ run'[a].failed = run[a].failed
      /\ run'[a].content = run[a].content
      /\ run'[a].unchanged = IF doc.stored /\ ~doc.incomplete /\ Restrictions THEN doc.hash ELSE 0
  <2>1. run \in [Actors -> RunType] /\ run[a] \in RunType
    BY DEF TypeOK
  <2>2. run'[a] = [run[a] EXCEPT !.at = "fetch",
                       !.unchanged = IF doc.stored /\ ~doc.incomplete /\ Restrictions
                                     THEN doc.hash ELSE 0]
    BY <2>1 DEF Guard
  <2> QED
    BY <2>1, <2>2 DEF RunType
<1>3. Shape(a)'
  BY <1>1, <1>2 DEF Shape, AdminOps
<1>4. Clean(a)' /\ Extracts(a)'
  BY <1>1, <1>2 DEF Clean, Extracts, Complete
<1>5. (Behind(a)' <=> Behind(a)) /\ (Starting(a)' <=> Starting(a)) /\ (Current' <=> Current)
  BY <1>1, <1>2 DEF Behind, Starting, Current
<1>6. Texted(a)'
  BY <1>1, <1>2, <1>5 DEF Texted, Restrictions
<1>7. Marks(a)'
  BY <1>1, <1>2, <1>5 DEF Marks, Restrictions, Complete
<1> QED
  BY <1>3, <1>4, <1>6, <1>7

LEMMA FetchTracks ==
    ASSUME TypeOK, NEW a \in Actors, Tracks(a), Fetch(a)
    PROVE  Tracks(a)'
<1> USE DEF Tracks, Before, Ingesting, Extracting, Marked
<1>1. /\ run[a].at = "fetch"
      /\ dvd' = dvd /\ owed' = owed /\ doc' = doc /\ text' = text /\ mark' = mark /\ restr' = restr
  BY DEF Fetch, graph
<1>2. CASE ~dvd.held
  <2>1. run'[a].at = "idle" /\ run'[a].op = "none" /\ run'[a].content = Nothing
    BY <1>2, DoneLocal DEF Fetch
  <2>2. Shape(a)'
    BY <1>1, <2>1 DEF Shape, AdminOps
  <2>3. Clean(a)'
    BY <1>1, <2>1, IdleType DEF Clean, Complete
  <2> QED
    BY <1>1, <1>2, <2>1, <2>2, <2>3 DEF Extracts, Texted, Marks, Current
<1>3. CASE dvd.held
  <2>1. /\ run'[a].at = "document" /\ run'[a].op = run[a].op /\ run'[a].replace = run[a].replace
        /\ run'[a].named = run[a].named /\ run'[a].failed = run[a].failed
        /\ run'[a].content = dvd.content /\ run'[a].hash = dvd.hash
        /\ run'[a].todo = ClauseIds(dvd.content)
        /\ run'[a].unchanged = run[a].unchanged
    <3>1. run \in [Actors -> RunType] /\ run[a] \in RunType
      BY DEF TypeOK
    <3>2. run'[a] = [run[a] EXCEPT !.at = "document", !.hash = dvd.hash,
                         !.content = dvd.content, !.todo = ClauseIds(dvd.content)]
      BY <1>3, <3>1 DEF Fetch
    <3> QED
      BY <3>1, <3>2 DEF RunType
  <2>2. Shape(a)'
    BY <1>1, <1>3, <2>1 DEF Shape, AdminOps
  <2>3. Clean(a)'
    BY <1>1, <2>1 DEF Clean, Complete
  <2>4. Extracts(a)'
    BY <2>1 DEF Extracts
  <2>5. (Behind(a)' <=> Behind(a)) /\ (Starting(a)' <=> Starting(a)) /\ (Current' <=> Current)
    BY <1>1, <2>1 DEF Behind, Starting, Current
  <2>6. Texted(a)'
    BY <1>1, <2>1, <2>5 DEF Texted, Restrictions
  <2>7. Marks(a)'
    BY <1>1, <2>1, <2>5 DEF Marks, Restrictions, Complete
  <2> QED
    BY <2>2, <2>3, <2>4, <2>6, <2>7
<1> QED
  BY <1>2, <1>3

LEMMA UpsertDocumentTracks ==
    ASSUME TypeOK, NEW a \in Actors, Tracks(a), UpsertDocument(a)
    PROVE  Tracks(a)'
<1> USE DEF Tracks, Before, Ingesting, Extracting, Marked
<1>1. /\ run[a].at = "document"
      /\ dvd' = dvd /\ owed' = owed /\ text' = text /\ mark' = mark /\ restr' = restr
      /\ doc'.stored /\ doc'.incomplete = doc.incomplete /\ doc'.failed = doc.failed
  BY DEF UpsertDocument, TypeOK
<1>2. /\ run'[a].at = "clauses" /\ run'[a].op = run[a].op /\ run'[a].replace = run[a].replace
      /\ run'[a].named = run[a].named /\ run'[a].failed = run[a].failed
      /\ run'[a].content = run[a].content /\ run'[a].hash = run[a].hash
      /\ run'[a].todo = run[a].todo /\ run'[a].unchanged = run[a].unchanged
  BY GotoLocal DEF UpsertDocument
<1>3. ~doc.stored => ~Restrictions /\ ~doc.incomplete
  BY NothingExtracted DEF Clean, Restrictions, Nothing
<1>4. Shape(a)'
  BY <1>1, <1>2 DEF Shape, AdminOps
<1>5. Clean(a)'
  BY <1>1, <1>2 DEF Clean, Complete
<1>6. Extracts(a)'
  BY <1>2 DEF Extracts
<1>7. (Behind(a)' <=> Behind(a)) /\ (Starting(a)' <=> Starting(a)) /\ (Current' <=> Current)
  BY <1>1, <1>2 DEF Behind, Starting, Current
<1>8. Texted(a)'
  BY <1>1, <1>2, <1>3, <1>7 DEF Texted, Restrictions
<1>9. Marks(a)'
  BY <1>1, <1>2, <1>3, <1>7 DEF Marks, Texted, Restrictions, Complete
<1> QED
  BY <1>4, <1>5, <1>6, <1>8, <1>9

(* The writes of an ingestion.  Unless a newer edition is being taken in, a document *)
(* that has been extracted has its clauses already.                                  *)
LEMMA TextStays ==
    ASSUME NEW a \in Actors, Tracks(a), Current, ~Behind(a), doc.stored,
           Restrictions \/ doc.incomplete \/ ~Starting(a)
    PROVE  text = dvd.content
BY DEF Tracks, Texted

LEMMA UpsertClauseTracks ==
    ASSUME TypeOK, NEW a \in Actors, Tracks(a), NEW c \in Clauses, UpsertClause(a, c)
    PROVE  Tracks(a)'
<1> USE DEF Tracks, Before, Ingesting, Extracting, Marked
<1>0. run[a].at = "clauses" /\ c \in run[a].todo /\ doc.stored
  BY DEF UpsertClause, Clean
<1>1. /\ dvd' = dvd /\ owed' = owed /\ doc' = doc /\ mark' = mark /\ restr' = restr
      /\ text' = [text EXCEPT ![c] = run[a].content[c]]
  BY <1>0 DEF UpsertClause
<1>2. /\ run'[a].at = IF run[a].todo \ {c} = {} THEN IF run[a].replace THEN "carry" ELSE "explain"
                      ELSE "clauses"
      /\ run'[a].op = run[a].op /\ run'[a].replace = run[a].replace
      /\ run'[a].named = run[a].named /\ run'[a].failed = run[a].failed
      /\ run'[a].content = run[a].content /\ run'[a].hash = run[a].hash
      /\ run'[a].todo = run[a].todo \ {c} /\ run'[a].unchanged = run[a].unchanged
  <2>1. run \in [Actors -> RunType] /\ run[a] \in RunType
    BY DEF TypeOK
  <2>2. run'[a] = [run[a] EXCEPT !.todo = run[a].todo \ {c},
                       !.at = IF run[a].todo \ {c} = {}
                              THEN IF run[a].replace THEN "carry" ELSE "explain"
                              ELSE "clauses"]
    BY <2>1 DEF UpsertClause
  <2> QED
    BY <2>1, <2>2 DEF RunType
<1>3. /\ text \in [Clauses -> Texts \cup {NoText}]
      /\ dvd.content \in [Clauses -> Texts \cup {NoText}]
      /\ text'[c] = run[a].content[c] /\ run[a].content[c] # NoText
      /\ \A d \in Clauses \ {c} : text'[d] = text[d]
      /\ text' \in [Clauses -> Texts \cup {NoText}]
  <2>1. run[a].content[c] # NoText /\ run[a].content[c] \in Texts \cup {NoText}
    BY <1>0 DEF Shape, ClauseIds, TypeOK, RunType, Content
  <2> QED
    BY <1>1, <2>1 DEF TypeOK, Content
<1>4. Shape(a)'
  BY <1>0, <1>1, <1>2 DEF Shape, AdminOps
<1>5. Clean(a)'
  <2>1. /\ text[c] = NoText => restr[c] = {} /\ mark[c] = NoText
        /\ text[c] # NoText => text'[c] = text[c]
    BY <1>3, NothingExtracted DEF Clean
  <2>2. restr[c] \subseteq Extracted(text'[c])
    BY <2>1 DEF Clean
  <2>3. text'[c] # NoText /\ mark[c] = text'[c] => Complete(c)'
    BY <1>0, <1>1, <1>3, <2>1 DEF Clean, Complete
  <2>4. ASSUME NEW d \in Clauses, d # c
        PROVE  Complete(d)' <=> Complete(d)
    BY <1>1, <1>3, <2>4 DEF Complete
  <2> QED
    BY <1>0, <1>1, <1>2, <1>3, <2>1, <2>2, <2>3, <2>4 DEF Clean
<1>6. Extracts(a)'
  BY <1>2 DEF Extracts
<1>7. (Behind(a)' <=> Behind(a)) /\ (Starting(a)' <=> Starting(a)) /\ (Current' <=> Current)
  BY <1>1, <1>2 DEF Behind, Starting, Current
<1>8. ASSUME Current
      PROVE  /\ run[a].content = dvd.content
             /\ text'[c] = dvd.content[c] /\ text'[c] # NoText
             /\ text = dvd.content => text' = text
  BY <1>0, <1>1, <1>3, <1>8 DEF Texted
<1>9. Texted(a)'
  <2> SUFFICES ASSUME Current
               PROVE  Texted(a)'
    BY <1>7 DEF Texted
  <2>1. \A d \in ClauseIds(dvd.content) : text'[d] = dvd.content[d] \/ d \in run'[a].todo
    BY <1>0, <1>2, <1>3, <1>8 DEF Texted, ClauseIds
  <2>2. ~Behind(a) => \A d \in Clauses : text'[d] # NoText => dvd.content[d] # NoText
    BY <1>3, <1>8 DEF Texted
  <2>3. ~Behind(a) /\ run'[a].todo = {} => text' = dvd.content
    BY <1>3, <2>1, <2>2 DEF ClauseIds
  <2>4. run'[a].at = "explain" => ~Behind(a) /\ run'[a].todo = {}
    BY <1>0, <1>2 DEF Shape, Behind
  <2>5. ~Behind(a) /\ text' # dvd.content =>
           Starting(a) /\ ~Restrictions /\ ~doc.incomplete /\ run'[a].at = "clauses"
    BY <1>0, <1>2, <1>8, <2>3, TextStays
  <2> QED
    BY <1>0, <1>1, <1>2, <1>7, <1>8, <2>1, <2>2, <2>3, <2>4, <2>5 DEF Texted, Restrictions
<1>10. Marks(a)'
  <2> SUFFICES ASSUME Current, ~Behind(a)
               PROVE  Marks(a)'
    BY <1>2, <1>7 DEF Marks
  <2>1. CASE Restrictions \/ doc.incomplete \/ ~Starting(a)
    <3>1. text' = text
      BY <1>0, <1>8, <2>1, TextStays
    <3> QED
      BY <1>0, <1>1, <1>2, <1>7, <3>1 DEF Marks, Restrictions, Complete
  <2>2. CASE ~Restrictions /\ ~doc.incomplete /\ Starting(a)
    BY <1>0, <1>1, <1>2, <1>7, <2>2 DEF Marks, Restrictions
  <2> QED
    BY <2>1, <2>2
<1> QED
  BY <1>4, <1>5, <1>6, <1>9, <1>10

LEMMA PruneTracks ==
    ASSUME TypeOK, NEW a \in Actors, Tracks(a), Prune(a)
    PROVE  Tracks(a)'
<1> USE DEF Tracks, Before, Ingesting, Extracting, Marked
<1> DEFINE gone == {c \in Clauses : text[c] # NoText} \ ClauseIds(run[a].content)
<1>0. run[a].at = "prune" /\ doc.stored
  BY DEF Prune, Clean
<1>1. /\ dvd' = dvd /\ owed' = owed /\ doc' = doc
      /\ text' = [c \in Clauses |-> IF c \in gone THEN NoText ELSE text[c]]
      /\ mark' = [c \in Clauses |-> IF c \in gone THEN NoText ELSE mark[c]]
      /\ restr' = [c \in Clauses |-> IF c \in gone THEN {} ELSE restr[c]]
  BY DEF Prune
<1>2. /\ run'[a].at = "explain" /\ run'[a].op = run[a].op /\ run'[a].replace = run[a].replace
      /\ run'[a].named = run[a].named /\ run'[a].failed = run[a].failed
      /\ run'[a].content = run[a].content /\ run'[a].hash = run[a].hash
      /\ run'[a].unchanged = run[a].unchanged
  <2>1. run \in [Actors -> RunType] /\ run[a] \in RunType
    BY DEF TypeOK
  <2>2. run'[a] = [run[a] EXCEPT !.at = "explain", !.pruned = (gone # {})]
    BY <2>1 DEF Prune
  <2> QED
    BY <2>1, <2>2 DEF RunType
<1>3. \A c \in Clauses : c \in gone <=> text[c] # NoText /\ run[a].content[c] = NoText
  BY DEF ClauseIds
<1> HIDE DEF gone
<1>4. Shape(a)'
  BY <1>0, <1>1, <1>2 DEF Shape, AdminOps
<1>5. Clean(a)'
  <2>1. ASSUME NEW c \in Clauses, c \in gone
        PROVE  text'[c] = NoText /\ mark'[c] = NoText /\ restr'[c] = {}
    BY <1>1, <2>1
  <2>2. ASSUME NEW c \in Clauses, c \notin gone
        PROVE  text'[c] = text[c] /\ mark'[c] = mark[c] /\ restr'[c] = restr[c]
    BY <1>1, <2>2
  <2>3. ASSUME NEW c \in Clauses, text'[c] # NoText, mark'[c] = text'[c]
        PROVE  Complete(c)'
    <3>1. c \notin gone
      BY <2>1, <2>3
    <3>2. Complete(c)
      BY <1>0, <1>3, <2>2, <2>3, <3>1 DEF Clean
    <3> QED
      BY <2>2, <3>1, <3>2 DEF Complete
  <2>4. \A c \in Clauses : restr'[c] \subseteq Extracted(text'[c])
    BY <2>1, <2>2 DEF Clean
  <2> QED
    BY <1>0, <1>1, <1>2, <2>1, <2>2, <2>3, <2>4 DEF Clean
<1>6. Extracts(a)'
  BY <1>2 DEF Extracts
<1>7. (Behind(a)' <=> Behind(a)) /\ (Starting(a)' <=> Starting(a)) /\ (Current' <=> Current)
  BY <1>1, <1>2 DEF Behind, Starting, Current
<1>8. Current => text' = dvd.content
  <2> SUFFICES ASSUME Current
               PROVE  text' = dvd.content
    OBVIOUS
  <2>1. run[a].content = dvd.content
    BY <1>0 DEF Texted
  <2>2. \A c \in Clauses : dvd.content[c] # NoText => text[c] = dvd.content[c]
    BY <1>0 DEF Texted, ClauseIds
  <2>3. dvd.content = [c \in Clauses |-> dvd.content[c]]
    BY DEF TypeOK, Content
  <2> QED
    BY <1>1, <1>3, <2>1, <2>2, <2>3
<1>9. ASSUME Current, ~Behind(a)
      PROVE  text' = text /\ mark' = mark /\ restr' = restr
  <2>1. run[a].content = dvd.content
    BY <1>0, <1>9 DEF Texted
  <2>2. \A c \in Clauses : text[c] # NoText => dvd.content[c] # NoText
    BY <1>9 DEF Texted
  <2>3. gone = {}
    BY <1>3, <2>1, <2>2 DEF gone
  <2> QED
    BY <1>1, <2>3 DEF TypeOK, Content
<1>10. Texted(a)'
  BY <1>0, <1>1, <1>2, <1>7, <1>8, <1>9 DEF Texted, Restrictions
<1>11. Marks(a)'
  BY <1>0, <1>1, <1>2, <1>7, <1>9 DEF Marks, Restrictions, Complete
<1> QED
  BY <1>4, <1>5, <1>6, <1>10, <1>11

LEMMA CarryTracks ==
    ASSUME TypeOK, NEW a \in Actors, Tracks(a), Carry(a)
    PROVE  Tracks(a)'
<1> USE DEF Tracks, Before, Ingesting, Extracting, Marked
<1> DEFINE old(M, c) == {p[2] : p \in {q \in M : q[1] = c}}
           gives(M) == {p[2] : p \in M}
           takes(M) == {p[1] : p \in M}
           keep   == ClauseIds(run[a].content)
           takers == {c \in keep : text[c] # NoText /\ mark[c] # text[c]}
           donors == {c \in Clauses \ keep : text[c] # NoText /\ mark[c] = text[c]}
           matches(new, o) == new \in takers /\ o \in donors /\ text[new] = text[o]
           pairs == {p \in takers \X donors : matches(p[1], p[2])}
<1>0. run[a].at = "carry" /\ doc.stored
  BY DEF Carry, Clean
<1>1. /\ dvd' = dvd /\ owed' = owed /\ doc' = doc /\ text' = text
  BY DEF Carry
<1>2. /\ run'[a].at = "prune" /\ run'[a].op = run[a].op /\ run'[a].replace = run[a].replace
      /\ run'[a].named = run[a].named /\ run'[a].failed = run[a].failed
      /\ run'[a].content = run[a].content /\ run'[a].hash = run[a].hash
      /\ run'[a].unchanged = run[a].unchanged
  BY GotoLocal DEF Carry
<1>3. PICK M \in SUBSET pairs :
        /\ \A p, q \in M : p[1] = q[1] <=> p[2] = q[2]
        /\ mark' = [c \in Clauses |-> IF c \in takes(M) THEN text[c] ELSE mark[c]]
        /\ restr' = [c \in Clauses |-> IF c \in gives(M) THEN {}
                                       ELSE restr[c] \cup UNION {restr[o] : o \in old(M, c)}]
  BY DEF Carry
<1>4. \A p \in M : /\ p[1] \in takers /\ p[2] \in donors /\ text[p[1]] = text[p[2]]
                   /\ p[1] \in Clauses /\ p[2] \in Clauses
  BY <1>3 DEF ClauseIds
<1>5. ASSUME NEW c \in Clauses, c \in gives(M)
      PROVE  restr'[c] = {} /\ run[a].content[c] = NoText
  <2>1. c \in donors
    BY <1>4, <1>5
  <2> QED
    BY <1>3, <1>5, <2>1 DEF ClauseIds
<1>6. ASSUME NEW c \in Clauses, c \notin gives(M), c \notin takes(M)
      PROVE  restr'[c] = restr[c] /\ mark'[c] = mark[c]
  <2>1. old(M, c) = {}
    BY <1>6
  <2> QED
    BY <1>3, <1>6, <2>1
<1>7. ASSUME NEW c \in Clauses, c \in takes(M)
      PROVE  /\ text[c] # NoText /\ mark'[c] = text[c]
             /\ restr'[c] = Extracted(text[c]) /\ c \notin gives(M)
  <2>1. PICK p \in M : p[1] = c
    BY <1>7
  <2>2. /\ c \in takers /\ c \notin gives(M)
        /\ p[2] \in donors /\ p[2] \in Clauses /\ text[p[2]] = text[c]
    BY <1>4, <2>1
  <2>3. old(M, c) = {p[2]}
    BY <1>3, <2>1
  <2>4. restr[p[2]] = Extracted(text[c])
    BY <1>0, <2>2 DEF Clean, Complete
  <2>5. restr[c] \subseteq Extracted(text[c])
    BY DEF Clean
  <2>6. restr'[c] = restr[c] \cup restr[p[2]]
    <3>1. restr'[c] = restr[c] \cup UNION {restr[o] : o \in old(M, c)}
      BY <1>3, <2>2
    <3>2. UNION {restr[o] : o \in {p[2]}} = restr[p[2]]
      <4> HIDE DEF old, gives, takes
      <4> QED
        OBVIOUS
    <3> HIDE DEF old, gives, takes
    <3> QED
      BY <2>3, <3>1, <3>2
  <2>7. mark'[c] = text[c]
    BY <1>3, <1>7
  <2> QED
    BY <2>2, <2>4, <2>5, <2>6, <2>7
<1>8. Shape(a)'
  BY <1>0, <1>1, <1>2 DEF Shape, AdminOps
<1> HIDE DEF gives, takes, old, pairs, donors, takers, keep
<1>9. Clean(a)'
  <2>1. ASSUME NEW c \in Clauses
        PROVE  /\ restr'[c] \subseteq Extracted(text[c])
               /\ text[c] = NoText => mark'[c] = NoText
    BY <1>5, <1>6, <1>7, <1>3 DEF Clean, gives
  <2>2. ASSUME NEW c \in Clauses, text[c] # NoText, mark'[c] = text[c]
        PROVE  Complete(c)' \/ run[a].content[c] = NoText
    <3>1. CASE c \in gives(M)
      BY <1>5, <3>1
    <3>2. CASE c \in takes(M)
      BY <1>1, <1>7, <3>2 DEF Complete
    <3>3. CASE c \notin gives(M) /\ c \notin takes(M)
      BY <1>0, <1>1, <1>6, <2>2, <3>3 DEF Clean, Complete
    <3> QED
      BY <3>1, <3>2, <3>3
  <2> QED
    BY <1>0, <1>1, <1>2, <2>1, <2>2 DEF Clean
<1>10. Extracts(a)'
  BY <1>2 DEF Extracts
<1>11. (Behind(a)' <=> Behind(a)) /\ (Starting(a)' <=> Starting(a)) /\ (Current' <=> Current)
  BY <1>1, <1>2 DEF Behind, Starting, Current
<1>12. ASSUME Current, ~Behind(a)
       PROVE  restr' = restr
  <2>1. run[a].content = dvd.content
    BY <1>0, <1>12 DEF Texted
  <2>2. \A c \in Clauses : text[c] # NoText => dvd.content[c] # NoText
    BY <1>12 DEF Texted
  <2>3. donors = {}
    BY <2>1, <2>2 DEF donors, keep, ClauseIds
  <2>4. gives(M) = {} /\ takes(M) = {}
    BY <1>4, <2>3 DEF gives, takes
  <2>5. \A c \in Clauses : restr'[c] = restr[c]
    BY <1>6, <2>4
  <2>6. restr = [c \in Clauses |-> restr[c]] /\ restr' = [c \in Clauses |-> restr'[c]]
    BY <1>3 DEF TypeOK
  <2> QED
    BY <2>5, <2>6
<1>13. Texted(a)'
  BY <1>0, <1>1, <1>2, <1>11, <1>12 DEF Texted, Restrictions
<1>14. Marks(a)'
  BY <1>0, <1>1, <1>2, <1>11, <1>12 DEF Marks, Restrictions, Complete
<1> QED
  BY <1>8, <1>9, <1>10, <1>13, <1>14

(* What follows an ingestion: nothing, or an extraction of everything, of what is not *)
(* extracted yet, or of named clauses while the others are complete.                  *)
LEMMA LinkTracks ==
    ASSUME TypeOK, NEW a \in Actors, Tracks(a),
           NEW own \in SUBSET {c \in Clauses : text[c] # NoText}, Link(a, own)
    PROVE  Tracks(a)'
<1> USE DEF Tracks, Before, Ingesting, Extracting, Marked
<1>0. run[a].at = "explain" /\ doc.stored /\ run[a].hash # 0 /\ ~run[a].named
  BY DEF Link, Clean, Shape
<1>1. /\ dvd' = dvd /\ owed' = owed /\ doc' = doc /\ text' = text /\ restr' = restr
      /\ mark' = [c \in Clauses |-> IF c \in own THEN NoText ELSE mark[c]]
  BY DEF Link
<1>2. \/ /\ Done(a) /\ (run[a].op = "ingest" \/ run[a].unchanged = run[a].hash)
         /\ run[a].op # "updated"
      \/ \E replace, reuse : run' = [run EXCEPT ![a].at = "begin", ![a].replace = replace,
                                                ![a].reuse = reuse]
      \/ \E ids : /\ run' = [run EXCEPT ![a].at = "begin", ![a].replace = FALSE,
                                        ![a].named = TRUE, ![a].ids = ids]
                  /\ \/ run[a].op = "retry" /\ ids = run[a].failed /\ run[a].failed # {}
                     \/ run[a].unchanged = run[a].hash /\ run[a].op # "updated"
  <2>1. run[a].op = "updated" => run[a].replace
    BY <1>0 DEF Shape
  <2>2. CASE run[a].op = "ingest"
    BY <2>2 DEF Link
  <2>3. CASE run[a].op = "retry"
    BY <2>3 DEF Link
  <2>4. CASE run[a].op \notin {"ingest", "retry"}
    <3>1. CASE ~run[a].replace /\ run[a].unchanged = run[a].hash
      BY <2>1, <2>4, <3>1 DEF Link
    <3>2. CASE ~(~run[a].replace /\ run[a].unchanged = run[a].hash)
      BY <2>4, <3>2 DEF Link
    <3> QED
      BY <3>1, <3>2
  <2> QED
    BY <2>2, <2>3, <2>4
<1>3. Current => text = dvd.content
  BY <1>0 DEF Texted
<1>4. ASSUME Current, run[a].unchanged = run[a].hash, run[a].op # "updated"
      PROVE  ~doc.incomplete /\ \A c \in Clauses : Complete(c)
  <2>1. ~Behind(a)
    BY <1>4 DEF Behind
  <2>2. ~doc.incomplete /\ Restrictions
    BY <1>0, <1>4, <2>1 DEF Marks
  <2> QED
    BY <1>0, <1>4, <2>1, <2>2 DEF Marks
<1>5. /\ \A c \in Clauses : Complete(c)' <=> Complete(c)
      /\ Restrictions' <=> Restrictions
      /\ Current' <=> Current
  BY <1>1 DEF Complete, Restrictions, Current
<1>6. ASSUME run'[a].at \in {"idle", "begin"},
             run'[a].content = run[a].content \/ run'[a].content = Nothing
      PROVE  Clean(a)' /\ Extracts(a)'
  <2>1. /\ \A c \in Clauses : run'[a].content[c] \in {NoText, Words[c]}
        /\ \A c \in Clauses : text'[c] # NoText /\ mark'[c] = text'[c] => mark[c] = text[c]
        /\ \A c \in Clauses : text'[c] = NoText => mark'[c] = NoText
    BY <1>1, <1>6, IdleType DEF Clean
  <2>2. Clean(a)'
    BY <1>0, <1>1, <1>5, <1>6, <2>1 DEF Clean
  <2> QED
    BY <1>6, <2>2 DEF Extracts
<1>7. CASE Done(a) /\ (run[a].op = "ingest" \/ run[a].unchanged = run[a].hash)
              /\ run[a].op # "updated"
  <2>1. run'[a].at = "idle" /\ run'[a].op = "none" /\ run'[a].content = Nothing
    BY <1>7, DoneLocal
  <2>2. Shape(a)'
    BY <1>0, <1>1, <2>1 DEF Shape, AdminOps
  <2>3. ~Behind(a)' /\ ~Behind(a) /\ (Starting(a)' => Starting(a))
    BY <1>1, <1>7, <2>1 DEF Behind, Starting
  <2>4. Texted(a)'
    BY <1>0, <1>1, <1>3, <1>5, <2>1, <2>3 DEF Texted
  <2>5. Marks(a)'
    <3>1. CASE run[a].op = "ingest"
      <4>1. Starting(a)' <=> Starting(a)
        BY <1>1, <2>1, <3>1 DEF Starting
      <4> QED
        BY <1>0, <1>1, <1>5, <2>1, <2>3, <4>1 DEF Marks
    <3>2. CASE run[a].unchanged = run[a].hash
      BY <1>1, <1>4, <1>5, <1>7, <2>1, <3>2 DEF Marks
    <3> QED
      BY <1>7, <3>1, <3>2
  <2> QED
    BY <1>6, <2>1, <2>2, <2>4, <2>5
<1>8. ASSUME NEW replace, NEW reuse,
             run' = [run EXCEPT ![a].at = "begin", ![a].replace = replace, ![a].reuse = reuse]
      PROVE  Tracks(a)'
  <2>1. /\ run'[a].at = "begin" /\ run'[a].op = run[a].op /\ run'[a].named = run[a].named
        /\ run'[a].content = run[a].content /\ run'[a].unchanged = run[a].unchanged
    <3>1. run \in [Actors -> RunType] /\ run[a] \in RunType
      BY DEF TypeOK
    <3>2. run'[a] = [run[a] EXCEPT !.at = "begin", !.replace = replace, !.reuse = reuse]
      BY <1>8, <3>1
    <3> QED
      BY <3>1, <3>2 DEF RunType
  <2>2. Shape(a)'
    BY <1>0, <1>1, <2>1 DEF Shape, AdminOps
  <2>3. (Behind(a)' <=> Behind(a)) /\ (Starting(a)' <=> Starting(a))
    BY <1>1, <2>1 DEF Behind, Starting
  <2>4. Texted(a)'
    BY <1>0, <1>1, <1>3, <1>5, <2>1, <2>3 DEF Texted
  <2>5. Marks(a)'
    BY <1>0, <1>1, <1>5, <2>1, <2>3 DEF Marks
  <2> QED
    BY <1>6, <2>1, <2>2, <2>4, <2>5
<1>9. ASSUME NEW ids,
             run' = [run EXCEPT ![a].at = "begin", ![a].replace = FALSE,
                                ![a].named = TRUE, ![a].ids = ids],
             \/ run[a].op = "retry" /\ ids = run[a].failed /\ run[a].failed # {}
             \/ run[a].unchanged = run[a].hash /\ run[a].op # "updated"
      PROVE  Tracks(a)'
  <2>1. /\ run'[a].at = "begin" /\ run'[a].op = run[a].op /\ run'[a].ids = ids
        /\ run'[a].content = run[a].content /\ run'[a].unchanged = run[a].unchanged
    <3>1. run \in [Actors -> RunType] /\ run[a] \in RunType
      BY DEF TypeOK
    <3>2. run'[a] = [run[a] EXCEPT !.at = "begin", !.replace = FALSE, !.named = TRUE,
                                   !.ids = ids]
      BY <1>9, <3>1
    <3> QED
      BY <3>1, <3>2 DEF RunType
  <2>2. Shape(a)'
    BY <1>0, <1>1, <2>1 DEF Shape, AdminOps
  <2>3. (Behind(a)' <=> Behind(a)) /\ (Starting(a)' <=> Starting(a))
    BY <1>1, <2>1 DEF Behind, Starting
  <2>4. Texted(a)'
    BY <1>0, <1>1, <1>3, <1>5, <2>1, <2>3 DEF Texted
  <2>5. Current => \A c \in Clauses \ ids : Complete(c)
    <3>1. run[a].op = "retry" => ~Behind(a)
      BY DEF Behind
    <3> QED
      BY <1>0, <1>4, <1>9, <3>1 DEF Marks
  <2>6. Marks(a)'
    BY <1>0, <1>1, <1>5, <2>1, <2>3, <2>5 DEF Marks
  <2> QED
    BY <1>6, <2>1, <2>2, <2>4, <2>6
<1> QED
  BY <1>2, <1>7, <1>8, <1>9

(* The reading of the clauses to extract: those left out are complete. *)
LEMMA BeginTracks ==
    ASSUME TypeOK, NEW a \in Actors, Tracks(a), Begin(a)
    PROVE  Tracks(a)'
<1> USE DEF Tracks, Before, Ingesting, Extracting, Marked
<1> DEFINE present == {c \in Clauses : text[c] # NoText}
           fresh   == {c \in present : mark[c] # text[c]}
           reusing == run[a].reuse /\ run[a].replace /\ ~run[a].named /\ fresh # present
           byIds   == reusing \/ run[a].named
           picked  == IF reusing THEN fresh
                      ELSE IF run[a].named THEN present \cap run[a].ids ELSE present
           read    == [c \in Clauses |-> IF c \in picked THEN text[c] ELSE NoText]
<1>0. /\ run[a].at = "begin"
      /\ dvd' = dvd /\ owed' = owed /\ text' = text /\ mark' = mark
  BY DEF Begin
<1>1. /\ \A c \in Clauses : c \in present <=> text[c] # NoText
      /\ picked \subseteq present
      /\ ~byIds => picked = present
  OBVIOUS
<1>2. present # {} => doc.stored
  BY DEF Clean, Nothing
<1>3. ASSUME Current, NEW c \in Clauses, c \notin picked
      PROVE  Complete(c)
  <2>1. CASE text[c] = NoText
    BY <2>1, NothingExtracted DEF Clean, Complete
  <2>2. CASE text[c] # NoText /\ reusing
    <3>1. mark[c] = text[c]
      BY <1>3, <2>2
    <3> QED
      BY <1>0, <2>2, <3>1 DEF Clean
  <2>3. CASE text[c] # NoText /\ ~reusing
    BY <1>0, <1>3, <2>3 DEF Marks
  <2> QED
    BY <2>1, <2>2, <2>3
<1>4. doc.stored /\ Current => text = dvd.content
  BY <1>0 DEF Texted
<1>5. run[a].op = "updated" => doc.stored
  BY <1>0 DEF Clean, AdminOps
<1>6. CASE /\ picked # {}
           /\ run' = [run EXCEPT ![a].at = "mark", ![a].replace = run[a].replace \/ byIds,
                                 ![a].named = byIds, ![a].ids = picked, ![a].clauses = read]
           /\ doc' = doc /\ restr' = restr
  <2>1. /\ run'[a].at = "mark" /\ run'[a].op = run[a].op /\ run'[a].named = byIds
        /\ run'[a].clauses = read /\ run'[a].content = run[a].content
        /\ run'[a].unchanged = run[a].unchanged
    <3>1. run \in [Actors -> RunType] /\ run[a] \in RunType
      BY DEF TypeOK
    <3>2. run'[a] = [run[a] EXCEPT !.at = "mark", !.replace = run[a].replace \/ byIds,
                                   !.named = byIds, !.ids = picked, !.clauses = read]
      BY <1>6, <3>1
    <3> HIDE DEF byIds, picked, read
    <3> QED
      BY <3>1, <3>2 DEF RunType
  <2>2. /\ ClauseIds(run'[a].clauses) = picked
        /\ \A c \in picked : run'[a].clauses[c] = text[c] /\ c \in Clauses
    BY <2>1 DEF ClauseIds
  <2> HIDE DEF picked, byIds, read, present
  <2>3. doc.stored
    BY <1>1, <1>2, <1>6
  <2>4. Shape(a)'
    BY <1>0, <1>6, <2>1 DEF Shape, AdminOps
  <2>5. Clean(a)'
    <3>1. ASSUME NEW c \in Clauses
          PROVE  /\ {text[c], dvd.content[c], run[a].content[c]} \subseteq {NoText, Words[c]}
                 /\ text[c] = NoText => mark[c] = NoText
                 /\ restr[c] \subseteq Extracted(text[c])
                 /\ text[c] # NoText /\ mark[c] = text[c] => Complete(c)
      BY <1>0 DEF Clean
    <3>2. /\ text' = text /\ mark' = mark /\ restr' = restr /\ doc' = doc /\ dvd' = dvd
          /\ run'[a].at = "mark" /\ run'[a].content = run[a].content
      BY <1>0, <1>6, <2>1
    <3>3. ASSUME NEW c \in Clauses
          PROVE  Complete(c)' <=> Complete(c)
      BY <3>2 DEF Complete
    <3> QED
      BY <2>3, <3>1, <3>2, <3>3 DEF Clean
  <2>6. Extracts(a)'
    <3>1. ASSUME Current', NEW c \in Clauses \ picked
          PROVE  Complete(c)'
      BY <1>0, <1>3, <1>6, <3>1 DEF Complete, Current
    <3>2. ~byIds => \A c \in Clauses \ picked : text'[c] = NoText
      BY <1>0, <1>1
    <3>3. picked # {} /\ \A c \in picked : run'[a].clauses[c] = text'[c]
      BY <1>0, <1>6, <2>2
    <3>4. run'[a].at = "mark" /\ run'[a].named = byIds /\ ClauseIds(run'[a].clauses) = picked
      BY <2>1, <2>2
    <3> QED
      BY <3>1, <3>2, <3>3, <3>4 DEF Extracts
  <2>7. /\ Behind(a)' <=> Behind(a)
        /\ Starting(a)' <=> Starting(a)
        /\ Current' <=> Current
    BY <1>0, <2>1 DEF Behind, Starting, Current
  <2>8. Texted(a)'
    BY <1>0, <1>4, <1>6, <2>1, <2>7 DEF Texted, Restrictions
  <2>9. Marks(a)'
    BY <1>0, <1>6, <2>1, <2>7 DEF Marks, Restrictions, Complete
  <2> QED
    BY <2>4, <2>5, <2>6, <2>8, <2>9
<1>7. ASSUME Done(a)
      PROVE  /\ run'[a].at = "idle" /\ run'[a].op = "none" /\ run'[a].content = Nothing
             /\ ~Behind(a)' /\ (Starting(a)' => Starting(a))
             /\ Extracts(a)'
  <2>1. run'[a].at = "idle" /\ run'[a].op = "none" /\ run'[a].content = Nothing
    BY <1>7, DoneLocal
  <2> QED
    BY <1>0, <2>1 DEF Behind, Starting, Extracts
<1>8. CASE picked = {} /\ byIds /\ Upsert(FALSE, {}) /\ Done(a) /\ restr' = restr
  <2>1. doc.stored
    BY <1>0, <1>2, <1>8 DEF Shape, Clean
  <2>2. doc'.stored /\ ~doc'.incomplete /\ doc'.failed = {}
    BY <1>8 DEF Upsert, TypeOK
  <2>3. Current => \A c \in Clauses : Complete(c)'
    BY <1>0, <1>3, <1>8 DEF Complete
  <2> HIDE DEF picked, byIds, read, present
  <2>4. Shape(a)'
    BY <1>0, <1>7, <1>8, <2>1, <2>2 DEF Shape, AdminOps
  <2>5. Clean(a)'
    BY <1>0, <1>7, <1>8, <2>1, <2>2, IdleType DEF Clean, Complete
  <2>6. Texted(a)'
    BY <1>0, <1>4, <1>7, <1>8, <2>1, <2>2 DEF Texted, Current
  <2>7. Marks(a)'
    BY <1>0, <1>7, <1>8, <2>2, <2>3 DEF Marks, Current
  <2> QED
    BY <1>7, <1>8, <2>4, <2>5, <2>6, <2>7
<1>9. CASE /\ picked = {} /\ ~byIds /\ Done(a) /\ doc' = doc
           /\ restr' = IF run[a].replace THEN [c \in Clauses |-> {}] ELSE restr
  <2>1. \A c \in Clauses : text[c] = NoText /\ restr[c] = {} /\ restr'[c] = {}
    BY <1>1, <1>9, NothingExtracted DEF Clean
  <2>2. Current => ~doc.stored
    BY <1>4, <2>1 DEF Shape, ClauseIds, Current
  <2> HIDE DEF picked, byIds, read, present
  <2>3. Shape(a)'
    BY <1>0, <1>7, <1>9 DEF Shape, AdminOps
  <2>4. Clean(a)'
    BY <1>0, <1>7, <1>9, <2>1, IdleType DEF Clean, Complete
  <2>5. Current => Starting(a)'
    <3>1. Current => Starting(a) /\ run[a].op \in AdminOps
      BY <1>0, <1>5, <2>2 DEF Texted, Clean, Behind
    <3> QED
      BY <1>0, <3>1 DEF Starting, AdminOps
  <2>6. Texted(a)'
    BY <1>0, <1>7, <1>9, <2>1, <2>2, <2>5 DEF Texted, Current
  <2>7. Marks(a)'
    BY <1>0, <1>7, <1>9, <2>2 DEF Marks, Current, Clean
  <2> QED
    BY <1>7, <1>9, <2>3, <2>4, <2>6, <2>7
<1> QED
  BY <1>6, <1>8, <1>9 DEF Begin

(* The extraction of what was read. *)
LEMMA MarkIncompleteTracks ==
    ASSUME TypeOK, NEW a \in Actors, Tracks(a), MarkIncomplete(a)
    PROVE  Tracks(a)'
<1> USE DEF Tracks, Before, Ingesting, Extracting, Marked
<1>1. /\ run[a].at = "mark" /\ doc.stored
      /\ dvd' = dvd /\ owed' = owed /\ text' = text /\ mark' = mark /\ restr' = restr
      /\ doc'.stored /\ doc'.incomplete /\ doc'.failed = {}
  BY DEF MarkIncomplete, Upsert, TypeOK, Clean
<1>2. /\ run'[a].at = "llm" /\ run'[a].op = run[a].op /\ run'[a].named = run[a].named
      /\ run'[a].content = run[a].content /\ run'[a].unchanged = run[a].unchanged
      /\ run'[a].clauses = run[a].clauses
  BY GotoLocal DEF MarkIncomplete
<1>3. Shape(a)'
  BY <1>1, <1>2 DEF Shape, AdminOps
<1>4. Clean(a)'
  BY <1>1, <1>2 DEF Clean, Complete
<1>5. Extracts(a)'
  BY <1>1, <1>2 DEF Extracts, Complete, Current
<1>6. Texted(a)'
  BY <1>1, <1>2 DEF Texted, Current, Behind, Starting
<1>7. Marks(a)'
  BY <1>1, <1>2 DEF Marks
<1> QED
  BY <1>3, <1>4, <1>5, <1>6, <1>7

LEMMA LlmTracks ==
    ASSUME TypeOK, NEW a \in Actors, Tracks(a), NEW bad \in SUBSET Clauses, Llm(a, bad)
    PROVE  Tracks(a)'
<1> USE DEF Tracks, Before, Ingesting, Extracting, Marked
<1>1. /\ run[a].at = "llm" /\ bad \subseteq ClauseIds(run[a].clauses)
      /\ dvd' = dvd /\ owed' = owed /\ text' = text /\ mark' = mark /\ restr' = restr
      /\ doc' = doc
  BY DEF Llm, graph
<1>2. /\ run'[a].at = "delete" /\ run'[a].op = run[a].op /\ run'[a].named = run[a].named
      /\ run'[a].content = run[a].content /\ run'[a].unchanged = run[a].unchanged
      /\ run'[a].clauses = run[a].clauses /\ run'[a].bad = bad
      /\ run'[a].todo = ClauseIds(run[a].clauses) \ bad
  <2>1. run \in [Actors -> RunType] /\ run[a] \in RunType
    BY DEF TypeOK
  <2>2. run'[a] = [run[a] EXCEPT !.at = "delete", !.bad = bad,
                                 !.todo = ClauseIds(run[a].clauses) \ bad]
    BY <2>1 DEF Llm
  <2> QED
    BY <2>1, <2>2 DEF RunType
<1>3. Shape(a)'
  BY <1>1, <1>2 DEF Shape, AdminOps
<1>4. Clean(a)'
  BY <1>1, <1>2 DEF Clean, Complete
<1>5. Extracts(a)'
  BY <1>1, <1>2 DEF Extracts, Complete, Current
<1>6. Texted(a)'
  BY <1>1, <1>2 DEF Texted, Current, Behind, Starting, Restrictions
<1>7. Marks(a)'
  BY <1>1, <1>2 DEF Marks, Extracts
<1> QED
  BY <1>3, <1>4, <1>5, <1>6, <1>7

(* From the first deletion to the last write only restrictions change, and the marker *)
(* of the document is set.                                                            *)
LEMMA RestrictionsStep ==
    ASSUME TypeOK, NEW a \in Actors, Tracks(a), run[a].at \in Marked, run'[a].at \in Marked,
           UNCHANGED <<dvd, owed, doc, text>>,
           run'[a].op = run[a].op, run'[a].content = run[a].content,
           run'[a].unchanged = run[a].unchanged
    PROVE  Shape(a)' /\ Texted(a)' /\ Marks(a)'
<1> USE DEF Tracks, Before, Ingesting, Extracting, Marked
<1>1. Shape(a)'
  BY DEF Shape, AdminOps
<1>2. doc.incomplete /\ doc.failed = {} /\ doc.stored
  BY DEF Extracts, Clean
<1>3. Texted(a)'
  BY <1>2 DEF Texted, Current, Behind, Starting
<1>4. Marks(a)'
  BY <1>2 DEF Marks
<1> QED
  BY <1>1, <1>3, <1>4

LEMMA DeleteOldTracks ==
    ASSUME TypeOK, NEW a \in Actors, Tracks(a), DeleteOld(a)
    PROVE  Tracks(a)'
<1> USE DEF Tracks, Before, Ingesting, Extracting, Marked
<1> DEFINE r == run[a]
           ids == ClauseIds(r.clauses)
           dropped == IF ~r.replace THEN {}
                      ELSE IF r.bad = {} /\ ~r.named THEN Clauses ELSE r.todo
<1>1. /\ run[a].at = "delete" /\ doc.stored
      /\ dvd' = dvd /\ owed' = owed /\ text' = text /\ mark' = mark /\ doc' = doc
      /\ restr' = [c \in Clauses |-> IF c \in dropped THEN {} ELSE restr[c]]
  BY DEF DeleteOld, Clean
<1>2. /\ run'[a].at = IF r.todo = {} THEN "finish" ELSE "write"
      /\ run'[a].op = r.op /\ run'[a].named = r.named
      /\ run'[a].content = r.content /\ run'[a].unchanged = r.unchanged
      /\ run'[a].clauses = r.clauses /\ run'[a].bad = r.bad
      /\ run'[a].todo = r.todo
  BY GotoLocal DEF DeleteOld
<1>3. Shape(a)' /\ Texted(a)' /\ Marks(a)'
  BY <1>1, <1>2, RestrictionsStep
<1>4. /\ ids # {} /\ r.todo = ids \ r.bad /\ ids \subseteq Clauses
      /\ \A c \in ids : r.clauses[c] = text[c]
      /\ ~r.named => \A c \in Clauses \ ids : text[c] = NoText
      /\ doc.incomplete /\ doc.failed = {}
      /\ Current => \A c \in Clauses \ ids : Complete(c)
  BY <1>1 DEF Extracts, ClauseIds
<1>5. ASSUME NEW c \in Clauses, c \in dropped
      PROVE  c \in r.todo \/ text[c] = NoText
  BY <1>4, <1>5
<1>6. \A c \in Clauses : restr'[c] = {} \/ restr'[c] = restr[c]
  BY <1>1
<1>7. ASSUME NEW c \in Clauses, c \notin r.todo, Complete(c)
      PROVE  Complete(c)'
  <2>1. CASE c \in dropped
    BY <1>1, <1>5, <1>7, <2>1, NothingExtracted DEF Complete
  <2>2. CASE c \notin dropped
    BY <1>1, <1>7, <2>2 DEF Complete
  <2> QED
    BY <2>1, <2>2
<1> HIDE DEF dropped
<1>8. Clean(a)'
  <2>1. \A c \in Clauses : restr'[c] \subseteq Extracted(text[c])
    BY <1>6 DEF Clean
  <2>2. ASSUME NEW c \in Clauses, text[c] # NoText, mark[c] = text[c]
        PROVE  Complete(c)' \/ (run'[a].at = "write" /\ c \in r.todo)
    <3>1. CASE c \in r.todo
      BY <1>2, <3>1
    <3>2. CASE c \notin r.todo
      BY <1>1, <1>7, <2>2, <3>2 DEF Clean
    <3> QED
      BY <3>1, <3>2
  <2> QED
    BY <1>1, <1>2, <2>1, <2>2 DEF Clean
<1>9. Extracts(a)'
  <2>1. Current => \A c \in Clauses \ ids : Complete(c)'
    BY <1>4, <1>7
  <2> QED
    BY <1>1, <1>2, <1>4, <2>1 DEF Extracts, Current
<1> QED
  BY <1>3, <1>8, <1>9

LEMMA WriteClauseTracks ==
    ASSUME TypeOK, NEW a \in Actors, Tracks(a), NEW c \in Clauses, WriteClause(a, c)
    PROVE  Tracks(a)'
<1> USE DEF Tracks, Before, Ingesting, Extracting, Marked
<1> DEFINE r == run[a]
           ids == ClauseIds(r.clauses)
<1>1. /\ run[a].at = "write" /\ doc.stored /\ c \in r.todo
      /\ dvd' = dvd /\ owed' = owed /\ text' = text /\ mark' = mark /\ doc' = doc
      /\ restr' = [restr EXCEPT ![c] = @ \cup Extracted(run[a].clauses[c])]
  BY DEF WriteClause, Clean
<1>2. /\ run'[a].at = IF r.todo \ {c} = {} THEN "extracted" ELSE "write"
      /\ run'[a].op = r.op /\ run'[a].named = r.named
      /\ run'[a].content = r.content /\ run'[a].unchanged = r.unchanged
      /\ run'[a].clauses = r.clauses /\ run'[a].bad = r.bad
      /\ run'[a].todo = r.todo \ {c}
  <2>1. run \in [Actors -> RunType] /\ run[a] \in RunType
    BY DEF TypeOK
  <2>2. run'[a] = [run[a] EXCEPT !.todo = r.todo \ {c},
                                 !.at = IF r.todo \ {c} = {} THEN "extracted" ELSE "write"]
    BY <2>1 DEF WriteClause
  <2> QED
    BY <2>1, <2>2 DEF RunType
<1>3. Shape(a)' /\ Texted(a)' /\ Marks(a)'
  BY <1>1, <1>2, RestrictionsStep
<1>4. /\ ids # {} /\ r.todo \subseteq ids \ r.bad /\ ids \subseteq Clauses
      /\ \A d \in ids : r.clauses[d] = text[d]
      /\ doc.incomplete /\ doc.failed = {}
      /\ \A d \in (ids \ r.bad) \ r.todo : Complete(d)
      /\ Current => \A d \in Clauses \ ids : Complete(d)
  BY <1>1 DEF Extracts, ClauseIds
<1>5. Complete(c)'
  <2>1. restr[c] \subseteq Extracted(text[c]) /\ r.clauses[c] = text[c]
    BY <1>1, <1>4 DEF Clean
  <2>2. restr'[c] = restr[c] \cup Extracted(text[c])
    BY <1>1, <2>1 DEF TypeOK
  <2> QED
    BY <1>1, <2>1, <2>2 DEF Complete
<1>6. ASSUME NEW d \in Clauses, d # c
      PROVE  restr'[d] = restr[d] /\ (Complete(d)' <=> Complete(d))
  BY <1>1, <1>6 DEF Complete, TypeOK
<1>7. Clean(a)'
  <2>1. \A d \in Clauses : restr'[d] \subseteq Extracted(text[d])
    BY <1>1, <1>5, <1>6 DEF Clean, Complete
  <2>2. ASSUME NEW d \in Clauses, text[d] # NoText, mark[d] = text[d]
        PROVE  Complete(d)' \/ (run'[a].at = "write" /\ d \in run'[a].todo)
    <3>1. CASE d = c
      BY <1>5, <3>1
    <3>2. CASE d # c
      <4>1. Complete(d) \/ d \in r.todo
        BY <1>1, <2>2 DEF Clean
      <4> QED
        BY <1>2, <1>6, <3>2, <4>1
    <3> QED
      BY <3>1, <3>2
  <2> QED
    BY <1>1, <1>2, <2>1, <2>2 DEF Clean
<1>8. Extracts(a)'
  <2>1. /\ \A d \in (ids \ r.bad) \ (r.todo \ {c}) : Complete(d)'
        /\ Current => \A d \in Clauses \ ids : Complete(d)'
    BY <1>1, <1>4, <1>5, <1>6
  <2> QED
    BY <1>1, <1>2, <1>4, <2>1 DEF Extracts, Current
<1> QED
  BY <1>3, <1>7, <1>8

LEMMA MarkExtractedTracks ==
    ASSUME TypeOK, NEW a \in Actors, Tracks(a), MarkExtracted(a)
    PROVE  Tracks(a)'
<1> USE DEF Tracks, Before, Ingesting, Extracting, Marked
<1> DEFINE r == run[a]
           ids == ClauseIds(r.clauses)
           valid == ids \ r.bad
<1>1. /\ run[a].at = "extracted" /\ doc.stored
      /\ dvd' = dvd /\ owed' = owed /\ text' = text /\ restr' = restr /\ doc' = doc
      /\ mark' = [c \in Clauses |-> IF c \in valid /\ text[c] # NoText
                                    THEN r.clauses[c] ELSE mark[c]]
  BY DEF MarkExtracted, Clean
<1>2. /\ run'[a].at = "finish"
      /\ run'[a].op = r.op /\ run'[a].named = r.named
      /\ run'[a].content = r.content /\ run'[a].unchanged = r.unchanged
      /\ run'[a].clauses = r.clauses /\ run'[a].bad = r.bad
      /\ run'[a].todo = r.todo
  BY GotoLocal DEF MarkExtracted
<1>3. Shape(a)' /\ Texted(a)' /\ Marks(a)'
  BY <1>1, <1>2, RestrictionsStep
<1>4. \A c \in Clauses : Complete(c)' <=> Complete(c)
  BY <1>1 DEF Complete
<1>5. Extracts(a)'
  BY <1>1, <1>2, <1>4 DEF Extracts, Current, ClauseIds
<1>6. Clean(a)'
  <2>1. \A c \in valid : Complete(c)
    BY <1>1 DEF Extracts
  <2>2. ASSUME NEW c \in Clauses, text[c] # NoText, mark'[c] = text[c]
        PROVE  Complete(c)
    <3>1. CASE c \in valid
      BY <2>1, <3>1
    <3>2. CASE c \notin valid
      BY <1>1, <2>2, <3>2 DEF Clean
    <3> QED
      BY <3>1, <3>2
  <2>3. \A c \in Clauses : text[c] = NoText => mark'[c] = NoText
    BY <1>1 DEF Clean
  <2> HIDE DEF valid, ids
  <2> QED
    BY <1>1, <1>2, <1>4, <2>2, <2>3 DEF Clean
<1> QED
  BY <1>3, <1>5, <1>6

LEMMA FinishTracks ==
    ASSUME TypeOK, NEW a \in Actors, Tracks(a), Finish(a)
    PROVE  Tracks(a)'
<1> USE DEF Tracks, Before, Ingesting, Extracting, Marked
<1>1. /\ run[a].at = "finish" /\ doc.stored
      /\ dvd' = dvd /\ owed' = owed /\ text' = text /\ mark' = mark /\ restr' = restr
      /\ doc'.stored /\ doc'.incomplete = (run[a].bad # {}) /\ doc'.failed = run[a].bad
  BY DEF Finish, Upsert, TypeOK, Clean
<1>2. run'[a].at = "idle" /\ run'[a].op = "none" /\ run'[a].content = Nothing
  BY DoneLocal DEF Finish
<1>3. Current => \A c \in Clauses \ run[a].bad : Complete(c)
  BY <1>1 DEF Extracts
<1>4. Shape(a)'
  BY <1>1, <1>2 DEF Shape, AdminOps
<1>5. Clean(a)'
  BY <1>1, <1>2, IdleType DEF Clean, Complete
<1>6. Extracts(a)'
  BY <1>2 DEF Extracts
<1>7. Texted(a)'
  BY <1>1, <1>2 DEF Texted, Current, Behind, Starting
<1>8. Marks(a)'
  BY <1>1, <1>2, <1>3 DEF Marks, Current, Complete
<1> QED
  BY <1>4, <1>5, <1>6, <1>7, <1>8

LEMMA InitTracks ==
    ASSUME Init, NEW a \in Actors
    PROVE  Tracks(a)
<1>1. \A c \in Clauses : Nothing[c] = NoText
  BY DEF Nothing
<1>2. /\ run[a].at = "idle" /\ run[a].op = "none" /\ run[a].content = Nothing
      /\ ~dvd.held /\ dvd.hash = 0 /\ dvd.content = Nothing /\ owed = "none"
      /\ ~doc.stored /\ ~doc.incomplete /\ text = Nothing /\ mark = Nothing
      /\ \A c \in Clauses : restr[c] = {}
  BY DEF Init, Idle, NoDocument
<1>3. Shape(a)
  BY <1>2 DEF Shape, AdminOps, Before, Ingesting
<1>4. Clean(a)
  BY <1>1, <1>2 DEF Clean, Ingesting, Extracting, Marked
<1>5. ~Current
  BY <1>2 DEF Current
<1>6. Extracts(a)
  BY <1>2 DEF Extracts, Extracting, Marked
<1> QED
  BY <1>3, <1>4, <1>5, <1>6 DEF Tracks, Texted, Marks

LEMMA StepTracks ==
    ASSUME TypeOK, Consumed, StableTexts, Uncut, NoNamed, NEW a \in Actors, Tracks(a),
           IduDvd \/ Call(a) \/ Ingestion(a) \/ Extraction(a) \/ Interrupt(a)
    PROVE  Tracks(a)'
<1>1. CASE IduDvd
  BY <1>1, PublishTracks, RemoveTracks DEF IduDvd
<1>2. CASE Call(a)
  BY <1>2, CallTracks
<1>3. CASE Ingestion(a)
  BY <1>3, GuardTracks, FetchTracks, UpsertDocumentTracks, UpsertClauseTracks, CarryTracks,
     PruneTracks, LinkTracks DEF Ingestion
<1>4. CASE Extraction(a)
  <2>1. ~Forget(a)
    BY DEF Tracks, Shape, Forget
  <2> QED
    BY <1>4, <2>1, BeginTracks, MarkIncompleteTracks, LlmTracks, DeleteOldTracks,
       WriteClauseTracks, MarkExtractedTracks, FinishTracks DEF Extraction
<1>5. CASE Interrupt(a)
  BY <1>5, InterruptTracks
<1> QED
  BY <1>1, <1>2, <1>3, <1>4, <1>5

LEMMA TracksInductive ==
    ASSUME OneActor, Consumed, StableTexts, Uncut, NoNamed, TypeOK, NEW a \in Actors,
           Tracks(a), [Next]_vars
    PROVE  Tracks(a)'
<1>1. CASE UNCHANGED vars
  <2>1. UNCHANGED <<dvd, owed, doc, text, mark, restr, run>>
    BY <1>1 DEF vars, graph
  <2> QED
    BY <2>1 DEF Tracks, Shape, Clean, Extracts, Texted, Marks, Complete, Current, Behind,
                Starting, Restrictions
<1>2. CASE IduDvd
  BY <1>2, StepTracks
<1>3. ASSUME NEW x \in Actors, Call(x) \/ Ingestion(x) \/ Extraction(x) \/ Interrupt(x)
      PROVE  Tracks(a)'
  <2>1. x = a
    BY DEF OneActor
  <2> QED
    BY <1>3, <2>1, StepTracks
<1> QED
  BY <1>1, <1>2, <1>3 DEF Next

LEMMA TracksTell ==
    ASSUME TypeOK, NEW a \in Actors, Tracks(a)
    PROVE  UnchangedIsWhole
<1> SUFFICES ASSUME dvd.held, owed = "none", AllIdle,
                    doc.stored, doc.hash = dvd.hash, ~doc.incomplete
             PROVE  Whole
  BY DEF UnchangedIsWhole
<1>1. run[a].at = "idle" /\ run[a].op = "none"
  BY DEF AllIdle, Tracks, Shape
<1>2. Current /\ ~Behind(a) /\ ~Starting(a)
  BY <1>1 DEF Current, Behind, Starting
<1>3. text = dvd.content
  BY <1>2 DEF Tracks, Texted
<1>4. \A c \in Clauses : Complete(c)
  BY <1>2 DEF Tracks, Marks
<1> QED
  BY <1>3, <1>4 DEF Whole, Complete

(***************************************************************************)
(* A document that passes for unchanged is whole, whatever the order of    *)
(* editions, events, reconcile passes and extractions, and however often   *)
(* an operation fails, provided that one actor performs them, events are   *)
(* taken up, a clause id keeps its text, no extraction of named clauses is *)
(* asked for by another document (NoNamed), and no operation is cut short  *)
(* where the code's markers do not cover it (Uncut): while clauses are     *)
(* pruned or restrictions are written, or, when the admin extracts too,    *)
(* between two clauses of an ingestion.                                    *)
(***************************************************************************)
PROPOSITION UnchangedMeansWhole ==
    OneActor /\ Consumed /\ StableTexts /\ Uncut /\ NoNamed => (Spec => []UnchangedIsWhole)
<1> SUFFICES ASSUME OneActor, Consumed, StableTexts, Uncut, NoNamed
             PROVE  Spec => []UnchangedIsWhole
  OBVIOUS
<1> PICK a \in Actors : {"processed", "updated"} \subseteq Ops[a]
  BY DEF Consumed
<1> DEFINE IInv == TypeOK /\ Tracks(a)
<1>1. Init => IInv
  BY InitType, InitTracks
<1>2. IInv /\ [Next]_vars => IInv'
  BY NextType, TracksInductive
<1>3. IInv => UnchangedIsWhole
  BY TracksTell
<1> QED
  BY <1>1, <1>2, <1>3, PTL DEF Spec
=============================================================================
