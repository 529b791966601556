------------------------- MODULE KindMaintenanceProofs -------------------------
(***************************************************************************)
(* What holds of the upkeep for any restrictions, kinds, similarities,     *)
(* passes and sizes of pages and batches: kinds in use keep their nodes,   *)
(* and a vector that counts as current embeds the kind of its restriction. *)
(***************************************************************************)
EXTENDS KindMaintenance, TLAPS

(* The consolidation: what it read and what it writes are kinds of the list. *)
OpOK == /\ op = [phase |-> op.phase, rows |-> op.rows, todo |-> op.todo, changed |-> op.changed]
        /\ op.phase \in {"none", "read", "classify", "write", "remove", "end"}
        /\ op.phase = "classify" => IsRows(op.rows)
        /\ \A t \in op.todo : t.label \in Labels /\ t.kind \in AllKinds

PassesOK == /\ pass = [p \in Passes |-> pass[p]]
            /\ \A p \in Passes :
                  /\ pass[p] = [phase |-> pass[p].phase, after |-> pass[p].after,
                                page |-> pass[p].page]
                  /\ pass[p].phase \in {"off", "read", "embed"}
                  /\ \A x \in pass[p].page : x.kind \in Labels \cup AllKinds

KindsOK == /\ AllKinds \cup {At(r).kind : r \in Present} \subseteq kinds
           /\ kinds \subseteq Labels \cup AllKinds

TypeInv == IsRows(stored) /\ OpOK /\ PassesOK /\ KindsOK

(* A page that was read holds the kinds that are stored, but for those overtaken. *)
PagesFresh == \A p \in Passes : \A x \in pass[p].page :
                 x.id \in Present \ overlap => At(x.id).kind = x.kind

VectorInv == TypeInv /\ PagesFresh /\ VectorEmbedsKind

-----------------------------------------------------------------------------
(* Rows. *)

(* A label stands for a kind of the list. *)
LEMMA ResolvedListed == ASSUME NEW label \in Labels
                        PROVE  Resolve(label) \in AllKinds
  BY KindsAssumption DEF Resolve, AllKinds

(* Every row has a label that can be resolved. *)
LEMMA Labelled == ASSUME NEW row \in Row
                  PROVE  Label(row) \in Labels
  BY DEF Row, Restriction, Label

(* Storing a row keeps the rows, and so does dropping one. *)
LEMMA RowStored == ASSUME NEW rows, IsRows(rows), NEW r \in Ids, NEW row \in Row
                   PROVE  IsRows([rows EXCEPT ![r] = <<row>>])
  BY DEF IsRows, None

LEMMA RowDropped == ASSUME NEW rows, IsRows(rows), NEW r \in Ids
                    PROVE  IsRows([rows EXCEPT ![r] = None])
  BY DEF IsRows, None

LEMMA UpdatedRow == ASSUME NEW row \in Row, NEW t, t.label \in Labels, t.kind \in AllKinds
                    PROVE  /\ Updated(row, t) \in Row
                           /\ Updated(row, t).kind = t.kind
                           /\ Updated(row, t).version = "current" => t.kind = row.kind
                           /\ Updated(row, t).vector = row.vector
                           /\ t.kind = row.kind => Updated(row, t).version = row.version
  BY KindsAssumption DEF Updated, Row, Restriction

-----------------------------------------------------------------------------
(* What only moves the consolidation or a pass on. *)

LEMMA InitInv == Init => VectorInv
<1> SUFFICES ASSUME Init PROVE VectorInv
  OBVIOUS
<1>1. IsRows(stored) /\ VectorEmbedsKind
  BY StoredAssumption DEF Init, VectorEmbedsKind, Present, At
<1>2. OpOK /\ PassesOK /\ PagesFresh
  BY DEF Init, OpOK, PassesOK, PagesFresh, NoOp, NoPass, FirstRead
<1>3. KindsOK
  BY <1>1 DEF Init, KindsOK, AllKinds, IsRows, Present, At, Row, Restriction
<1> QED
  BY <1>1, <1>2, <1>3 DEF VectorInv, TypeInv

(* The consolidation moves on without writing restrictions; the kinds stay or are seeded. *)
LEMMA OpMoves ==
    ASSUME VectorInv, OpOK', PassesOK', UNCHANGED <<stored, overlap>>,
           kinds' \in {kinds, kinds \cup AllKinds},
           \A p \in Passes : pass'[p].page \in {pass[p].page, {}}
    PROVE  VectorInv'
<1>1. IsRows(stored)' /\ VectorEmbedsKind'
  BY DEF VectorInv, TypeInv, VectorEmbedsKind, Present, At, IsRows
<1>2. KindsOK'
  BY DEF VectorInv, TypeInv, KindsOK, AllKinds, Present, At
<1>3. PagesFresh'
  BY DEF VectorInv, PagesFresh, Present, At
<1> QED
  BY <1>1, <1>2, <1>3 DEF VectorInv, TypeInv

LEMMA ReadRowsInv == VectorInv /\ ReadRows => VectorInv'
<1> SUFFICES ASSUME VectorInv, ReadRows PROVE VectorInv'
  OBVIOUS
<1>1. OpOK' /\ PassesOK'
  BY DEF ReadRows, VectorInv, TypeInv, OpOK, PassesOK
<1> QED
  BY <1>1, OpMoves DEF ReadRows

LEMMA TargetListed == ASSUME NEW r, NEW row \in Row
                      PROVE  Target(r, row).label \in Labels /\ Target(r, row).kind \in AllKinds
  BY Labelled, ResolvedListed DEF Target

LEMMA ClassifyInv == VectorInv /\ Classify => VectorInv'
<1> SUFFICES ASSUME VectorInv, Classify PROVE VectorInv'
  OBVIOUS
<1>1. \A t \in op'.todo : t.label \in Labels /\ t.kind \in AllKinds
  <2>1. \A r \in Ids : op.rows[r] # None => op.rows[r][1] \in Row
    BY DEF VectorInv, TypeInv, OpOK, Classify, IsRows
  <2>2. \A t \in op'.todo : \E r \in Ids : op.rows[r] # None /\ t = Target(r, op.rows[r][1])
    BY DEF VectorInv, TypeInv, OpOK, Classify
  <2> QED
    BY <2>1, <2>2, TargetListed
<1>2. OpOK' /\ PassesOK'
  BY <1>1 DEF Classify, VectorInv, TypeInv, OpOK, PassesOK
<1> QED
  BY <1>2, OpMoves DEF Classify

LEMMA EndConsolidationInv == VectorInv /\ EndConsolidation => VectorInv'
<1> SUFFICES ASSUME VectorInv, EndConsolidation PROVE VectorInv'
  OBVIOUS
<1>1. OpOK'
  BY DEF EndConsolidation, OpOK, NoOp
<1>2. PassesOK' /\ \A p \in Passes : pass'[p].page \in {pass[p].page, {}}
  BY DEF EndConsolidation, VectorInv, TypeInv, PassesOK, FirstRead
<1> QED
  BY <1>1, <1>2, OpMoves DEF EndConsolidation

(* The others that only move on. *)
LEMMA MovesInv == VectorInv /\ (Consolidate \/ ConsolidationFails \/ Restart \/ UNCHANGED vars) => VectorInv'
<1> SUFFICES ASSUME VectorInv, Consolidate \/ ConsolidationFails \/ Restart \/ UNCHANGED vars
             PROVE  VectorInv'
  OBVIOUS
<1>1. OpOK'
  BY DEF Consolidate, ConsolidationFails, Restart, vars, VectorInv, TypeInv, OpOK, NoOp
<1>2. PassesOK' /\ \A p \in Passes : pass'[p].page \in {pass[p].page, {}}
  BY DEF Consolidate, ConsolidationFails, Restart, vars, VectorInv, TypeInv, PassesOK,
         NoPass, FirstRead
<1> QED
  BY <1>1, <1>2, OpMoves DEF Consolidate, ConsolidationFails, Restart, vars

-----------------------------------------------------------------------------
(* The passes. *)

LEMMA ReadPageInv == ASSUME VectorInv, NEW p \in Passes, ReadPage(p)
                     PROVE  VectorInv'
<1> DEFINE page == FirstOf({[id |-> r, kind |-> At(r).kind] : r \in Stale(pass[p].after)}, Page)
<1>1. \A x \in page : At(x.id).kind = x.kind /\ x.kind \in Labels \cup AllKinds
  BY DEF FirstOf, Stale, Present, At, VectorInv, TypeInv, IsRows, Row, Restriction
<1>2. pass' = [pass EXCEPT ![p] = IF page = {} THEN NoPass
                                  ELSE [phase |-> "embed", after |-> @.after, page |-> page]]
  BY DEF ReadPage
<1> HIDE DEF page
<1>3. pass' = [q \in Passes |-> pass'[q]] /\ \A q \in Passes \ {p} : pass'[q] = pass[q]
  BY <1>2 DEF VectorInv, TypeInv, PassesOK
<1>4. pass'[p] = IF page = {} THEN NoPass
                 ELSE [phase |-> "embed", after |-> pass[p].after, page |-> page]
  BY <1>2 DEF VectorInv, TypeInv, PassesOK
<1>5. PassesOK'
  BY <1>1, <1>3, <1>4 DEF VectorInv, TypeInv, PassesOK, NoPass
<1>7. PagesFresh'
  <2> SUFFICES ASSUME NEW q \in Passes, NEW x \in pass'[q].page, x.id \in Present' \ overlap'
               PROVE  At(x.id)'.kind = x.kind
    BY DEF PagesFresh
  <2>1. CASE q = p
    <3>1. x \in page
      BY <1>4, <2>1 DEF NoPass
    <3>2. stored' = stored
      BY DEF ReadPage
    <3> QED
      BY <1>1, <3>1, <3>2 DEF At
  <2>2. CASE q # p
    BY <1>3, <2>2 DEF VectorInv, PagesFresh, ReadPage, Present, At
  <2> QED
    BY <2>1, <2>2
<1>6. OpOK' /\ KindsOK' /\ IsRows(stored)' /\ VectorEmbedsKind'
  BY DEF ReadPage, VectorInv, TypeInv, OpOK, KindsOK, IsRows, VectorEmbedsKind, Present, At
<1> QED
  BY <1>5, <1>6, <1>7 DEF VectorInv, TypeInv

LEMMA PassFailsInv == ASSUME VectorInv, NEW p \in Passes, PassFails(p)
                      PROVE  VectorInv'
<1>1. OpOK'
  BY DEF PassFails, VectorInv, TypeInv, OpOK
<1>2. PassesOK' /\ \A q \in Passes : pass'[q].page \in {pass[q].page, {}}
  BY DEF PassFails, VectorInv, TypeInv, PassesOK, NoPass
<1> QED
  BY <1>1, <1>2, OpMoves DEF PassFails

(* A row keeps its kind and gets the vector of a kind. *)
LEMMA EmbeddedRow == ASSUME NEW row \in Row, NEW k \in Labels \cup AllKinds
                     PROVE  /\ Embedded(row, k) \in Row
                            /\ Embedded(row, k).kind = row.kind
                            /\ Embedded(row, k).vector = k
  BY DEF Embedded, Row, Restriction

(* A page is written: every row of it that is still there. *)
LEMMA WriteVectorsInv == ASSUME VectorInv, NEW p \in Passes, WriteVectors(p)
                         PROVE  VectorInv'
<1> DEFINE page == pass[p].page
           hit == {x \in page : stored[x.id] # None}
           of(r) == CHOOSE x \in hit : x.id = r
           Hit(r) == r \in {x.id : x \in hit}
           New(r) == IF Hit(r) THEN <<Embedded(At(r), of(r).kind)>>
                     ELSE stored[r]
<1>1. \A r \in Ids : Hit(r) => of(r) \in page /\ of(r).id = r /\ r \in Present
  BY DEF Present
<1>2. stored' = [r \in Ids |-> New(r)]
  BY DEF WriteVectors
<1>3. stored' = [r \in Ids |-> stored'[r]]
  <2> HIDE DEF New
  <2> QED
    BY <1>2
<1>4. \A r \in Ids : Hit(r) => of(r).kind \in Labels \cup AllKinds /\ At(r) \in Row
  BY <1>1 DEF VectorInv, TypeInv, PassesOK, IsRows, Present, At
<1>5. \A r \in Ids : Hit(r) => /\ stored'[r] # None /\ stored'[r] = <<stored'[r][1]>>
                              /\ stored'[r][1] \in Row
                              /\ stored'[r][1].kind = At(r).kind
                              /\ stored'[r][1].vector = of(r).kind
                              /\ At(r)' = Embedded(At(r), of(r).kind)
  <2> SUFFICES ASSUME NEW r \in Ids, Hit(r)
               PROVE  /\ stored'[r] # None /\ stored'[r] = <<stored'[r][1]>>
                      /\ stored'[r][1] \in Row
                      /\ stored'[r][1].kind = At(r).kind
                      /\ stored'[r][1].vector = of(r).kind
                      /\ At(r)' = Embedded(At(r), of(r).kind)
    OBVIOUS
  <2>0. At(r) \in Row /\ of(r).kind \in Labels \cup AllKinds
    BY <1>4
  <2>1. stored'[r] = <<Embedded(At(r), of(r).kind)>>
    BY <1>2
  <2> HIDE DEF of, Hit
  <2>2. At(r)' = Embedded(At(r), of(r).kind)
    BY <2>1 DEF At
  <2>3. At(r)' \in Row /\ At(r)'.kind = At(r).kind /\ At(r)'.vector = of(r).kind
    BY <2>0, <2>2, EmbeddedRow
  <2>4. stored'[r] = <<At(r)'>> /\ stored'[r] # None
    BY <2>1, <2>2 DEF None
  <2> QED
    BY <2>2, <2>3, <2>4 DEF At
<1>6. \A r \in Ids : Hit(r) /\ r \notin overlap => of(r).kind = At(r).kind
  BY <1>1 DEF VectorInv, PagesFresh
<1>7. \A r \in Ids : ~Hit(r) => stored'[r] = stored[r]
  BY <1>2
<1> HIDE DEF Hit, of
<1>8. IsRows(stored)'
  BY <1>3, <1>5, <1>7 DEF IsRows, VectorInv, TypeInv
<1>9. Present' = Present /\ \A r \in Present : At(r)'.kind = At(r).kind
  BY <1>1, <1>5, <1>7 DEF Present, At
<1>10. KindsOK' /\ OpOK'
  BY <1>9 DEF WriteVectors, VectorInv, TypeInv, KindsOK, OpOK
<1>11. PassesOK' /\ \A q \in Passes : pass'[q].page \in {pass[q].page, {}}
  BY DEF WriteVectors, VectorInv, TypeInv, PassesOK, PassAfter, NoPass, FirstRead
<1>12. PagesFresh'
  BY <1>9, <1>11 DEF WriteVectors, VectorInv, PagesFresh
<1>13. VectorEmbedsKind'
  <2> SUFFICES ASSUME NEW r \in Present' \ overlap', At(r)'.version = "current"
               PROVE  At(r)'.vector = At(r)'.kind
    BY DEF VectorEmbedsKind
  <2>0. r \in Ids /\ r \in Present \ overlap
    BY <1>9 DEF Present, WriteVectors
  <2>1. CASE Hit(r)
    BY <1>5, <1>6, <2>0, <2>1 DEF At
  <2>2. CASE ~Hit(r)
    BY <1>7, <2>0, <2>2 DEF VectorInv, VectorEmbedsKind, At
  <2> QED
    BY <2>1, <2>2
<1> QED
  BY <1>8, <1>10, <1>11, <1>12, <1>13 DEF VectorInv, TypeInv

-----------------------------------------------------------------------------
(* What writes kinds: every kind that changes under a page is known to be overtaken. *)

LEMMA OvertakenPages ==
    ASSUME NEW of, NEW p \in Passes, NEW x \in pass[p].page, x.id \in DOMAIN of,
           x.id \notin Overtaken(of)
    PROVE  of[x.id] = x.kind
  BY DEF Overtaken

LEMMA ExtractInv == ASSUME VectorInv, NEW r \in Ids, NEW label \in Labels, Extract(r, label)
                    PROVE  VectorInv'
<1> DEFINE row == [label |-> label, kind |-> Hashed[r], vector |-> Hashed[r], version |-> "current"]
<1>1. Hashed[r] \in AllKinds
  BY ResolvedListed DEF Extract
<1>2. row \in Row
  BY <1>1, KindsAssumption DEF Row, Restriction
<1>3. stored' = [stored EXCEPT ![r] = <<row>>]
  BY DEF Extract
<1>4. IsRows(stored)'
  BY <1>2, <1>3, RowStored DEF VectorInv, TypeInv
<1>5. /\ stored'[r] = <<row>> /\ At(r)' = row /\ r \in Present'
      /\ \A i \in Ids \ {r} : stored'[i] = stored[i]
  BY <1>3 DEF VectorInv, TypeInv, IsRows, Present, At, None
<1>6. KindsOK'
  BY <1>1, <1>5 DEF Extract, VectorInv, TypeInv, KindsOK, Present, At
<1>7. OpOK' /\ PassesOK'
  BY DEF Extract, VectorInv, TypeInv, OpOK, PassesOK
<1>8. PagesFresh'
  <2> SUFFICES ASSUME NEW p \in Passes, NEW x \in pass[p].page, x.id \in Present' \ overlap'
               PROVE  At(x.id)'.kind = x.kind
    BY DEF PagesFresh, Extract
  <2>1. CASE x.id = r
    <3> DEFINE of == [i \in {r} |-> Hashed[i]]
    <3>1. x.id \notin Overtaken(of) /\ x.id \in DOMAIN of /\ of[x.id] = Hashed[r]
      BY <2>1 DEF Extract
    <3> HIDE DEF of
    <3> QED
      BY <1>5, <2>1, <3>1, OvertakenPages
  <2>2. CASE x.id # r
    BY <1>5, <2>2 DEF Extract, VectorInv, PagesFresh, Present, At
  <2> QED
    BY <2>1, <2>2
<1>9. VectorEmbedsKind'
  BY <1>5 DEF Extract, VectorInv, VectorEmbedsKind, Present, At
<1> QED
  BY <1>4, <1>6, <1>7, <1>8, <1>9 DEF VectorInv, TypeInv

LEMMA DeleteInv == ASSUME VectorInv, NEW r \in Ids, Delete(r)
                   PROVE  VectorInv'
<1>1. IsRows(stored)'
  BY RowDropped DEF Delete, VectorInv, TypeInv
<1>2. Present' \subseteq Present /\ \A i \in Present' : At(i)' = At(i)
  BY DEF Delete, VectorInv, TypeInv, IsRows, Present, At
<1>3. KindsOK' /\ OpOK' /\ PassesOK'
  BY <1>2 DEF Delete, VectorInv, TypeInv, KindsOK, OpOK, PassesOK
<1>4. PagesFresh' /\ VectorEmbedsKind'
  BY <1>2 DEF Delete, VectorInv, PagesFresh, VectorEmbedsKind
<1> QED
  BY <1>1, <1>3, <1>4 DEF VectorInv, TypeInv

LEMMA WriteKindsInv == VectorInv /\ WriteKinds => VectorInv'
<1> SUFFICES ASSUME VectorInv, WriteKinds PROVE VectorInv'
  OBVIOUS
<1> DEFINE batch == FirstOf(op.todo, Batch)
           hit == {t \in batch : stored[t.id] # None}
           to(r) == CHOOSE t \in hit : t.id = r
           hits == {t.id : t \in hit}
           of == [r \in hits |-> to(r).kind]
<1>1. batch \subseteq op.todo
  BY DEF FirstOf
<1>2. \A r \in hits : to(r) \in op.todo /\ to(r).id = r /\ stored[r] # None
  BY <1>1
<1>3. stored' = [r \in Ids |-> IF r \in hits THEN <<Updated(At(r), to(r))>> ELSE stored[r]]
  BY DEF WriteKinds
<1>4. overlap' = overlap \cup Overtaken(of) /\ kinds' = kinds /\ pass' = pass
  BY DEF WriteKinds
<1>5. \A r \in hits \cap Ids : /\ to(r).label \in Labels /\ to(r).kind \in AllKinds
                               /\ At(r) \in Row /\ r \in Present
  BY <1>2 DEF VectorInv, TypeInv, OpOK, IsRows, Present, At
<1>6. OpOK'
  BY <1>1 DEF WriteKinds, VectorInv, TypeInv, OpOK
<1> HIDE DEF to, hits, of
<1>7. \A r \in Ids : r \notin hits => stored'[r] = stored[r]
  BY <1>3
<1>8. \A r \in hits \cap Ids : /\ stored'[r] # None /\ stored'[r] = <<stored'[r][1]>>
                               /\ stored'[r][1] = Updated(At(r), to(r))
                               /\ stored'[r][1] \in Row
                               /\ stored'[r][1].kind = to(r).kind
  BY <1>3, <1>5, UpdatedRow DEF None
<1>9. IsRows(stored)'
  BY <1>3, <1>7, <1>8 DEF IsRows, VectorInv, TypeInv
<1>10. Present' = Present
  BY <1>5, <1>7, <1>8 DEF Present
<1>11. KindsOK'
  BY <1>4, <1>5, <1>7, <1>8, <1>10 DEF VectorInv, TypeInv, KindsOK, Present, At
<1>12. PassesOK'
  BY <1>4 DEF VectorInv, TypeInv, PassesOK
<1>13. PagesFresh'
  <2> SUFFICES ASSUME NEW p \in Passes, NEW x \in pass[p].page, x.id \in Present' \ overlap'
               PROVE  At(x.id)'.kind = x.kind
    BY <1>4 DEF PagesFresh
  <2>1. CASE x.id \in hits
    <3>1. of[x.id] = to(x.id).kind /\ x.id \in DOMAIN of
      BY <2>1 DEF of
    <3>2. of[x.id] = x.kind
      BY <1>4, <3>1, OvertakenPages
    <3> QED
      BY <1>8, <2>1, <3>1, <3>2 DEF Present, At
  <2>2. CASE x.id \notin hits
    BY <1>4, <1>7, <1>10, <2>2 DEF VectorInv, PagesFresh, Present, At
  <2> QED
    BY <2>1, <2>2
<1>14. VectorEmbedsKind'
  <2> SUFFICES ASSUME NEW r \in Present' \ overlap', At(r)'.version = "current"
               PROVE  At(r)'.vector = At(r)'.kind
    BY DEF VectorEmbedsKind
  <2>0. r \in Ids /\ r \in Present \ overlap
    BY <1>4, <1>10 DEF Present
  <2>1. CASE r \in hits
    <3>1. At(r)' = Updated(At(r), to(r))
      BY <1>8, <2>0, <2>1 DEF At
    <3>2. At(r)'.kind = At(r).kind /\ At(r)'.vector = At(r).vector /\ At(r).version = "current"
      BY <1>5, <2>0, <2>1, <3>1, UpdatedRow
    <3> QED
      BY <2>0, <3>2 DEF VectorInv, VectorEmbedsKind
  <2>2. CASE r \notin hits
    BY <1>7, <2>0, <2>2 DEF VectorInv, VectorEmbedsKind, At
  <2> QED
    BY <2>1, <2>2
<1> QED
  BY <1>6, <1>9, <1>11, <1>12, <1>13, <1>14 DEF VectorInv, TypeInv

(* Kinds in use are kept. *)
LEMMA RemoveKindsInv == VectorInv /\ RemoveKinds => VectorInv'
<1> SUFFICES ASSUME VectorInv, RemoveKinds PROVE VectorInv'
  OBVIOUS
<1>1. KindsOK'
  BY DEF RemoveKinds, KindsKept, VectorInv, TypeInv, KindsOK, Present, At
<1>2. OpOK' /\ PassesOK' /\ IsRows(stored)'
  BY DEF RemoveKinds, VectorInv, TypeInv, OpOK, PassesOK, IsRows
<1>3. PagesFresh' /\ VectorEmbedsKind'
  BY DEF RemoveKinds, VectorInv, PagesFresh, VectorEmbedsKind, Present, At
<1> QED
  BY <1>1, <1>2, <1>3 DEF VectorInv, TypeInv

-----------------------------------------------------------------------------

LEMMA StepInv == VectorInv /\ [Next]_vars => VectorInv'
  BY ReadRowsInv, ClassifyInv, WriteKindsInv, RemoveKindsInv, EndConsolidationInv, MovesInv,
     ReadPageInv, WriteVectorsInv, PassFailsInv, ExtractInv, DeleteInv
     DEF Next, Consolidation, Reembedding

(* The rows keep their types, and every kind that is listed or that a restriction has       *)
(* keeps its node, whatever extractions, consolidations and restarts do at once              *)
(* (update_restriction_kinds, upsert_restriction and remove_unlisted_kinds).                 *)
THEOREM KindsInUseStay == Spec => []TypeOK
<1>1. VectorInv => TypeOK
  BY DEF VectorInv, TypeInv, OpOK, PassesOK, KindsOK, TypeOK
<1> QED
  BY <1>1, InitInv, StepInv, PTL DEF Spec

(* A vector that counts as current embeds the kind of its restriction, except where the *)
(* kind was changed between the read and the write of a page of a pass                     *)
(* (update_restriction_kinds, upsert_restriction and set_restriction_embeddings).          *)
THEOREM VectorsFollowKinds == Spec => []VectorEmbedsKind
<1>1. VectorInv => VectorEmbedsKind
  BY DEF VectorInv
<1> QED
  BY <1>1, InitInv, StepInv, PTL DEF Spec

=============================================================================
