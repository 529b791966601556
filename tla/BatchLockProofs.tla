---------------------------- MODULE BatchLockProofs ----------------------------
(***************************************************************************)
(* The status of the bulk job tells the truth, for any number of units.    *)
(***************************************************************************)
EXTENDS BatchLock, TLAPS

Counts == [total : Nat, processed : Nat, succeeded : Nat, failed : Nat, skipped : Nat]

(* Of a job that is being read nothing was counted; one that has its task is said to run, *)
(* is not cancelled, and what it has done and what is left make up what was listed.         *)
JobInv ==
    /\ state = "running" /\ task = "none" => counts = NoCounts
    /\ task \in {"created", "running"} => state = "running" /\ closing = "open"
    /\ task \in {"created", "running"} /\ kind = "extraction" =>
           counts.total = counts.processed + left

IInv == BatchTypeOK /\ StatusTellsTruth /\ JobInv

LEMMA NoCountsType == NoCounts \in Counts
  BY DEF NoCounts, Counts

(* Between two requests, the job is as it was. *)
LEMMA SameJob ==
    ASSUME IInv, BatchTypeOK', UNCHANGED <<state, kind, task, left, counts, closing>>,
           ~spoiled', lock' = "bulk" <=> lock = "bulk"
    PROVE  IInv'
  BY DEF IInv, StatusTellsTruth, JobInv, BatchTypeOK

LEMMA BatchInitInv == BatchInit => IInv
<1> SUFFICES ASSUME BatchInit PROVE IInv
  OBVIOUS
<1>1. BatchTypeOK
  BY NoCountsType DEF BatchInit, BatchTypeOK, Counts
<1>2. StatusTellsTruth /\ JobInv
  BY DEF BatchInit, StatusTellsTruth, JobInv, NoCounts
<1> QED
  BY <1>1, <1>2 DEF IInv

LEMMA StartInv ==
    ASSUME IInv, NEW k \in {"extraction", "replan"}, Start(k), UNCHANGED closing
    PROVE  IInv'
<1>1. NoCounts \in Counts
  BY NoCountsType
<1>2. BatchTypeOK'
  BY <1>1 DEF IInv, BatchTypeOK, Start, Counts
<1>3. StatusTellsTruth'
  BY DEF IInv, StatusTellsTruth, Start, NoCounts
<1>4. JobInv'
  BY DEF IInv, JobInv, Start
<1> QED
  BY <1>2, <1>3, <1>4 DEF IInv

LEMMA SnapshotInv ==
    ASSUME IInv, NEW n \in 0..MaxUnits, NEW found \in 0..MaxUnits, Snapshot(n, found),
           closing = "open", UNCHANGED closing
    PROVE  IInv'
<1>1. n \in Nat /\ found \in Nat
  BY UnitsAssumption
<1>2. counts = NoCounts /\ state = "running" /\ lock = "bulk"
  BY DEF IInv, JobInv, StatusTellsTruth, Snapshot, Starting
<1>3. counts' = [total |-> n, processed |-> 0, succeeded |-> 0, failed |-> 0, skipped |-> 0]
  BY <1>2 DEF Snapshot, NoCounts
<1>4. BatchTypeOK'
  BY <1>1, <1>3 DEF IInv, BatchTypeOK, Snapshot
<1>5. StatusTellsTruth'
  BY <1>2, <1>3 DEF IInv, StatusTellsTruth, Snapshot
<1>6. JobInv'
  BY <1>1, <1>2, <1>3 DEF JobInv, Snapshot
<1> QED
  BY <1>4, <1>5, <1>6 DEF IInv

LEMMA NotStartedInv ==
    ASSUME IInv, NotStarted, UNCHANGED closing
    PROVE  IInv'
<1>1. BatchTypeOK'
  BY DEF IInv, BatchTypeOK, NotStarted, Release, Ending, StatusTellsTruth, Starting
<1>2. StatusTellsTruth'
  BY DEF IInv, StatusTellsTruth, NotStarted, Release, Starting
<1>3. JobInv'
  BY DEF NotStarted, Starting, JobInv
<1> QED
  BY <1>1, <1>2, <1>3 DEF IInv

LEMMA FirstTurnInv ==
    ASSUME IInv, FirstTurn, UNCHANGED closing
    PROVE  IInv'
  BY DEF IInv, BatchTypeOK, StatusTellsTruth, JobInv, FirstTurn

(* A unit is counted once as processed and once by how it ended. *)
LEMMA UnitInv ==
    ASSUME IInv, NEW o \in {"succeeded", "failed", "skipped"}, Unit(o), UNCHANGED closing
    PROVE  IInv'
<1>1. counts \in Counts /\ left \in Nat /\ left > 0
  BY DEF IInv, BatchTypeOK, Unit, Counts
<1>2. /\ counts' \in Counts
      /\ counts'.processed = counts.processed + 1
      /\ counts'.total = counts.total
      /\ counts'.succeeded + counts'.failed + counts'.skipped
             = counts.succeeded + counts.failed + counts.skipped + 1
  <2>1. CASE o = "succeeded"
    <3>1. counts' = [counts EXCEPT !.processed = @ + 1, !.succeeded = @ + 1]
      BY <2>1 DEF Unit
    <3>2. counts'.processed = counts.processed + 1 /\ counts'.succeeded = counts.succeeded + 1
      BY <1>1, <3>1 DEF Counts
    <3>3. counts'.failed = counts.failed /\ counts'.skipped = counts.skipped /\ counts'.total = counts.total
      BY <1>1, <3>1 DEF Counts
    <3>4. counts' = [total |-> counts.total, processed |-> counts.processed + 1, succeeded |-> counts.succeeded + 1, failed |-> counts.failed, skipped |-> counts.skipped]
      BY <1>1, <3>1 DEF Counts
    <3>5. counts' \in Counts
      BY <1>1, <3>4 DEF Counts
    <3> QED
      BY <1>1, <3>2, <3>3, <3>5 DEF Counts
  <2>2. CASE o = "failed"
    <3>1. counts' = [counts EXCEPT !.processed = @ + 1, !.failed = @ + 1]
      BY <2>2 DEF Unit
    <3>2. counts'.processed = counts.processed + 1 /\ counts'.failed = counts.failed + 1
      BY <1>1, <3>1 DEF Counts
    <3>3. counts'.succeeded = counts.succeeded /\ counts'.skipped = counts.skipped /\ counts'.total = counts.total
      BY <1>1, <3>1 DEF Counts
    <3>4. counts' = [total |-> counts.total, processed |-> counts.processed + 1, succeeded |-> counts.succeeded, failed |-> counts.failed + 1, skipped |-> counts.skipped]
      BY <1>1, <3>1 DEF Counts
    <3>5. counts' \in Counts
      BY <1>1, <3>4 DEF Counts
    <3> QED
      BY <1>1, <3>2, <3>3, <3>5 DEF Counts
  <2>3. CASE o = "skipped"
    <3>1. counts' = [counts EXCEPT !.processed = @ + 1, !.skipped = @ + 1]
      BY <2>3 DEF Unit
    <3>2. counts'.processed = counts.processed + 1 /\ counts'.skipped = counts.skipped + 1
      BY <1>1, <3>1 DEF Counts
    <3>3. counts'.succeeded = counts.succeeded /\ counts'.failed = counts.failed /\ counts'.total = counts.total
      BY <1>1, <3>1 DEF Counts
    <3>4. counts' = [total |-> counts.total, processed |-> counts.processed + 1, succeeded |-> counts.succeeded, failed |-> counts.failed, skipped |-> counts.skipped + 1]
      BY <1>1, <3>1 DEF Counts
    <3>5. counts' \in Counts
      BY <1>1, <3>4 DEF Counts
    <3> QED
      BY <1>1, <3>2, <3>3, <3>5 DEF Counts
  <2> QED
    BY <2>1, <2>2, <2>3
<1>3. left' = left - 1 /\ left' \in Nat /\ state = "running"
  BY <1>1 DEF IInv, JobInv, Unit
<1>4. BatchTypeOK'
  BY <1>2, <1>3 DEF IInv, BatchTypeOK, Unit, Counts
<1>5. StatusTellsTruth'
  BY <1>2, <1>3 DEF IInv, StatusTellsTruth, Unit
<1>6. JobInv'
  BY <1>1, <1>2, <1>3 DEF IInv, JobInv, Unit, Counts
<1> QED
  BY <1>4, <1>5, <1>6 DEF IInv

(* However a job ends: what its state says of the counts is all there is to show. *)
LEMMA OverInv ==
    ASSUME IInv, task = "running", NEW how \in Ending, Over(how),
           closing' \in {"open", "cancelled", "closed"},
           kind = "extraction" /\ how = "completed" => counts.succeeded = counts.total,
           kind = "extraction" /\ how = "completed_with_errors" =>
               counts.processed = counts.total /\ counts.succeeded < counts.total
    PROVE  IInv'
<1>1. state = "running" /\ lock = "bulk" /\ how # "running"
  BY DEF IInv, JobInv, StatusTellsTruth, Ending
<1>2. BatchTypeOK'
  BY <1>1 DEF IInv, BatchTypeOK, Over, Release, StatusTellsTruth
<1>3. StatusTellsTruth'
  BY <1>1 DEF IInv, StatusTellsTruth, Over, Release
<1>4. JobInv'
  BY <1>1 DEF JobInv, Over
<1> QED
  BY <1>2, <1>3, <1>4 DEF IInv

LEMMA CompleteInv ==
    ASSUME IInv, Complete, UNCHANGED closing
    PROVE  IInv'
<1> DEFINE how == IF counts.failed + counts.skipped > 0 THEN "completed_with_errors"
                  ELSE "completed"
<1>1. task = "running" /\ left = 0 /\ Over(how) /\ how \in Ending
  BY DEF Complete, Ending
<1>2. counts \in Counts /\ closing' \in {"open", "cancelled", "closed"}
  BY DEF IInv, BatchTypeOK, Counts
<1>3. kind = "extraction" => counts.total = counts.processed
  BY <1>1, <1>2 DEF IInv, JobInv, Counts
<1>4. counts.processed = counts.succeeded + counts.failed + counts.skipped
  BY DEF IInv, StatusTellsTruth
<1>5. kind = "extraction" /\ how = "completed" => counts.succeeded = counts.total
  BY <1>2, <1>3, <1>4 DEF Counts
<1>6. kind = "extraction" /\ how = "completed_with_errors" =>
          counts.processed = counts.total /\ counts.succeeded < counts.total
  BY <1>2, <1>3, <1>4 DEF Counts
<1> HIDE DEF how
<1> QED
  BY <1>1, <1>2, <1>5, <1>6, OverInv

LEMMA CancelInv ==
    ASSUME IInv, Cancel
    PROVE  IInv'
<1>1. CASE task = "running"
  <2>1. Over("interrupted") /\ "interrupted" \in Ending /\ closing' = "cancelled"
    BY <1>1 DEF Cancel, Ending
  <2> QED
    BY <1>1, <2>1, OverInv
<1>2. CASE task # "running"
  BY <1>2 DEF IInv, BatchTypeOK, StatusTellsTruth, JobInv, Cancel
<1> QED
  BY <1>1, <1>2

LEMMA ClosedInv ==
    ASSUME IInv, Closed
    PROVE  IInv'
<1>1. CASE state = "running"
  <2>1. state' = "interrupted" /\ lock = "bulk" /\ lock' = "nobody" /\ ~spoiled'
    BY <1>1 DEF Closed, Release, IInv, StatusTellsTruth
  <2>2. task' = task /\ task \notin {"created", "running"}
    BY DEF Closed, IInv, JobInv
  <2>3. UNCHANGED <<kind, task, left, counts>> /\ closing' = "closed"
    BY DEF Closed
  <2>4. BatchTypeOK'
    BY <1>1, <2>1, <2>3 DEF Closed, Release, IInv, BatchTypeOK, StatusTellsTruth, Ending
  <2>5. StatusTellsTruth'
    BY <2>1, <2>3 DEF IInv, StatusTellsTruth
  <2>6. JobInv'
    BY <2>1, <2>2 DEF JobInv
  <2> QED
    BY <2>4, <2>5, <2>6 DEF IInv
<1>2. CASE state # "running"
  BY <1>2 DEF Closed, IInv, BatchTypeOK, StatusTellsTruth, JobInv
<1> QED
  BY <1>1, <1>2

LEMMA BatchStepInv == IInv /\ [BatchNext]_batchVars => IInv'
<1> SUFFICES ASSUME IInv, [BatchNext]_batchVars
             PROVE  IInv'
  OBVIOUS
<1>1. ASSUME NEW k \in {"extraction", "replan"}, Start(k), UNCHANGED closing
      PROVE  IInv'
  BY <1>1, StartInv
<1>2. ASSUME Read, closing = "open", UNCHANGED closing
      PROVE  IInv'
  BY <1>2, NotStartedInv, SnapshotInv DEF Read
<1>3. ASSUME Proceed, UNCHANGED closing
      PROVE  IInv'
  <2>1. CASE JobFails
    <3>1. task = "running" /\ Over("failed") /\ "failed" \in Ending
      BY <2>1 DEF JobFails, Ending
    <3>2. closing' \in {"open", "cancelled", "closed"}
      BY <1>3 DEF IInv, BatchTypeOK
    <3> QED
      BY <3>1, <3>2, OverInv
  <2> QED
    BY <1>3, <2>1, FirstTurnInv, UnitInv, CompleteInv DEF Proceed
<1>4. ASSUME StartManual, UNCHANGED closing
      PROVE  IInv'
  <2>1. BatchTypeOK' /\ ~spoiled'
    BY <1>4 DEF IInv, BatchTypeOK, StatusTellsTruth, StartManual
  <2> QED
    BY <1>4, <2>1, SameJob DEF StartManual
<1>5. ASSUME EndManual, UNCHANGED closing
      PROVE  IInv'
  <2>1. BatchTypeOK' /\ ~spoiled'
    BY <1>5 DEF IInv, BatchTypeOK, StatusTellsTruth, EndManual, Release
  <2> QED
    BY <1>5, <2>1, SameJob DEF EndManual, Release
<1>6. CASE UNCHANGED batchVars
  BY <1>6 DEF batchVars, IInv, BatchTypeOK, StatusTellsTruth, JobInv
<1> QED
  BY <1>1, <1>2, <1>3, <1>4, <1>5, <1>6, CancelInv, ClosedInv DEF BatchNext

(* A bulk job that is said to run holds the lock, nobody gives back what another holds,   *)
(* and of a job of documents that completed every one was processed, whatever requests    *)
(* and a shutdown do in between.                                                           *)
THEOREM StatusIsTrue == BatchSpec => []StatusTellsTruth
<1>1. IInv => StatusTellsTruth
  BY DEF IInv
<1> QED
  BY <1>1, BatchInitInv, BatchStepInv, PTL DEF BatchSpec

=============================================================================
