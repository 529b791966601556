------------------------------- MODULE BatchLock -------------------------------
(***************************************************************************)
(* The one bulk job of the admin panel and the lock that it shares with    *)
(* the manual operations (BulkReprocessing in                              *)
(* src/admin_service/reprocessing.py, exclusive_operation in               *)
(* src/admin_service/router.py).  Who finds the lock taken is turned away  *)
(* and changes nothing.                                                    *)
(*                                                                         *)
(* A job re-extracts the documents that were listed when it began, or      *)
(* re-plans norms page by page.  Units are documents, or norms with pages  *)
(* of one; there are at most MaxUnits.                                     *)
(***************************************************************************)
EXTENDS Integers

CONSTANT MaxUnits

ASSUME UnitsAssumption == MaxUnits \in Nat

VARIABLES
    lock,       \* who holds _lock: "nobody", "bulk" or "manual"
    state,      \* the state that status() reports
    kind,       \* "extraction" or "replan"
    task,       \* _task: "none", "created", "running" or "over"
    left,       \* units of the job that are left
    counts,     \* [total, processed, succeeded, failed, skipped], of status()
    closing,    \* "open"; "cancelled" and not yet checked by aclose(); "closed"
    spoiled     \* a lock was released that was not held: asyncio raises

batchVars == <<lock, state, kind, task, left, counts, closing, spoiled>>

Ending == {"completed", "completed_with_errors", "failed", "interrupted"}

NoCounts == [total |-> 0, processed |-> 0, succeeded |-> 0, failed |-> 0, skipped |-> 0]

BatchTypeOK ==
    /\ lock \in {"nobody", "bulk", "manual"}
    /\ state \in {"idle", "running"} \cup Ending
    /\ kind \in {"extraction", "replan"}
    /\ task \in {"none", "created", "running", "over"}
    /\ left \in Nat
    /\ counts \in [total : Nat, processed : Nat, succeeded : Nat, failed : Nat, skipped : Nat]
    /\ closing \in {"open", "cancelled", "closed"}
    /\ spoiled \in BOOLEAN

BatchInit ==
    /\ lock = "nobody" /\ state = "idle" /\ kind = "extraction" /\ task = "none"
    /\ left = 0 /\ counts = NoCounts /\ closing = "open" /\ spoiled = FALSE

Release == /\ lock' = "nobody"
           /\ spoiled' = (spoiled \/ lock = "nobody")

(* start() and start_replanning(), up to the reading of what there is to do. *)
Start(k) ==
    /\ lock = "nobody"
    /\ lock' = "bulk"
    /\ state' = "running" /\ kind' = k /\ task' = "none" /\ counts' = NoCounts
    /\ UNCHANGED <<left, spoiled>>

Starting == state = "running" /\ task = "none"

(* It was read, and the task is created.  A job of documents works through the n it read; *)
(* the norms to re-plan are counted first and found page by page.                          *)
Snapshot(n, found) ==
    /\ Starting
    /\ kind = "extraction" => found = n
    /\ left' = found
    /\ counts' = [counts EXCEPT !.total = n]
    /\ task' = "created"
    /\ UNCHANGED <<lock, state, kind, spoiled>>

(* It was not (_not_started). *)
NotStarted ==
    /\ Starting
    /\ state' = "failed"
    /\ Release
    /\ UNCHANGED <<kind, task, left, counts>>

(* The first turn of the task. *)
FirstTurn ==
    /\ task = "created"
    /\ task' = "running"
    /\ UNCHANGED <<lock, state, kind, left, counts, spoiled>>

(* One document of _run, or one page of _replan. *)
Unit(outcome) ==
    /\ task = "running" /\ left > 0
    /\ outcome = "skipped" => kind = "extraction"
    /\ left' = left - 1
    /\ counts' = [counts EXCEPT !.processed = @ + 1, ![outcome] = @ + 1]
    /\ UNCHANGED <<lock, state, kind, task, spoiled>>

(* The finally block of either. *)
Over(how) ==
    /\ task' = "over"
    /\ state' = how
    /\ Release
    /\ UNCHANGED <<kind, left, counts>>

Complete ==
    /\ task = "running" /\ left = 0
    /\ Over(IF counts.failed + counts.skipped > 0 THEN "completed_with_errors" ELSE "completed")

(* An error that is not of one document: only _replan has one. *)
JobFails == task = "running" /\ kind = "replan" /\ Over("failed")

(* A manual operation (single_operation). *)
StartManual ==
    /\ lock = "nobody"
    /\ lock' = "manual"
    /\ UNCHANGED <<state, kind, task, left, counts, spoiled>>

EndManual ==
    /\ lock = "manual"
    /\ Release
    /\ UNCHANGED <<state, kind, task, left, counts>>

(* aclose, once no request is served: the task is cancelled, and its finally block runs *)
(* if it had its first turn.                                                             *)
Cancel ==
    /\ closing = "open" /\ ~Starting /\ lock # "manual"
    /\ closing' = "cancelled"
    /\ IF task = "running" THEN Over("interrupted")
       ELSE /\ task' = "over"
            /\ UNCHANGED <<lock, state, kind, left, counts, spoiled>>

(* Mutant: aclose leaves it to the task to give the lock back. *)
ClosedByTask == closing = "cancelled" /\ closing' = "closed"
                /\ UNCHANGED <<lock, state, kind, task, left, counts, spoiled>>

(* Mutant: aclose does not look whether the task has given the lock back. *)
ClosedAlways ==
    /\ closing = "cancelled" /\ closing' = "closed"
    /\ state' = "interrupted" /\ Release
    /\ UNCHANGED <<kind, task, left, counts>>

(* A task that was cancelled before that has no finally block: aclose does it. *)
Closed ==
    /\ closing = "cancelled" /\ closing' = "closed"
    /\ \/ state = "running" /\ state' = "interrupted" /\ Release
       \/ state # "running" /\ UNCHANGED <<lock, state, spoiled>>
    /\ UNCHANGED <<kind, task, left, counts>>

Read == NotStarted \/ \E n, found \in 0..MaxUnits : Snapshot(n, found)

Proceed ==
    \/ FirstTurn
    \/ \E o \in {"succeeded", "failed", "skipped"} : Unit(o)
    \/ Complete \/ JobFails

BatchNext ==
    \/ /\ closing = "open" /\ UNCHANGED closing
       /\ \/ \E k \in {"extraction", "replan"} : Start(k)
          \/ Read \/ Proceed
          \/ StartManual \/ EndManual
    \/ Cancel \/ Closed

(* What was begun goes on: the loop is fair to the request and to the task, and each unit *)
(* ends, since the calls it makes have timeouts.                                           *)
BatchSpec ==
    /\ BatchInit /\ [][BatchNext]_batchVars
    /\ WF_batchVars(closing = "open" /\ Read /\ UNCHANGED closing)
    /\ WF_batchVars(closing = "open" /\ Proceed /\ UNCHANGED closing)
    /\ WF_batchVars(Closed)

-----------------------------------------------------------------------------
(* The status tells the truth about the lock: a job that is said to run holds it until   *)
(* its end is recorded, and nobody gives back what another holds; of a job of documents   *)
(* that completed, every document listed was processed (BulkReprocessing).               *)
StatusTellsTruth ==
    /\ ~spoiled
    /\ lock = "bulk" <=> state = "running"
    /\ counts.processed = counts.succeeded + counts.failed + counts.skipped
    /\ kind = "extraction" /\ state = "completed" => counts.succeeded = counts.total
    /\ kind = "extraction" /\ state = "completed_with_errors" =>
           counts.processed = counts.total /\ counts.succeeded < counts.total

(* A batch does not keep the lock for good, the one that is cancelled before its first   *)
(* turn included (_run, _replan, aclose).                                                 *)
LockIsGivenBack == lock = "bulk" ~> lock # "bulk"

=============================================================================
