------------------------- MODULE SyncQueueRefinement -------------------------
(***************************************************************************)
(* SyncQueue implements DocumentSync: a key is owed work as long as any    *)
(* carrier of it exists, durable or not - an event whose offset is not     *)
(* committed, a job that waits, sleeps or runs, a :SyncJob node, or a      *)
(* statement that will write one.                                          *)
(***************************************************************************)
EXTENDS SyncQueue

Debt == {k \in Keys :
            \/ \E i \in (committed + 1)..Len(log) : log[i].key = k
            \/ Owed(k)
            \/ current # NoJob /\ current.key = k
            \/ store[k] # NoJob
            \/ \E i \in 1..Len(writes) : writes[i].key = k /\ writes[i].value # NoJob}

Promise == INSTANCE DocumentSync WITH owed <- Debt

(***************************************************************************)
(* Every behaviour of the queue keeps the promise: the graph changes only  *)
(* in documents of a key with outstanding work, and the last carrier of a  *)
(* key disappears - its event committed, its :SyncJob deleted - only when  *)
(* the graph agrees with IDU_DVD on it (queue.py:8-14).                     *)
(***************************************************************************)
KeepsPromise == Promise!Spec
=============================================================================
