----------------------------- MODULE MCSyncQueue -----------------------------
(***************************************************************************)
(* Instances of SyncQueue for TLC.                                         *)
(***************************************************************************)
EXTENDS SyncQueueRefinement

CONSTANTS d1, d2, d3, n1, shared, alice, bob

(* Two versions of one shared document. *)
OneName == [d \in Docs |-> n1]
AllShared == [d \in Docs |-> shared]

(* One name used by two users. *)
TwoUsers == [d \in Docs |-> IF d = d1 THEN alice ELSE bob]

(* One name of a shared document and of two users' documents. *)
SharedAndUsers == [d \in Docs |-> IF d = d1 THEN shared ELSE IF d = d2 THEN alice ELSE bob]

(* Bounds on failing runs and on outages. *)
SyncFailsOnce == [p \in Parts |-> IF p = "sync" THEN 1 ELSE 0]
DeleteFailsOnce == [p \in Parts |-> IF p = "delete" THEN 1 ELSE 0]
NeverFails == [p \in Parts |-> 0]
NoOutage == [c \in Callers |-> 0]
OneOutageEach == [c \in Callers |-> 1]
RetryOutage == [c \in Callers |-> IF c = "retry" THEN 1 ELSE 0]

=============================================================================
