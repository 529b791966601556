---------------------------- MODULE DocumentSync ----------------------------
(***************************************************************************)
(* What NormGraph promises about synchronisation, without saying how: the  *)
(* graph follows the documents of IDU_DVD.  A registry key (a document     *)
(* name inside one scope) whose documents changed in IDU_DVD is owed work; *)
(* the graph is only ever touched for a key that is owed work, and only in *)
(* that key's own documents; a key stops being owed work only when the     *)
(* graph holds exactly what IDU_DVD holds for it.                          *)
(*                                                                         *)
(* SyncQueue.tla is the mechanism that is meant to keep this promise.      *)
(***************************************************************************)
EXTENDS Naturals

CONSTANTS Docs,     \* document identifiers, one per version of a document
          Keys,     \* registry keys
          KeyOf     \* the key a document is registered under

VARIABLES dvd,      \* the edition IDU_DVD holds of each document, 0 for none
          graph,    \* what the graph holds of each document
          owed      \* the keys whose documents may differ from IDU_DVD

vars == <<dvd, graph, owed>>

(***************************************************************************)
(* A stored document carries the edition it was ingested from.  It is      *)
(* "whole" when its clauses and restrictions are those of that edition,    *)
(* "partial" while its first extraction is unfinished, and "stale" when    *)
(* clauses of another edition may be left next to the current ones.        *)
(***************************************************************************)
DocState == [edition : Nat, state : {"whole", "partial", "stale"}]

Absent == [edition |-> 0, state |-> "whole"]

DocsOf(k) == {d \in Docs : KeyOf[d] = k}

InSync(k) == \A d \in DocsOf(k) : graph[d] = [edition |-> dvd[d], state |-> "whole"]

Init == /\ dvd = [d \in Docs |-> 0]
        /\ graph = [d \in Docs |-> Absent]
        /\ owed = {}

(* IDU_DVD changes documents of a key and announces it. *)
Announce(k) == /\ \A d \in Docs \ DocsOf(k) : dvd'[d] = dvd[d]
               /\ owed' = owed \cup {k}
               /\ UNCHANGED graph

(* Work on an owed key: only its own documents are touched. *)
Apply(k) == /\ k \in owed
            /\ \A d \in Docs \ DocsOf(k) : graph'[d] = graph[d]
            /\ UNCHANGED <<dvd, owed>>

(* Keys leave the debt only in sync. *)
Settle == /\ \E K \in SUBSET owed : owed' = owed \ K
          /\ \A k \in owed \ owed' : InSync(k)
          /\ UNCHANGED <<dvd, graph>>

Next == \/ \E k \in Keys : Announce(k) \/ Apply(k)
        \/ Settle

Spec == Init /\ [][Next]_vars
=============================================================================
