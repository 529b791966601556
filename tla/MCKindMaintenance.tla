-------------------------- MODULE MCKindMaintenance --------------------------
(***************************************************************************)
(* KindMaintenance for TLC: two listed kinds, and two that the model       *)
(* coined before the list was closed.  "coined1" is nearer to "coined2"    *)
(* than to a listed kind, "coined2" is near enough to "limit", the rules   *)
(* know the label "ban" by itself.                                         *)
(***************************************************************************)
EXTENDS KindMaintenance

MCIds == 1..3
MCListed == {"ban", "limit"}
MCLabels == {"ban", "coined1", "coined2"}

MCRule == [l \in MCLabels |-> IF l = "ban" THEN "ban" ELSE "other"]

Match(k, close) == [kind |-> k, close |-> close]

MCNear == [l \in MCLabels |->
             CASE l = "coined1" -> <<Match("coined1", TRUE), Match("coined2", TRUE),
                                     Match("limit", TRUE), Match("ban", FALSE)>>
               [] l = "coined2" -> <<Match("coined2", TRUE), Match("limit", TRUE),
                                     Match("ban", FALSE)>>
               [] l = "ban" -> <<Match("ban", TRUE)>>]

MCHashed == [r \in MCIds |-> CASE r = 1 -> "coined1" [] r = 2 -> "coined2" [] r = 3 -> "ban"]

(* What earlier versions stored, with vectors of a former text, and what this one did. *)
Earlier(k) == <<[label |-> NoLabel, kind |-> k, vector |-> k, version |-> "old"]>>
Now(label, k) == <<[label |-> label, kind |-> k, vector |-> k, version |-> "current"]>>

MCStored == {[r \in MCIds |-> IF r = 3 THEN None ELSE Earlier(MCHashed[r])],
             [r \in MCIds |-> IF r = 1 THEN Now(MCHashed[r], MCHashed[r]) ELSE Earlier(MCHashed[r])]}

MCPasses == {"startup", "after"}

=============================================================================
