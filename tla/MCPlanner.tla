------------------------------- MODULE MCPlanner -------------------------------
(* Two norms that are planned at once: one with any votes, and one of each kind. *)
EXTENDS Planner, TLC

CONSTANTS n1, n2

PlanOf(fp, strict) == [kind |-> "plan", fp |-> fp, strict |-> strict]
Refusal(kind) == [kind |-> kind, fp |-> 0, strict |-> FALSE]

Answers == {PlanOf(1, FALSE), PlanOf(1, TRUE), PlanOf(2, FALSE),
            Refusal("refused"), Refusal("final"), Refusal("invalid"), Refusal("raised")}
Ballots == [1..Votes -> Answers]

Verdict(failed) == [garbage |-> FALSE, failed |-> failed]
Garbage == [garbage |-> TRUE, failed |-> {}]
AllYes == Verdict({"strictest_ok"})

Case == [grammar |-> FALSE, redLine |-> FALSE, candidate |-> FALSE, blocked |-> FALSE,
         known |-> TRUE, worth |-> TRUE, ballot |-> [i \in 1..Votes |-> PlanOf(1, FALSE)],
         verdicts |-> [verify_triple |-> AllYes, verify_votes |-> AllYes]]

Verdicts(triple, votes) == [verify_triple |-> triple, verify_votes |-> votes]

Balloted == {[Case EXCEPT !.ballot = b] : b \in Ballots}
            \cup {[Case EXCEPT !.ballot = b, !.verdicts = Verdicts(AllYes, v)] :
                    b \in {[i \in 1..Votes |-> PlanOf(1, i = j)] : j \in 0..Votes},
                    v \in {Garbage, Verdict({}), Verdict({"unconditional"}), Verdict({"value_ok"})}}

Simple == {[Case EXCEPT !.grammar = TRUE], [Case EXCEPT !.grammar = TRUE, !.redLine = TRUE],
           [Case EXCEPT !.redLine = TRUE, !.candidate = TRUE], [Case EXCEPT !.blocked = TRUE],
           [Case EXCEPT !.worth = FALSE, !.blocked = TRUE]}

Triples == {[Case EXCEPT !.candidate = TRUE, !.blocked = b, !.known = k, !.worth = w,
                         !.verdicts = Verdicts(v, AllYes)] :
              b \in BOOLEAN, k \in BOOLEAN, w \in BOOLEAN, v \in {AllYes, Garbage, Verdict({"value_ok"})}}

Full == [llm |-> TRUE, refine |-> TRUE, verify |-> TRUE, catalog |-> TRUE]
Unverified == [Full EXCEPT !.verify = FALSE]
Settings == {Full, Unverified, [Full EXCEPT !.refine = FALSE], [Full EXCEPT !.catalog = FALSE],
             [Full EXCEPT !.llm = FALSE]}

(* The other norm only shares the catalog with a ballot, and the model with the rest. *)
Quick == [Case EXCEPT !.grammar = TRUE]

MCSetups == {[config |-> Full, says |-> (n1 :> c) @@ (n2 :> Quick)] : c \in Balloted}
            \cup {[config |-> s, says |-> (n1 :> c) @@ (n2 :> Case)] :
                     s \in {Full, Unverified}, c \in Triples \cup {Case}}
            \cup {[config |-> s, says |-> (n1 :> c) @@ (n2 :> Quick)] :
                     s \in Settings, c \in Triples \cup Simple \cup {Case}}

=============================================================================
