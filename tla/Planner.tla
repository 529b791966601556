-------------------------------- MODULE Planner --------------------------------
(***************************************************************************)
(* Planning one norm after another, several at once: the passes of         *)
(* CheckPlanPlanner (src/pipeline/check_plan_planner.py) with the votes    *)
(* and the verifier of NormRefiner (src/pipeline/norm_refiner.py), over    *)
(* the shared snapshot of the dictionaries (CatalogProvider).              *)
(*                                                                         *)
(* What a norm says to the grammar, to the triple planner and to the model *)
(* is settled beforehand, as the calls are seeded by the norm:             *)
(*   grammar    the clause matches the grammar of spatial rules            *)
(*   redLine    it is about red lines, which no dictionary holds           *)
(*   candidate  the triple planner builds a plan                           *)
(*   blocked    it has reasons against the plan, or none to build          *)
(*   known      the layers of that plan are in the dictionaries            *)
(*   worth      it may be about territory (_worth_rewriting)               *)
(*   ballot     what the compiler makes of each vote of the model          *)
(*   verdicts   what the verifier answers on either plan                   *)
(* That a call fails is not: any attempt may.                              *)
(***************************************************************************)
EXTENDS CatalogProvider, FiniteSets, Sequences

CONSTANTS
    Norms,          \* the norms being planned, the callers of the catalog
    Setups,         \* [config: the settings, says: a function from Norms]
    Votes,          \* readings that are asked for at most
    Agreement,      \* equal readings that are needed
    Permits         \* calls of the model at once (concurrency)

ASSUME CallersAssumption == Callers = Norms

ASSUME VotesAssumption == Votes \in Nat \ {0} /\ Agreement \in 1..Votes /\ Permits \in Nat \ {0}

VARIABLES
    config,         \* [llm, refine, verify, catalog: BOOLEAN], of one of Setups
    says,           \* what each norm says, of the same
    stage,          \* [Norms -> how far plan_with_trace is]
    call,           \* [Norms -> the call of the model: none, queued, first or second attempt]
    counted,        \* [Norms -> votes that were answered]
    reasons,        \* [Norms -> reasons so far]
    result,         \* [Norms -> the plan that was returned]
    outages         \* [Norms -> calls that failed twice], an observation

vars == <<catalogVars, config, says, stage, call, counted, reasons, result, outages>>

NoPlan == [by |-> "none"]
Triple == [by |-> "triple"]
Grammar == [by |-> "grammar"]
Voted(plan) == [by |-> "votes", fp |-> plan.fp, strict |-> plan.strict]

AutoPlan(plan) == [status |-> "auto", plan |-> plan, reasons |-> {}]
Unsupported(why, candidate) ==
    [status |-> "unsupported", plan |-> candidate,
     reasons |-> IF why = {} THEN {"no_executable_template"} ELSE why]
Unanswered == [status |-> "none", plan |-> NoPlan, reasons |-> {}]

Init ==
    /\ CatalogInit
    /\ \E setup \in Setups : config = setup.config /\ says = setup.says
    /\ stage = [n \in Norms |-> "catalog"]
    /\ call = [n \in Norms |-> "none"]
    /\ counted = [n \in Norms |-> 0]
    /\ reasons = [n \in Norms |-> {}]
    /\ result = [n \in Norms |-> Unanswered]
    /\ outages = [n \in Norms |-> 0]

Candidate(n) == IF says[n].candidate THEN Triple ELSE NoPlan

-----------------------------------------------------------------------------
(* Votes.  An answer of a vote is [kind, fp, strict]: a plan with its fingerprint and   *)
(* whether it keeps the strictest of several values; a refusal; a refusal that the norm *)
(* cannot be checked at all ("final"); no spec at all ("invalid"); or a spec over which *)
(* the compiler raises, which rewrite() does not catch ("raised").                      *)

PlansWith(ballot, k, fp) == {i \in 1..k : ballot[i].kind = "plan" /\ ballot[i].fp = fp}
Fingerprints(ballot, k) == {ballot[i].fp : i \in {j \in 1..k : ballot[j].kind = "plan"}}
NoneRaised(ballot, k) == \A j \in 1..k : ballot[j].kind # "raised"

(* _agreed: the plans of one fingerprint, if they are enough. *)
Agreed(ballot, k) ==
    {fp \in Fingerprints(ballot, k) : Cardinality(PlansWith(ballot, k, fp)) >= Agreement}

(* Mutant: one vote too few is left. *)
CanAgreeTooLate(ballot, k) ==
    \E fp \in Fingerprints(ballot, k) :
        Cardinality(PlansWith(ballot, k, fp)) + (Votes - k - 1) >= Agreement

(* _can_agree: whether the votes that are left can still make an agreement. *)
CanAgree(ballot, k) ==
    \/ Votes - k >= Agreement
    \/ \E fp \in Fingerprints(ballot, k) :
          Cardinality(PlansWith(ballot, k, fp)) + (Votes - k) >= Agreement

(* The loop of rewrite() ends after the k-th vote. *)
Uncheckable(ballot, k) == ballot[k].kind = "final" /\ Fingerprints(ballot, k) = {}
Decided(ballot, k) == \/ Uncheckable(ballot, k)
                      \/ Agreed(ballot, k) # {}
                      \/ ~CanAgree(ballot, k)

Least(S) == CHOOSE i \in S : \A j \in S : i <= j

(* The plan that rewrite() keeps of the agreed ones: the first that takes the strictest *)
(* of several values, or the first.                                                     *)
Kept(ballot, S) ==
    LET strict == {i \in S : ballot[i].strict}
    IN Voted(ballot[IF strict # {} THEN Least(strict) ELSE Least(S)])

(* What rewrite() returns after k votes: [plan, candidate, reasons]. *)
Outcome(ballot, k) ==
    LET plans == {i \in 1..k : ballot[i].kind = "plan"}
        refusals == (1..k) \ plans
        refusal == IF refusals = {} THEN {} ELSE {ballot[Least(refusals)].kind}
        agreed == CHOOSE fp \in Agreed(ballot, k) : TRUE
    IN IF Agreed(ballot, k) # {}
       THEN [plan |-> Kept(ballot, PlansWith(ballot, k, agreed)), candidate |-> NoPlan, reasons |-> {}]
       ELSE IF plans # {}
       THEN [plan |-> NoPlan, candidate |-> Voted(ballot[Least(plans)]),
             reasons |-> {"rewrite_votes_disagree"} \cup refusal]
       ELSE [plan |-> NoPlan, candidate |-> NoPlan, reasons |-> refusal]

(* Mutant: the verifier is asked the same of a plan that takes the strictest value. *)
FailedKeysAlike(plan, verdict) == verdict.failed \ {"strictest_ok"}

(* verify(): what counts of the answer; "strictest_ok" stands in for "unconditional". *)
FailedKeys(plan, verdict) ==
    verdict.failed \ {IF plan.by = "votes" /\ plan.strict THEN "unconditional" ELSE "strictest_ok"}

VerdictReasons(plan, verdict) ==
    IF verdict.garbage THEN {"verifier_invalid_output"} ELSE FailedKeys(plan, verdict)

-----------------------------------------------------------------------------
(* The passes of plan_with_trace. *)

Finish(n, answer) ==
    /\ stage' = [stage EXCEPT ![n] = "done"]
    /\ result' = [result EXCEPT ![n] = answer]

(* A call of the model queues for a permit. *)
Ask(n, next) == /\ stage' = [stage EXCEPT ![n] = next]
                /\ call' = [call EXCEPT ![n] = "queued"]

(* Pass 3 is entered with these reasons, or the norm is blocked for them. *)
RewriteOrBlock(n, why) ==
    LET tried == config.llm /\ config.refine /\ says[n].worth
    IN /\ reasons' = [reasons EXCEPT ![n] = why]
       /\ IF tried /\ view[n] # Nothing
          THEN Ask(n, "rewrite") /\ UNCHANGED result
          ELSE Finish(n, Unsupported(why, Candidate(n))) /\ call' = [call EXCEPT ![n] = "none"]

(* await self.catalog.get(). *)
GetCatalog(n) ==
    /\ stage[n] = "catalog"
    /\ IF config.catalog THEN Get(n) ELSE GetNothing(n)
    /\ UNCHANGED <<config, says, stage, call, counted, reasons, result, outages>>

TakeLock(n) == Acquire(n) /\ UNCHANGED <<config, says, stage, call, counted, reasons, result, outages>>

LoadCatalog(n) == Load(n) /\ UNCHANGED <<config, says, stage, call, counted, reasons, result, outages>>

(* What get() does not catch fails the planning of the norm. *)
Raised(n) ==
    /\ stage[n] = "catalog" /\ fetch[n] = "raised"
    /\ stage' = [stage EXCEPT ![n] = "raised"]
    /\ UNCHANGED <<catalogVars, config, says, call, counted, reasons, result, outages>>

(* Passes 0, 1 and 2, up to the first call of the model. *)
FirstPasses(n) ==
    LET case == says[n]
        first == IF case.blocked /\ ~case.grammar THEN {"first_pass"} ELSE {}
        unknown == case.candidate /\ view[n] # Nothing /\ ~case.known
        why == IF first = {} /\ unknown THEN {"entity_not_in_catalog"} ELSE first
    IN /\ stage[n] = "catalog" /\ fetch[n] = "got"
       /\ \/ /\ case.redLine
             /\ Finish(n, Unsupported({"red_line_not_in_data"} \cup first,
                                      IF case.grammar THEN Grammar ELSE Candidate(n)))
             /\ UNCHANGED <<call, reasons>>
          \/ /\ ~case.redLine /\ case.grammar
             /\ Finish(n, AutoPlan(Grammar))
             /\ UNCHANGED <<call, reasons>>
          \/ /\ ~case.redLine /\ ~case.grammar /\ case.candidate /\ why = {}
             /\ IF config.llm /\ config.verify
                THEN Ask(n, "verify_triple") /\ UNCHANGED result
                ELSE Finish(n, AutoPlan(Triple)) /\ UNCHANGED call
             /\ UNCHANGED reasons
          \/ /\ ~case.redLine /\ ~case.grammar /\ (~case.candidate \/ why # {})
             /\ RewriteOrBlock(n, why)
       /\ UNCHANGED <<catalogVars, config, says, counted, outages>>

-----------------------------------------------------------------------------
(* The calls of the model (_complete): a permit is held over both attempts. *)

Calling == {n \in Norms : call[n] \in {"first", "second"}}

TakePermit(n) ==
    /\ call[n] = "queued"
    /\ Cardinality(Calling) < Permits
    /\ call' = [call EXCEPT ![n] = "first"]
    /\ UNCHANGED <<catalogVars, config, says, stage, counted, reasons, result, outages>>

(* The first attempt failed: the other follows after a second. *)
Retry(n) ==
    /\ call[n] = "first"
    /\ call' = [call EXCEPT ![n] = "second"]
    /\ UNCHANGED <<catalogVars, config, says, stage, counted, reasons, result, outages>>

(* A vote came in; the loop goes on to the next, or rewrite() returns, or what compile() *)
(* raises fails the planning of the norm.                                                *)
VoteAnswered(n) ==
    LET ballot == says[n].ballot
        k == counted[n] + 1
        outcome == Outcome(ballot, k)
        why == reasons[n] \cup outcome.reasons
        candidate == IF says[n].candidate THEN Triple ELSE outcome.candidate
    IN /\ stage[n] = "rewrite" /\ n \in Calling
       /\ counted' = [counted EXCEPT ![n] = k]
       /\ \/ /\ ballot[k].kind = "raised"
             /\ stage' = [stage EXCEPT ![n] = "raised"]
             /\ call' = [call EXCEPT ![n] = "none"]
             /\ UNCHANGED <<reasons, result>>
          \/ /\ ballot[k].kind # "raised" /\ k < Votes /\ ~Decided(ballot, k)
             /\ call' = [call EXCEPT ![n] = "queued"]
             /\ UNCHANGED <<stage, reasons, result>>
          \/ /\ ballot[k].kind # "raised" /\ (k = Votes \/ Decided(ballot, k))
             /\ IF outcome.plan = NoPlan
                THEN /\ Finish(n, Unsupported(why, candidate))
                     /\ call' = [call EXCEPT ![n] = "none"]
                     /\ reasons' = [reasons EXCEPT ![n] = why]
                ELSE /\ IF config.verify
                        THEN Ask(n, "verify_votes") /\ UNCHANGED result
                        ELSE /\ Finish(n, AutoPlan(outcome.plan))
                             /\ call' = [call EXCEPT ![n] = "none"]
                     /\ UNCHANGED reasons
       /\ UNCHANGED <<catalogVars, config, says, outages>>

(* The plan under verification. *)
Verified(n) == IF stage[n] = "verify_triple" THEN Triple
               ELSE Outcome(says[n].ballot, counted[n]).plan

(* The end of verify() with these reasons: a triple plan that fails is read again, a *)
(* rewritten one is blocked.                                                          *)
Judged(n, why) ==
    /\ \/ /\ why = {}
          /\ Finish(n, AutoPlan(Verified(n)))
          /\ call' = [call EXCEPT ![n] = "none"]
          /\ UNCHANGED reasons
       \/ /\ why # {} /\ stage[n] = "verify_triple"
          /\ RewriteOrBlock(n, why)
       \/ /\ why # {} /\ stage[n] = "verify_votes"
          /\ Finish(n, Unsupported(why, Verified(n)))
          /\ call' = [call EXCEPT ![n] = "none"]
          /\ UNCHANGED reasons

Verifying(n) == stage[n] \in {"verify_triple", "verify_votes"} /\ n \in Calling

VerifierAnswered(n) ==
    /\ Verifying(n)
    /\ Judged(n, VerdictReasons(Verified(n), says[n].verdicts[stage[n]]))
    /\ UNCHANGED <<catalogVars, config, says, counted, outages>>

(* Mutant: a plan that could not be verified runs. *)
CallFailedOpen(n) ==
    /\ call[n] = "second"
    /\ outages' = [outages EXCEPT ![n] = @ + 1]
    /\ Verifying(n) /\ Judged(n, {})
    /\ UNCHANGED <<catalogVars, config, says, counted>>

(* Mutant: what failed is asked again. *)
CallFailedAgain(n) ==
    /\ call[n] = "second"
    /\ outages' = [outages EXCEPT ![n] = @ + 1]
    /\ call' = [call EXCEPT ![n] = "queued"]
    /\ UNCHANGED <<catalogVars, config, says, stage, counted, reasons, result>>

(* Both attempts failed.  An outage during the votes ends them, with the plans they gave. *)
CallFailed(n) ==
    LET why == reasons[n] \cup {"rewrite_llm_failed"}
    IN /\ call[n] = "second"
       /\ outages' = [outages EXCEPT ![n] = @ + 1]
       /\ \/ /\ stage[n] = "rewrite"
             /\ Finish(n, Unsupported(why, Candidate(n)))
             /\ call' = [call EXCEPT ![n] = "none"]
             /\ reasons' = [reasons EXCEPT ![n] = why]
          \/ Verifying(n) /\ Judged(n, {"verifier_llm_failed"})
       /\ UNCHANGED <<catalogVars, config, says, counted>>

Time == Tick /\ UNCHANGED <<config, says, stage, call, counted, reasons, result, outages>>

Plan(n) ==
    \/ GetCatalog(n) \/ TakeLock(n) \/ LoadCatalog(n) \/ Raised(n) \/ FirstPasses(n)
    \/ TakePermit(n) \/ Retry(n) \/ VoteAnswered(n) \/ VerifierAnswered(n) \/ CallFailed(n)

Ended == \A n \in Norms : stage[n] \in {"done", "raised"}

Next == (\E n \in Norms : Plan(n)) \/ Time

(* Calls and loads end, by an answer or by their timeouts, and the event loop lets *)
(* everyone go on; the locks are handed over in order.                             *)
Spec == Init /\ [][Next]_vars /\ \A n \in Norms : WF_vars(Plan(n))

-----------------------------------------------------------------------------
(* Types and ranges; a norm is asked for no more votes than there are, and costs two *)
(* outages at most (rewrite and verify give up after one).                            *)
TypeOK ==
    /\ CatalogTypeOK
    /\ stage \in [Norms -> {"catalog", "verify_triple", "rewrite", "verify_votes", "done", "raised"}]
    /\ call \in [Norms -> {"none", "queued", "first", "second"}]
    /\ counted \in [Norms -> 0..Votes]
    /\ outages \in [Norms -> 0..2]

(* The votes of a norm were all asked for and answered, so far as they were needed. *)
Voting(n) == /\ counted[n] > 0 /\ stage[n] \notin {"rewrite", "raised"}
             /\ "rewrite_llm_failed" \notin reasons[n]

(* Votes are left out only when they could not change the outcome: the plan that the     *)
(* votes agree in is the one that all the votes would agree in, unless the first vote to *)
(* be understood found the norm uncheckable (rewrite of norm_refiner.py).                *)
EarlyStopSound ==
    \A n \in Norms : Voting(n) =>
        LET ballot == says[n].ballot
            uncheckable == \E k \in 1..counted[n] : Uncheckable(ballot, k)
        IN Agreed(ballot, counted[n]) = IF uncheckable THEN {} ELSE Agreed(ballot, Votes)

(* The verifier says yes to all that it is asked of a plan. *)
Confirmed(verdict, strict) ==
    ~verdict.garbage /\ \A key \in verdict.failed :
                           key = IF strict THEN "unconditional" ELSE "strictest_ok"

(* A plan of the triple planner or of the votes that is to run was confirmed by the *)
(* verifier if there is one, and for the value that it takes (verify).               *)
AutoIsConfirmed ==
    \A n \in Norms : LET plan == result[n].plan IN
        /\ result[n].status = "auto" /\ plan.by # "grammar" /\ config.llm /\ config.verify
        => Confirmed(says[n].verdicts[IF plan.by = "triple" THEN "verify_triple" ELSE "verify_votes"],
                     plan.by = "votes" /\ plan.strict)

(* Whether a plan would run if no call failed, with the snapshot that the norm was given. *)
WouldRun(n) ==
    LET case == says[n]
        unblocked == case.candidate /\ ~case.blocked /\ (view[n] # Nothing => case.known)
        verified(stage_, strict) == config.verify => Confirmed(case.verdicts[stage_], strict)
        triple == unblocked /\ (config.llm => verified("verify_triple", FALSE))
        voted == /\ config.llm /\ config.refine /\ case.worth /\ view[n] # Nothing
                 /\ \E k \in 1..Votes : \E fp \in Agreed(case.ballot, k) :
                       /\ NoneRaised(case.ballot, k)
                       /\ \E i \in PlansWith(case.ballot, k, fp) :
                             verified("verify_votes", case.ballot[i].strict)
    IN ~case.redLine /\ (case.grammar \/ triple \/ voted)

(* An outage of the model never lets a norm run that would be blocked without it: it *)
(* only blocks ("Nothing here can loosen a refusal", norm_refiner.py).               *)
OutageOnlyBlocks == \A n \in Norms : result[n].status = "auto" => WouldRun(n)

(* Every norm is planned, or its planning fails, whatever the model and the Urban API do *)
(* and however many norms share the lock of the catalog and the permits of the model.    *)
PlanEnds == \A n \in Norms : <>(stage[n] \in {"done", "raised"})

=============================================================================
