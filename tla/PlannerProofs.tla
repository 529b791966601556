----------------------------- MODULE PlannerProofs -----------------------------
(***************************************************************************)
(* What holds of planning for any number of norms, votes and permits,      *)
(* whatever the norms say: no plan of the model or of the triple planner   *)
(* runs that the verifier did not confirm, or that only a failed call lets *)
(* run; votes that are left out change nothing; and no load of the         *)
(* dictionaries starts while there is a snapshot in its time.              *)
(***************************************************************************)
EXTENDS Planner, FiniteSetTheorems, WellFoundedInduction, TLAPS

(* How the planner keeps what it returned, and what of it runs. *)
Shape == /\ stage = [n \in Norms |-> stage[n]]
         /\ result = [n \in Norms |-> result[n]]

ConfirmedInv == Shape /\ AutoIsConfirmed

(* A plan that may be returned for a norm. *)
MayRun(n, plan) ==
    plan.by # "grammar" /\ config.llm /\ config.verify
    => Confirmed(says[n].verdicts[IF plan.by = "triple" THEN "verify_triple" ELSE "verify_votes"],
                 plan.by = "votes" /\ plan.strict)

-----------------------------------------------------------------------------
(* Steps that return nothing keep the invariant, and so do those that return what may run. *)

LEMMA NothingChanged ==
    ASSUME ConfirmedInv, UNCHANGED <<config, says, result, stage>>
    PROVE  ConfirmedInv'
  BY DEF ConfirmedInv, Shape, AutoIsConfirmed

LEMMA NothingReturned ==
    ASSUME ConfirmedInv, UNCHANGED <<config, says, result>>,
           NEW n \in Norms, NEW next, stage' = [stage EXCEPT ![n] = next]
    PROVE  ConfirmedInv'
<1>1. Shape'
  BY DEF ConfirmedInv, Shape
<1>2. AutoIsConfirmed'
  BY DEF ConfirmedInv, AutoIsConfirmed
<1> QED
  BY <1>1, <1>2 DEF ConfirmedInv

LEMMA Returned ==
    ASSUME ConfirmedInv, NEW n \in Norms, NEW answer, Finish(n, answer),
           UNCHANGED <<config, says>>,
           answer.status = "auto" => MayRun(n, answer.plan)
    PROVE  ConfirmedInv'
<1>1. Shape'
  BY DEF ConfirmedInv, Shape, Finish
<1>2. result'[n] = answer /\ \A m \in Norms \ {n} : result'[m] = result[m]
  BY DEF ConfirmedInv, Shape, Finish
<1>3. AutoIsConfirmed'
  <2> SUFFICES ASSUME NEW m \in Norms,
                      result'[m].status = "auto" /\ result'[m].plan.by # "grammar"
                          /\ config.llm /\ config.verify
               PROVE  Confirmed(says[m].verdicts[IF result'[m].plan.by = "triple"
                                                 THEN "verify_triple" ELSE "verify_votes"],
                                result'[m].plan.by = "votes" /\ result'[m].plan.strict)
    BY DEF AutoIsConfirmed
  <2>1. CASE m = n
    BY <1>2, <2>1 DEF MayRun
  <2>2. CASE m # n
    BY <1>2, <2>2 DEF ConfirmedInv, AutoIsConfirmed
  <2> QED
    BY <2>1, <2>2
<1> QED
  BY <1>1, <1>3 DEF ConfirmedInv

(* What does not run needs no confirmation. *)
LEMMA NotAuto == ASSUME NEW why, NEW candidate
                 PROVE  Unsupported(why, candidate).status # "auto"
  BY DEF Unsupported

LEMMA RewriteOrBlockInv ==
    ASSUME ConfirmedInv, NEW n \in Norms, NEW why, RewriteOrBlock(n, why),
           UNCHANGED <<config, says>>
    PROVE  ConfirmedInv'
<1>1. CASE Ask(n, "rewrite") /\ UNCHANGED result
  BY <1>1, NothingReturned DEF Ask
<1>2. CASE Finish(n, Unsupported(why, Candidate(n)))
  BY <1>2, Returned, NotAuto
<1> QED
  BY <1>1, <1>2 DEF RewriteOrBlock

-----------------------------------------------------------------------------
(* The steps of a norm. *)

LEMMA FirstPassesInv == ASSUME ConfirmedInv, NEW n \in Norms, FirstPasses(n)
                        PROVE  ConfirmedInv'
<1>0. UNCHANGED <<config, says>>
  BY DEF FirstPasses
<1>1. ASSUME NEW why, NEW candidate, Finish(n, Unsupported(why, candidate))
      PROVE  ConfirmedInv'
  BY <1>0, <1>1, Returned, NotAuto
<1>2. CASE Finish(n, AutoPlan(Grammar))
  <2>1. MayRun(n, AutoPlan(Grammar).plan)
    BY DEF MayRun, AutoPlan, Grammar
  <2> QED
    BY <1>0, <1>2, <2>1, Returned DEF AutoPlan
<1>3. CASE /\ ~(config.llm /\ config.verify)
           /\ Finish(n, AutoPlan(Triple))
  <2>1. MayRun(n, AutoPlan(Triple).plan)
    BY <1>3 DEF MayRun, AutoPlan
  <2> QED
    BY <1>0, <1>3, <2>1, Returned DEF AutoPlan
<1>4. CASE Ask(n, "verify_triple") /\ UNCHANGED result
  BY <1>0, <1>4, NothingReturned DEF Ask
<1>5. ASSUME NEW why, RewriteOrBlock(n, why)
      PROVE  ConfirmedInv'
  BY <1>0, <1>5, RewriteOrBlockInv
<1> QED
  BY <1>1, <1>2, <1>3, <1>4, <1>5 DEF FirstPasses

LEMMA VoteAnsweredInv == ASSUME ConfirmedInv, NEW n \in Norms, VoteAnswered(n)
                         PROVE  ConfirmedInv'
<1>0. UNCHANGED <<config, says>>
  BY DEF VoteAnswered
<1>1. CASE UNCHANGED <<stage, result>>
  BY <1>0, <1>1, NothingChanged
<1>2. ASSUME NEW why, NEW candidate, Finish(n, Unsupported(why, candidate))
      PROVE  ConfirmedInv'
  BY <1>0, <1>2, Returned, NotAuto
<1>3. CASE Ask(n, "verify_votes") /\ UNCHANGED result
  BY <1>0, <1>3, NothingReturned DEF Ask
<1>4. ASSUME NEW plan, ~config.verify, Finish(n, AutoPlan(plan))
      PROVE  ConfirmedInv'
  <2>1. MayRun(n, AutoPlan(plan).plan)
    BY <1>4 DEF MayRun, AutoPlan
  <2> QED
    BY <1>0, <1>4, <2>1, Returned DEF AutoPlan
<1>5. CASE stage' = [stage EXCEPT ![n] = "raised"] /\ UNCHANGED result
  BY <1>0, <1>5, NothingReturned
<1> QED
  BY <1>1, <1>2, <1>3, <1>4, <1>5 DEF VoteAnswered

(* A plan of the votes is none of the triple planner. *)
LEMMA OutcomeByVotes ==
    ASSUME NEW ballot, NEW k
    PROVE  Outcome(ballot, k).plan.by \in {"none", "votes"}
  BY DEF Outcome, Kept, Voted, NoPlan

(* What the verifier has nothing against is confirmed. *)
LEMMA NoReasons ==
    ASSUME NEW plan, NEW verdict, VerdictReasons(plan, verdict) = {}
    PROVE  Confirmed(verdict, plan.by = "votes" /\ plan.strict)
<1>1. ~verdict.garbage /\ FailedKeys(plan, verdict) = {}
  BY DEF VerdictReasons
<1> QED
  BY <1>1 DEF FailedKeys, Confirmed

LEMMA JudgedInv ==
    ASSUME ConfirmedInv, NEW n \in Norms, NEW why, Judged(n, why),
           UNCHANGED <<config, says>>,
           why = {} => MayRun(n, Verified(n))
    PROVE  ConfirmedInv'
<1>1. CASE why = {} /\ Finish(n, AutoPlan(Verified(n)))
  <2>1. AutoPlan(Verified(n)).plan = Verified(n)
    BY DEF AutoPlan
  <2> QED
    BY <1>1, <2>1, Returned DEF AutoPlan
<1>2. CASE RewriteOrBlock(n, why)
  BY <1>2, RewriteOrBlockInv
<1>3. CASE Finish(n, Unsupported(why, Verified(n)))
  BY <1>3, Returned, NotAuto
<1> QED
  BY <1>1, <1>2, <1>3 DEF Judged

LEMMA VerifierAnsweredInv == ASSUME ConfirmedInv, NEW n \in Norms, VerifierAnswered(n)
                             PROVE  ConfirmedInv'
<1> DEFINE verdict == says[n].verdicts[stage[n]]
           why == VerdictReasons(Verified(n), verdict)
<1>1. Judged(n, why) /\ UNCHANGED <<config, says>>
  BY DEF VerifierAnswered
<1>2. why = {} => MayRun(n, Verified(n))
  <2> SUFFICES ASSUME why = {}
               PROVE  MayRun(n, Verified(n))
    OBVIOUS
  <2>1. Confirmed(verdict, Verified(n).by = "votes" /\ Verified(n).strict)
    BY NoReasons
  <2>2. stage[n] = IF Verified(n).by = "triple" THEN "verify_triple" ELSE "verify_votes"
    <3>1. CASE stage[n] = "verify_triple"
      BY <3>1 DEF Verified, Triple
    <3>2. CASE stage[n] = "verify_votes"
      BY <3>2, OutcomeByVotes DEF Verified
    <3> QED
      BY <3>1, <3>2 DEF VerifierAnswered, Verifying
  <2> QED
    BY <2>1, <2>2 DEF MayRun
<1> HIDE DEF why
<1> QED
  BY <1>1, <1>2, JudgedInv

LEMMA CallFailedInv == ASSUME ConfirmedInv, NEW n \in Norms, CallFailed(n)
                       PROVE  ConfirmedInv'
<1>0. UNCHANGED <<config, says>>
  BY DEF CallFailed
<1>1. ASSUME NEW why, NEW candidate, Finish(n, Unsupported(why, candidate))
      PROVE  ConfirmedInv'
  BY <1>0, <1>1, Returned, NotAuto
<1>2. CASE Judged(n, {"verifier_llm_failed"})
  BY <1>0, <1>2, JudgedInv
<1> QED
  BY <1>1, <1>2 DEF CallFailed

LEMMA PlanInv == ASSUME ConfirmedInv, NEW n \in Norms, Plan(n)
                 PROVE  ConfirmedInv'
<1>1. CASE GetCatalog(n) \/ TakeLock(n) \/ LoadCatalog(n) \/ TakePermit(n) \/ Retry(n)
  BY <1>1, NothingChanged DEF GetCatalog, TakeLock, LoadCatalog, TakePermit, Retry
<1>2. CASE Raised(n)
  BY <1>2, NothingReturned DEF Raised
<1> QED
  BY <1>1, <1>2, FirstPassesInv, VoteAnsweredInv, VerifierAnsweredInv, CallFailedInv DEF Plan

LEMMA ConfirmedInit == Init => ConfirmedInv
  BY DEF Init, ConfirmedInv, Shape, AutoIsConfirmed, Unanswered

LEMMA ConfirmedStep == ConfirmedInv /\ [Next]_vars => ConfirmedInv'
<1>1. CASE UNCHANGED vars \/ Time
  BY <1>1, NothingChanged DEF vars, Time
<1> QED
  BY <1>1, PlanInv DEF Next

(* A plan of the triple planner or of the votes that is to run was confirmed by the        *)
(* verifier if there is one, and for the value that it takes (plan_with_trace and verify). *)
THEOREM OnlyConfirmedPlansRun == Spec => []AutoIsConfirmed
<1>1. ConfirmedInv => AutoIsConfirmed
  BY DEF ConfirmedInv
<1> QED
  BY <1>1, ConfirmedInit, ConfirmedStep, PTL DEF Spec

-----------------------------------------------------------------------------
(* The dictionaries. *)

FetchShape == fetch = [c \in Callers |-> fetch[c]]

NoneStarts == \A c \in Callers : fetch[c] # "loading" /\ fetch'[c] = "loading" => ~Fresh

LEMMA GetCatalogStarts == ASSUME FetchShape, NEW n \in Norms, GetCatalog(n)
                          PROVE  FetchShape' /\ NoneStarts
  BY CallersAssumption DEF FetchShape, NoneStarts, GetCatalog, Get, GetNothing, Return

LEMMA AcquireStarts == ASSUME FetchShape, NEW n \in Norms, Acquire(n)
                       PROVE  FetchShape' /\ NoneStarts
<1>1. CASE Fresh /\ Return(n, catalog)
  BY <1>1, CallersAssumption DEF FetchShape, NoneStarts, Return
<1>2. CASE ~Fresh /\ StartLoad(n)
  BY <1>2, CallersAssumption DEF FetchShape, NoneStarts, StartLoad
<1> QED
  BY <1>1, <1>2 DEF Acquire

LEMMA LoadStarts == ASSUME FetchShape, NEW n \in Norms, Load(n)
                    PROVE  FetchShape' /\ NoneStarts
<1>1. ASSUME NEW end \in {"got", "raised"}, fetch' = [fetch EXCEPT ![n] = end]
      PROVE  FetchShape' /\ NoneStarts
  BY <1>1, CallersAssumption DEF FetchShape, NoneStarts
<1> QED
  BY <1>1 DEF Load, LoadOk, LoadFailed, LoadRaised, Return

LEMMA FetchStep == ASSUME FetchShape, [Next]_vars
                   PROVE  FetchShape' /\ NoneStarts
<1>1. CASE UNCHANGED fetch
  BY <1>1 DEF FetchShape, NoneStarts
<1>2. ASSUME NEW n \in Norms, Plan(n)
      PROVE  FetchShape' /\ NoneStarts
  <2>1. CASE GetCatalog(n) \/ TakeLock(n) \/ LoadCatalog(n)
    BY <2>1, GetCatalogStarts, AcquireStarts, LoadStarts DEF TakeLock, LoadCatalog
  <2>2. CASE \/ Raised(n) \/ FirstPasses(n) \/ TakePermit(n) \/ Retry(n)
             \/ VoteAnswered(n) \/ VerifierAnswered(n) \/ CallFailed(n)
    BY <1>1, <2>2 DEF Raised, FirstPasses, TakePermit, Retry, VoteAnswered, VerifierAnswered,
                      CallFailed, catalogVars
  <2> QED
    BY <1>2, <2>1, <2>2 DEF Plan
<1> QED
  BY <1>1, <1>2 DEF Next, Time, Tick, vars, catalogVars

(* Callers that waited for a load share its snapshot: no load starts while there is one *)
(* in its time (get of UrbanCatalogProvider).                                            *)
THEOREM LoadsAreShared == Spec => NoLoadWhileFresh
<1>1. Init => FetchShape
  BY DEF Init, CatalogInit, FetchShape
<1>2. FetchShape /\ [Next]_vars => FetchShape'
  BY FetchStep
<1>3. FetchShape /\ [Next]_vars =>
          [\A c \in Callers : fetch[c] # "loading" /\ fetch'[c] = "loading" => ~Fresh]_catalogVars
  BY FetchStep DEF NoneStarts
<1> QED
  BY <1>1, <1>2, <1>3, PTL DEF Spec, NoLoadWhileFresh

-----------------------------------------------------------------------------
(* Types: how often a norm may still be asked for depends on how far it is. *)

InRange(n) == /\ stage[n] \in {"catalog", "verify_triple"} => counted[n] = 0 /\ outages[n] = 0
              /\ stage[n] = "rewrite" => counted[n] < Votes /\ outages[n] \in 0..1
              /\ stage[n] = "verify_votes" => outages[n] \in 0..1

Ranges == \A n \in Norms : InRange(n)

PlannerTypeOK == /\ stage \in [Norms -> {"catalog", "verify_triple", "rewrite", "verify_votes", "done", "raised"}]
                 /\ call \in [Norms -> {"none", "queued", "first", "second"}]
                 /\ counted \in [Norms -> 0..Votes]
                 /\ outages \in [Norms -> 0..2]

TypeInv == CatalogTypeOK /\ PlannerTypeOK /\ Ranges

LEMMA CatalogTypes ==
    ASSUME CatalogTypeOK, NEW n \in Norms, GetCatalog(n) \/ Acquire(n) \/ Load(n)
    PROVE  CatalogTypeOK'
<1> n \in Callers
  BY CallersAssumption
<1>1. CASE GetCatalog(n)
  BY <1>1 DEF CatalogTypeOK, GetCatalog, Get, GetNothing, Return, Fresh, Nothing
<1>2. CASE Acquire(n)
  BY <1>2 DEF CatalogTypeOK, Acquire, Return, StartLoad, Nothing
<1>3. CASE LoadOk(n)
  BY <1>3, TimesAssumption DEF CatalogTypeOK, LoadOk, Return, Nothing
<1>4. CASE LoadFailed(n)
  BY <1>4, TimesAssumption DEF CatalogTypeOK, LoadFailed, Return, Nothing
<1>5. CASE LoadRaised(n)
  BY <1>5 DEF CatalogTypeOK, LoadRaised
<1> QED
  BY <1>1, <1>2, <1>3, <1>4, <1>5 DEF Load

(* What becomes of the norm n says what becomes of all. *)
Others(n) == \A m \in Norms \ {n} : /\ stage'[m] = stage[m] /\ counted'[m] = counted[m]
                                       /\ outages'[m] = outages[m]

LEMMA OneNorm ==
    ASSUME TypeInv, CatalogTypeOK', PlannerTypeOK', NEW n \in Norms, Others(n), InRange(n)'
    PROVE  TypeInv'
  BY DEF TypeInv, Others, Ranges, InRange

LEMMA SameNorms == ASSUME TypeInv, CatalogTypeOK', UNCHANGED <<stage, call, counted, outages>>
                   PROVE  TypeInv'
  BY DEF TypeInv, PlannerTypeOK, Ranges, InRange

LEMMA Entered ==
    ASSUME TypeInv, CatalogTypeOK', NEW n \in Norms, NEW why, NEW o \in 0..1, RewriteOrBlock(n, why),
           counted' = counted, counted[n] = 0, outages' = [outages EXCEPT ![n] = o]
    PROVE  TypeInv'
<1>1. \/ Ask(n, "rewrite")
      \/ stage' = [stage EXCEPT ![n] = "done"] /\ call' = [call EXCEPT ![n] = "none"]
  BY DEF RewriteOrBlock, Finish
<1>2. PlannerTypeOK'
  BY <1>1 DEF TypeInv, PlannerTypeOK, Ask
<1>3. Others(n) /\ InRange(n)'
  BY <1>1, VotesAssumption DEF TypeInv, PlannerTypeOK, Ask, Others, InRange
<1> QED
  BY <1>2, <1>3, OneNorm

LEMMA JudgedTypes ==
    ASSUME TypeInv, CatalogTypeOK', NEW n \in Norms, NEW why, NEW o \in 0..2, Judged(n, why),
           counted' = counted, outages' = [outages EXCEPT ![n] = o],
           stage[n] = "verify_triple" => o \in 0..1
    PROVE  TypeInv'
<1>1. CASE stage' = [stage EXCEPT ![n] = "done"] /\ call' = [call EXCEPT ![n] = "none"]
  <2>1. PlannerTypeOK'
    BY <1>1 DEF TypeInv, PlannerTypeOK
  <2>2. Others(n) /\ InRange(n)'
    BY <1>1 DEF TypeInv, PlannerTypeOK, Others, InRange
  <2> QED
    BY <2>1, <2>2, OneNorm
<1>2. CASE stage[n] = "verify_triple" /\ RewriteOrBlock(n, why)
  BY <1>2, Entered DEF TypeInv, Ranges, InRange
<1> QED
  BY <1>1, <1>2 DEF Judged, Finish

(* The steps in which no call of the model ends. *)
LEMMA QuietTypes ==
    ASSUME TypeInv, NEW n \in Norms, CatalogTypeOK',
           Raised(n) \/ TakePermit(n) \/ Retry(n)
    PROVE  TypeInv'
<1>1. /\ stage' = stage \/ stage' = [stage EXCEPT ![n] = "raised"]
      /\ UNCHANGED <<counted, outages>>
  BY DEF Raised, TakePermit, Retry
<1>2. PlannerTypeOK'
  BY <1>1 DEF TypeInv, PlannerTypeOK, Raised, TakePermit, Retry
<1>3. Others(n) /\ InRange(n)'
  BY <1>1 DEF TypeInv, PlannerTypeOK, Others, Ranges, InRange
<1> QED
  BY <1>2, <1>3, OneNorm

LEMMA FirstPassesTypes == ASSUME TypeInv, NEW n \in Norms, FirstPasses(n), CatalogTypeOK'
                          PROVE  TypeInv'
<1>1. counted[n] = 0 /\ outages[n] = 0 /\ counted' = counted /\ outages' = outages
  BY DEF TypeInv, Ranges, InRange, FirstPasses
<1>2. CASE \/ stage' = [stage EXCEPT ![n] = "done"] /\ UNCHANGED call
           \/ Ask(n, "verify_triple")
  <2>1. PlannerTypeOK'
    BY <1>1, <1>2 DEF TypeInv, PlannerTypeOK, Ask
  <2>2. Others(n) /\ InRange(n)'
    BY <1>1, <1>2 DEF TypeInv, PlannerTypeOK, Ask, Others, InRange
  <2> QED
    BY <2>1, <2>2, OneNorm
<1>3. ASSUME NEW why, RewriteOrBlock(n, why)
      PROVE  TypeInv'
  <2>1. outages' = [outages EXCEPT ![n] = 0] /\ 0 \in 0..1
    BY <1>1 DEF TypeInv, PlannerTypeOK
  <2> QED
    BY <1>1, <1>3, <2>1, Entered
<1> QED
  BY <1>2, <1>3 DEF FirstPasses, Finish

LEMMA VoteTypes == ASSUME TypeInv, NEW n \in Norms, VoteAnswered(n), CatalogTypeOK'
                   PROVE  TypeInv'
<1>1. /\ counted[n] + 1 \in 0..Votes /\ outages[n] \in 0..1 /\ outages' = outages
      /\ counted' = [counted EXCEPT ![n] = counted[n] + 1]
  BY VotesAssumption DEF VoteAnswered, TypeInv, PlannerTypeOK, Ranges, InRange
<1>2. \/ counted[n] + 1 < Votes /\ call' = [call EXCEPT ![n] = "queued"] /\ UNCHANGED stage
      \/ /\ stage' = [stage EXCEPT ![n] = "done"] \/ stage' = [stage EXCEPT ![n] = "raised"]
         /\ call' = [call EXCEPT ![n] = "none"]
      \/ Ask(n, "verify_votes")
  BY DEF VoteAnswered, Finish
<1>3. PlannerTypeOK'
  BY <1>1, <1>2 DEF TypeInv, PlannerTypeOK, Ask
<1>4. Others(n) /\ InRange(n)'
  BY <1>1, <1>2 DEF TypeInv, PlannerTypeOK, Ask, Others, InRange, VoteAnswered
<1> QED
  BY <1>3, <1>4, OneNorm

LEMMA VerdictTypes == ASSUME TypeInv, NEW n \in Norms, VerifierAnswered(n), CatalogTypeOK'
                      PROVE  TypeInv'
<1>1. /\ outages[n] \in 0..2 /\ outages[n] \in 0..1 /\ counted' = counted
      /\ outages' = [outages EXCEPT ![n] = outages[n]]
  BY DEF VerifierAnswered, Verifying, TypeInv, PlannerTypeOK, Ranges, InRange
<1> DEFINE why == VerdictReasons(Verified(n), says[n].verdicts[stage[n]])
<1>2. Judged(n, why)
  BY DEF VerifierAnswered
<1> HIDE DEF why
<1> QED
  BY <1>1, <1>2, JudgedTypes

LEMMA FailureTypes == ASSUME TypeInv, NEW n \in Norms, CallFailed(n), CatalogTypeOK'
                      PROVE  TypeInv'
<1>1. /\ counted' = counted /\ outages' = [outages EXCEPT ![n] = outages[n] + 1]
      /\ outages[n] + 1 \in 0..2
      /\ stage[n] = "verify_triple" => outages[n] + 1 \in 0..1
  BY DEF CallFailed, Verifying, TypeInv, Ranges, InRange
<1>2. CASE stage' = [stage EXCEPT ![n] = "done"] /\ call' = [call EXCEPT ![n] = "none"]
  <2>1. PlannerTypeOK'
    BY <1>1, <1>2 DEF TypeInv, PlannerTypeOK
  <2>2. Others(n) /\ InRange(n)'
    BY <1>1, <1>2 DEF TypeInv, PlannerTypeOK, Others, InRange
  <2> QED
    BY <2>1, <2>2, OneNorm
<1>3. CASE Judged(n, {"verifier_llm_failed"})
  BY <1>1, <1>3, JudgedTypes
<1> QED
  BY <1>2, <1>3 DEF CallFailed, Finish

LEMMA PlanTypes == ASSUME TypeInv, NEW n \in Norms, Plan(n)
                   PROVE  TypeInv'
<1>1. CASE GetCatalog(n) \/ TakeLock(n) \/ LoadCatalog(n)
  <2>1. CatalogTypeOK'
    BY <1>1, CatalogTypes DEF TypeInv, TakeLock, LoadCatalog
  <2> QED
    BY <1>1, <2>1, SameNorms DEF GetCatalog, TakeLock, LoadCatalog
<1>2. CASE \/ Raised(n) \/ FirstPasses(n) \/ TakePermit(n) \/ Retry(n)
           \/ VoteAnswered(n) \/ VerifierAnswered(n) \/ CallFailed(n)
  <2>1. UNCHANGED catalogVars
    BY <1>2 DEF Raised, FirstPasses, TakePermit, Retry, VoteAnswered, VerifierAnswered, CallFailed
  <2>2. CatalogTypeOK'
    BY <2>1 DEF TypeInv, CatalogTypeOK, catalogVars
  <2> QED
    BY <1>2, <2>2, QuietTypes, FirstPassesTypes, VoteTypes, VerdictTypes, FailureTypes
<1> QED
  BY <1>1, <1>2 DEF Plan

LEMMA TypeInit == Init => TypeInv
  BY VotesAssumption, CallersAssumption
     DEF Init, CatalogInit, TypeInv, CatalogTypeOK, PlannerTypeOK, Ranges, InRange, Nothing

LEMMA TypeStep == TypeInv /\ [Next]_vars => TypeInv'
<1>1. ASSUME TypeInv, UNCHANGED vars
      PROVE  TypeInv'
  BY <1>1 DEF TypeInv, CatalogTypeOK, PlannerTypeOK, Ranges, InRange, vars, catalogVars
<1>2. ASSUME TypeInv, Time
      PROVE  TypeInv'
  BY <1>2 DEF TypeInv, CatalogTypeOK, PlannerTypeOK, Ranges, InRange, Time, Tick
<1> QED
  BY <1>1, <1>2, PlanTypes DEF Next

(* Types and ranges: a norm is asked for no more votes than there are and costs at most *)
(* two outages, as rewrite and verify give up after one (plan_with_trace).               *)
THEOREM PlannerTypes == Spec => []TypeOK
<1>1. TypeInv => TypeOK
  BY DEF TypeInv, PlannerTypeOK, TypeOK
<1> QED
  BY <1>1, TypeInit, TypeStep, PTL DEF Spec

-----------------------------------------------------------------------------
(* Votes. *)

LEMMA PlansFinite ==
    ASSUME NEW ballot, NEW k \in Nat, NEW fp
    PROVE  /\ IsFiniteSet(PlansWith(ballot, k, fp))
           /\ Cardinality(PlansWith(ballot, k, fp)) \in Nat
           /\ PlansWith(ballot, k, fp) \subseteq 1..k
<1>1. PlansWith(ballot, k, fp) \in SUBSET (1..k) /\ IsFiniteSet(1..k)
  BY FS_Interval DEF PlansWith
<1> QED
  BY <1>1, FS_Subset, FS_CardinalityType

(* What the votes agree in they still agree in later. *)
LEMMA AgreedStays ==
    ASSUME NEW ballot, NEW k \in Nat, NEW m \in Nat, k <= m
    PROVE  /\ Agreed(ballot, k) \subseteq Agreed(ballot, m)
           /\ \A fp : PlansWith(ballot, k, fp) \subseteq PlansWith(ballot, m, fp)
<1>1. 1..k \subseteq 1..m
  OBVIOUS
<1>2. ASSUME NEW fp
      PROVE  PlansWith(ballot, k, fp) \subseteq PlansWith(ballot, m, fp)
  BY <1>1 DEF PlansWith
<1>3. ASSUME NEW fp \in Agreed(ballot, k)
      PROVE  fp \in Agreed(ballot, m)
  <2>1. fp \in Fingerprints(ballot, m)
    BY <1>1, <1>3 DEF Agreed, Fingerprints
  <2>2. Cardinality(PlansWith(ballot, k, fp)) <= Cardinality(PlansWith(ballot, m, fp))
    BY <1>2, PlansFinite, FS_Subset
  <2> QED
    BY <2>1, <2>2, PlansFinite, VotesAssumption DEF Agreed
<1> QED
  BY <1>2, <1>3

(* The votes that are left add no more plans than there are votes. *)
LEMMA VotesLeft ==
    ASSUME NEW ballot, NEW k \in 0..Votes, NEW fp
    PROVE  Cardinality(PlansWith(ballot, Votes, fp)) <= Cardinality(PlansWith(ballot, k, fp)) + (Votes - k)
<1> DEFINE early == PlansWith(ballot, k, fp)
           late == (k + 1)..Votes
<1>0. k \in Nat /\ Votes \in Nat /\ k <= Votes
  BY VotesAssumption
<1>1. IsFiniteSet(late) /\ Cardinality(late) = Votes - k
  <2>1. k + 1 \in Int /\ Votes \in Int
    BY <1>0
  <2>2. IsFiniteSet(late) /\ Cardinality(late) = IF k + 1 > Votes THEN 0 ELSE Votes - (k + 1) + 1
    BY <2>1, FS_Interval
  <2> QED
    BY <1>0, <2>2
<1>2. IsFiniteSet(early) /\ Cardinality(early) \in Nat
  BY <1>0, PlansFinite
<1>3. early \cap late = {}
  BY <1>0, PlansFinite
<1>4. IsFiniteSet(early \cup late) /\ Cardinality(early \cup late) = Cardinality(early) + (Votes - k)
  <2> HIDE DEF early, late
  <2>1. Cardinality(early \cap late) = 0
    BY <1>3, FS_EmptySet
  <2> QED
    BY <1>0, <1>1, <1>2, <2>1, FS_Union
<1>5. PlansWith(ballot, Votes, fp) \in SUBSET (early \cup late)
  BY <1>0 DEF PlansWith
<1>6. Cardinality(PlansWith(ballot, Votes, fp)) <= Cardinality(early \cup late)
  BY <1>4, <1>5, FS_Subset
<1> QED
  BY <1>4, <1>6

(* More than half of the votes agree in one plan at most. *)
LEMMA OneAgreement ==
    ASSUME 2 * Agreement > Votes, NEW ballot,
           NEW f \in Agreed(ballot, Votes), NEW g \in Agreed(ballot, Votes)
    PROVE  f = g
<1> SUFFICES ASSUME f # g
             PROVE  FALSE
  OBVIOUS
<1> DEFINE F == PlansWith(ballot, Votes, f)
           G == PlansWith(ballot, Votes, g)
<1>0. Votes \in Nat /\ Agreement \in Nat
  BY VotesAssumption
<1>1. /\ IsFiniteSet(F) /\ IsFiniteSet(G) /\ F \subseteq 1..Votes /\ G \subseteq 1..Votes
      /\ Cardinality(F) \in Nat /\ Cardinality(G) \in Nat
  BY <1>0, PlansFinite
<1>2. Cardinality(F) >= Agreement /\ Cardinality(G) >= Agreement
  BY DEF Agreed
<1>3. F \cap G = {}
  BY DEF PlansWith
<1>4. IsFiniteSet(1..Votes) /\ Cardinality(1..Votes) = Votes
  BY <1>0, FS_Interval
<1> HIDE DEF F, G
<1>5. Cardinality(F \cup G) = Cardinality(F) + Cardinality(G)
  <2>1. Cardinality(F \cap G) = 0
    BY <1>3, FS_EmptySet
  <2>2. Cardinality(F \cup G) = Cardinality(F) + Cardinality(G) - Cardinality(F \cap G)
    BY <1>1, FS_Union
  <2> QED
    BY <1>1, <2>1, <2>2
<1>6. Cardinality(F \cup G) <= Votes
  BY <1>1, <1>4, FS_Subset
<1> QED
  BY <1>0, <1>1, <1>2, <1>5, <1>6

(* The k-th vote is the last that is asked for. *)
LastVote(ballot, k) == /\ \A j \in 1..k - 1 : ~Decided(ballot, j)
                       /\ Decided(ballot, k) \/ k = Votes

(* Whichever way the votes end early, those that were not asked for change nothing. *)
LEMMA StopIsSound ==
    ASSUME 2 * Agreement > Votes, NEW ballot, NEW k \in 1..Votes, LastVote(ballot, k)
    PROVE  Agreed(ballot, k) = IF \E j \in 1..k : Uncheckable(ballot, j) THEN {}
                               ELSE Agreed(ballot, Votes)
<1>0. k \in Nat /\ Votes \in Nat /\ k <= Votes /\ Agreement \in Nat \ {0}
  BY VotesAssumption
<1>1. CASE Uncheckable(ballot, k)
  <2>1. Agreed(ballot, k) = {}
    BY <1>1 DEF Uncheckable, Agreed
  <2> QED
    BY <1>0, <1>1, <2>1
<1>2. CASE ~Uncheckable(ballot, k)
  <2>1. \A j \in 1..k : ~Uncheckable(ballot, j)
    BY <1>0, <1>2 DEF LastVote, Decided
  <2>2. Agreed(ballot, k) \subseteq Agreed(ballot, Votes)
    BY <1>0, AgreedStays
  <2>3. ASSUME NEW fp \in Agreed(ballot, Votes)
        PROVE  fp \in Agreed(ballot, k)
    <3>1. CASE k = Votes
      BY <2>3, <3>1
    <3>2. CASE Agreed(ballot, k) # {}
      BY <2>2, <2>3, <3>2, OneAgreement
    <3>3. CASE ~CanAgree(ballot, k)
      <4>1. Cardinality(PlansWith(ballot, Votes, fp)) >= Agreement
        BY <2>3 DEF Agreed
      <4>2. Cardinality(PlansWith(ballot, Votes, fp))
                <= Cardinality(PlansWith(ballot, k, fp)) + (Votes - k)
        BY <1>0, VotesLeft
      <4>3. /\ Cardinality(PlansWith(ballot, Votes, fp)) \in Nat
            /\ Cardinality(PlansWith(ballot, k, fp)) \in Nat
        BY <1>0, PlansFinite
      <4>4. CASE fp \in Fingerprints(ballot, k)
        BY <1>0, <3>3, <4>1, <4>2, <4>3, <4>4 DEF CanAgree
      <4>5. CASE fp \notin Fingerprints(ballot, k)
        <5>1. PlansWith(ballot, k, fp) = {}
          BY <4>5 DEF PlansWith, Fingerprints
        <5>2. Cardinality(PlansWith(ballot, k, fp)) = 0
          BY <5>1, FS_EmptySet
        <5> QED
          BY <1>0, <3>3, <4>1, <4>2, <4>3, <5>2 DEF CanAgree
      <4> QED
        BY <4>4, <4>5
    <3> QED
      BY <1>2, <3>1, <3>2, <3>3 DEF LastVote, Decided
  <2> QED
    BY <2>1, <2>2, <2>3
<1> QED
  BY <1>1, <1>2

-----------------------------------------------------------------------------
(* A set of naturals has a least element. *)
LEMMA LeastNat == ASSUME NEW S \in SUBSET Nat, S # {}
                  PROVE  \E m \in S : \A x \in S : m <= x
<1> DEFINE R == OpToRel(<, Nat)
<1>1. PICK m \in S : \A x \in S : ~ (<<x, m>> \in R)
  <2>1. IsWellFoundedOn(R, Nat)
    BY NatLessThanWellFounded
  <2> HIDE DEF R
  <2> QED
    BY <2>1, WFMin
<1>2. ASSUME NEW x \in S
      PROVE  m <= x
  <2>1. <<x, m>> \in Nat \X Nat /\ <<x, m>>[1] = x /\ <<x, m>>[2] = m
    OBVIOUS
  <2>2. ~ (x < m) /\ x \in Nat /\ m \in Nat
    BY <1>1, <2>1 DEF OpToRel
  <2> QED
    BY <2>2
<1> QED
  BY <1>2

-----------------------------------------------------------------------------
(* What is known of a norm at every stage. *)

(* The votes went on as long as nothing was decided, and no longer. *)
VotesCounted(n) ==
    /\ stage[n] = "rewrite" => \A j \in 1..counted[n] : ~Decided(says[n].ballot, j)
    /\ stage[n] \in {"rewrite", "verify_votes"} => NoneRaised(says[n].ballot, counted[n])
    /\ Voting(n) => LastVote(says[n].ballot, counted[n])

(* Who is past the catalog keeps its view; who is verified or read by the model has passed *)
(* what comes before, and what is verified after the votes is what they agree in.          *)
TripleStands(n) == /\ says[n].candidate /\ ~says[n].blocked
                   /\ view[n] # Nothing => says[n].known

Rewritable(n) == config.llm /\ config.refine /\ says[n].worth /\ view[n] # Nothing

Reached(n) ==
    /\ stage[n] \notin {"catalog", "raised"} => fetch[n] = "got"
    /\ stage[n] # "done" => result[n].status # "auto"
    /\ stage[n] \in {"verify_triple", "rewrite", "verify_votes"} => ~says[n].redLine
    /\ stage[n] = "verify_triple" => TripleStands(n)
    /\ stage[n] \in {"rewrite", "verify_votes"} => Rewritable(n)
    /\ stage[n] = "verify_votes" => /\ counted[n] \in 1..Votes
                                    /\ Agreed(says[n].ballot, counted[n]) # {}

NormInv(n) == VotesCounted(n) /\ Reached(n) /\ (result[n].status = "auto" => WouldRun(n))

PerNorm == /\ reasons = [n \in Norms |-> reasons[n]]
         /\ result = [n \in Norms |-> result[n]]

NormsInv == TypeInv /\ PerNorm /\ \A n \in Norms : NormInv(n)

(* A step of one norm. *)
OnlyOf(m) == /\ \A n \in Norms \ {m} : /\ stage'[n] = stage[n] /\ counted'[n] = counted[n]
                                         /\ reasons'[n] = reasons[n] /\ result'[n] = result[n]
                                         /\ fetch'[n] = fetch[n] /\ view'[n] = view[n]
             /\ UNCHANGED <<config, says>>

LEMMA SameNorm ==
    ASSUME NEW n \in Norms, NormInv(n), UNCHANGED <<config, says>>,
           stage'[n] = stage[n], counted'[n] = counted[n], reasons'[n] = reasons[n],
           result'[n] = result[n], fetch'[n] = fetch[n], view'[n] = view[n]
    PROVE  NormInv(n)'
  BY DEF NormInv, VotesCounted, Voting, Reached, TripleStands, Rewritable, WouldRun

(* An answer that may run, or does not, keeps the invariant if the votes were counted. *)
LEMMA NormDone ==
    ASSUME NEW n \in Norms, UNCHANGED <<config, says, fetch, view>>, PerNorm, TypeInv,
           NEW answer, Finish(n, answer), answer.status = "auto" => WouldRun(n),
           fetch[n] = "got", Voting(n)' => LastVote(says[n].ballot, counted'[n])
    PROVE  NormInv(n)'
<1>1. stage'[n] = "done" /\ result'[n] = answer
  BY DEF Finish, PerNorm, TypeInv, PlannerTypeOK
<1>2. VotesCounted(n)'
  BY <1>1 DEF VotesCounted
<1>3. Reached(n)'
  BY <1>1 DEF Reached
<1>4. WouldRun(n)' <=> WouldRun(n)
  BY DEF WouldRun
<1> QED
  BY <1>1, <1>2, <1>3, <1>4 DEF NormInv

LEMMA NormBlockedOrAsked ==
    ASSUME NEW n \in Norms, UNCHANGED <<config, says, fetch, view, counted>>, PerNorm, TypeInv,
           NormInv(n), NEW why, RewriteOrBlock(n, why), fetch[n] = "got", counted[n] = 0,
           stage[n] # "done", ~says[n].redLine
    PROVE  NormInv(n)'
<1>0. counted'[n] = 0 /\ ~Voting(n)'
  BY DEF Voting
<1>1. CASE Rewritable(n)
  <2>1. stage'[n] = "rewrite" /\ result' = result
    BY <1>1 DEF RewriteOrBlock, Rewritable, Ask, TypeInv, PlannerTypeOK
  <2>2. VotesCounted(n)' /\ Reached(n)'
    BY <1>0, <1>1, <2>1 DEF NormInv, VotesCounted, NoneRaised, Reached, Rewritable
  <2>3. WouldRun(n)' <=> WouldRun(n)
    BY DEF WouldRun
  <2> QED
    BY <2>1, <2>2, <2>3 DEF NormInv
<1>2. CASE ~Rewritable(n)
  <2>1. Finish(n, Unsupported(why, Candidate(n)))
    BY <1>2 DEF RewriteOrBlock, Rewritable
  <2> QED
    BY <1>0, <2>1, NormDone, NotAuto
<1> QED
  BY <1>1, <1>2

LEMMA NormFirstPasses ==
    ASSUME NormsInv, NEW n \in Norms, FirstPasses(n)
    PROVE  NormInv(n)'
<1>0. /\ UNCHANGED <<config, says, fetch, view, counted>> /\ PerNorm /\ TypeInv /\ NormInv(n)
      /\ fetch[n] = "got" /\ stage[n] # "done" /\ counted[n] = 0 /\ ~Voting(n)'
  BY DEF FirstPasses, NormsInv, TypeInv, Ranges, InRange, Voting, catalogVars
<1>1. ASSUME NEW why, NEW candidate, Finish(n, Unsupported(why, candidate))
      PROVE  NormInv(n)'
  BY <1>0, <1>1, NormDone, NotAuto
<1>2. CASE ~says[n].redLine /\ says[n].grammar /\ Finish(n, AutoPlan(Grammar))
  <2>1. WouldRun(n)
    BY <1>2 DEF WouldRun
  <2> QED
    BY <1>0, <1>2, <2>1, NormDone
<1>3. ASSUME ~says[n].redLine, NEW why, RewriteOrBlock(n, why)
      PROVE  NormInv(n)'
  BY <1>0, <1>3, NormBlockedOrAsked
<1>4. ASSUME ~says[n].redLine, TripleStands(n),
             IF config.llm /\ config.verify
             THEN Ask(n, "verify_triple") /\ UNCHANGED result
             ELSE Finish(n, AutoPlan(Triple)) /\ UNCHANGED call
      PROVE  NormInv(n)'
  <2>1. CASE config.llm /\ config.verify
    <3>1. stage'[n] = "verify_triple" /\ result' = result
      BY <1>0, <1>4, <2>1 DEF Ask, TypeInv, PlannerTypeOK
    <3>2. VotesCounted(n)' /\ Reached(n)'
      BY <1>0, <1>4, <3>1 DEF NormInv, VotesCounted, NoneRaised, Voting, Reached, TripleStands
    <3>3. WouldRun(n)' <=> WouldRun(n)
      BY <1>0 DEF WouldRun
    <3> QED
      BY <1>0, <3>1, <3>2, <3>3 DEF NormInv
  <2>2. CASE ~(config.llm /\ config.verify)
    <3>1. WouldRun(n)
      BY <1>4, <2>2 DEF WouldRun, TripleStands
    <3> QED
      BY <1>0, <1>4, <2>2, <3>1, NormDone
  <2> QED
    BY <2>1, <2>2
<1>5. ASSUME ~says[n].grammar, says[n].candidate,
             LET first == IF says[n].blocked /\ ~says[n].grammar THEN {"first_pass"} ELSE {}
                 unknown == says[n].candidate /\ view[n] # Nothing /\ ~says[n].known
             IN (IF first = {} /\ unknown THEN {"entity_not_in_catalog"} ELSE first) = {}
      PROVE  TripleStands(n)
  BY <1>5 DEF TripleStands
<1> QED
  BY <1>1, <1>2, <1>3, <1>4, <1>5 DEF FirstPasses

(* A plan of the votes is one that they agree in. *)
LEMMA VotedPlan ==
    ASSUME NEW ballot, NEW k \in 1..Votes, Outcome(ballot, k).plan # NoPlan
    PROVE  /\ Agreed(ballot, k) # {}
           /\ \E fp \in Agreed(ballot, k) : \E i \in PlansWith(ballot, k, fp) :
                 Outcome(ballot, k).plan = Voted(ballot[i])
<1>0. k \in Nat /\ Votes \in Nat /\ k <= Votes /\ Agreement \in Nat \ {0}
  BY VotesAssumption
<1>1. Agreed(ballot, k) # {}
  BY DEF Outcome
<1> DEFINE fp == CHOOSE x \in Agreed(ballot, k) : TRUE
           S == PlansWith(ballot, k, fp)
           strict == {i \in S : ballot[i].strict}
<1>2. Outcome(ballot, k).plan = Kept(ballot, S)
  BY <1>1 DEF Outcome
<1>3. fp \in Agreed(ballot, k)
  BY <1>1
<1> HIDE DEF fp
<1>4. S # {} /\ S \in SUBSET Nat /\ strict \in SUBSET Nat
  <2>1. Cardinality(S) >= Agreement
    BY <1>3 DEF Agreed
  <2>2. S # {}
    BY <1>0, <2>1, FS_EmptySet
  <2> QED
    BY <1>0, <2>2, PlansFinite
<1> HIDE DEF S
<1>5. strict # {} => Least(strict) \in strict
  BY <1>4, LeastNat DEF Least
<1>6. Least(S) \in S
  BY <1>4, LeastNat DEF Least
<1>7. \E i \in S : Kept(ballot, S) = Voted(ballot[i])
  BY <1>5, <1>6 DEF Kept
<1> QED
  BY <1>1, <1>2, <1>3, <1>7 DEF S

(* It would run if the verifier is not asked or confirms it. *)
LEMMA VotedRuns ==
    ASSUME NEW n \in Norms, NEW k \in 1..Votes, Outcome(says[n].ballot, k).plan # NoPlan,
           NoneRaised(says[n].ballot, k), ~says[n].redLine, Rewritable(n),
           config.verify => Confirmed(says[n].verdicts["verify_votes"],
                                      Outcome(says[n].ballot, k).plan.strict)
    PROVE  WouldRun(n)
<1> DEFINE ballot == says[n].ballot
<1>1. PICK fp \in Agreed(ballot, k) : \E i \in PlansWith(ballot, k, fp) :
                Outcome(ballot, k).plan = Voted(ballot[i])
  BY VotedPlan
<1>2. PICK i \in PlansWith(ballot, k, fp) : Outcome(ballot, k).plan = Voted(ballot[i])
  BY <1>1
<1>3. Outcome(ballot, k).plan.strict = ballot[i].strict
  BY <1>2 DEF Voted
<1>4. config.verify => Confirmed(says[n].verdicts["verify_votes"], ballot[i].strict)
  BY <1>3
<1>5. says[n].verdicts.verify_votes = says[n].verdicts["verify_votes"]
  OBVIOUS
<1> QED
  BY <1>2, <1>4 DEF WouldRun, Rewritable

LEMMA NormVoteAnswered ==
    ASSUME NormsInv, NEW n \in Norms, VoteAnswered(n)
    PROVE  NormInv(n)'
<1> DEFINE ballot == says[n].ballot
           k == counted[n] + 1
<1>0. /\ UNCHANGED <<config, says, fetch, view>> /\ PerNorm /\ TypeInv /\ NormInv(n)
      /\ stage[n] = "rewrite" /\ fetch[n] = "got" /\ ~says[n].redLine /\ Rewritable(n)
  BY DEF VoteAnswered, NormsInv, NormInv, Reached, catalogVars
<1>1. counted[n] \in Nat /\ k \in 1..Votes /\ counted'[n] = k /\ counted[n] = k - 1
  BY <1>0, VotesAssumption DEF VoteAnswered, TypeInv, PlannerTypeOK, Ranges, InRange
<1>2. \A j \in 1..k - 1 : ~Decided(ballot, j)
  BY <1>0, <1>1 DEF NormInv, VotesCounted
<1> HIDE DEF k
<1>3. ballot[k].kind # "raised" => NoneRaised(ballot, k)
  <2>1. NoneRaised(ballot, k - 1)
    BY <1>0, <1>1 DEF NormInv, VotesCounted
  <2> QED
    BY <1>1, <2>1 DEF NoneRaised
<1>4. CASE ballot[k].kind = "raised" /\ stage' = [stage EXCEPT ![n] = "raised"] /\ UNCHANGED result
  <2>1. stage'[n] = "raised" /\ result'[n].status # "auto"
    BY <1>0, <1>4 DEF TypeInv, PlannerTypeOK, NormInv, Reached
  <2> QED
    BY <2>1 DEF NormInv, VotesCounted, Voting, Reached
<1>5. CASE ballot[k].kind # "raised" /\ ~Decided(ballot, k) /\ UNCHANGED <<stage, reasons, result>>
  <2>1. \A j \in 1..k : ~Decided(ballot, j)
    BY <1>1, <1>2, <1>5
  <2>2. VotesCounted(n)' /\ Reached(n)'
    BY <1>0, <1>1, <1>5, <1>3, <2>1 DEF NormInv, VotesCounted, Voting, Reached, Rewritable
  <2>3. WouldRun(n)' <=> WouldRun(n)
    BY <1>0 DEF WouldRun
  <2> QED
    BY <1>0, <1>5, <2>2, <2>3 DEF NormInv
<1>6. CASE ballot[k].kind # "raised" /\ (k = Votes \/ Decided(ballot, k))
  <2>1. LastVote(ballot, k)
    BY <1>2, <1>6 DEF LastVote
  <2>2. ASSUME NEW answer, Finish(n, answer), answer.status = "auto" => WouldRun(n)
        PROVE  NormInv(n)'
    BY <1>0, <1>1, <2>1, <2>2, NormDone
  <2>3. ASSUME NEW why, NEW candidate, Finish(n, Unsupported(why, candidate))
        PROVE  NormInv(n)'
    BY <2>2, <2>3, NotAuto
  <2>4. CASE /\ Outcome(ballot, k).plan # NoPlan /\ config.verify
             /\ Ask(n, "verify_votes") /\ UNCHANGED result
    <3>1. stage'[n] = "verify_votes" /\ result' = result
      BY <1>0, <2>4 DEF Ask, TypeInv, PlannerTypeOK
    <3>2. Agreed(ballot, k) # {}
      BY <1>1, <2>4, VotedPlan
    <3>3. VotesCounted(n)' /\ Reached(n)'
      BY <1>0, <1>1, <1>6, <1>3, <2>1, <3>1, <3>2 DEF NormInv, VotesCounted, Reached, Rewritable
    <3>4. WouldRun(n)' <=> WouldRun(n)
      BY <1>0 DEF WouldRun
    <3> QED
      BY <1>0, <3>1, <3>3, <3>4 DEF NormInv
  <2>5. CASE /\ Outcome(ballot, k).plan # NoPlan /\ ~config.verify
             /\ Finish(n, AutoPlan(Outcome(ballot, k).plan))
    <3>1. WouldRun(n)
      BY <1>0, <1>1, <1>6, <1>3, <2>5, VotedRuns
    <3> QED
      BY <2>2, <2>5, <3>1
  <2>6. IF Outcome(ballot, k).plan = NoPlan
        THEN Finish(n, Unsupported(reasons[n] \cup Outcome(ballot, k).reasons,
                                   IF says[n].candidate THEN Triple
                                   ELSE Outcome(ballot, k).candidate))
        ELSE IF config.verify THEN Ask(n, "verify_votes") /\ UNCHANGED result
             ELSE Finish(n, AutoPlan(Outcome(ballot, k).plan))
    <3>1. ballot[k].kind # "raised" /\ ~(k < Votes /\ ~Decided(ballot, k))
      BY <1>1, <1>6, VotesAssumption
    <3> QED
      BY <3>1 DEF VoteAnswered, k
  <2> QED
    BY <2>3, <2>4, <2>5, <2>6
<1> QED
  BY <1>5, <1>6, <1>4 DEF VoteAnswered, k

(* The end of a verification, which a failed call ends with a reason. *)
LEMMA NormJudged ==
    ASSUME NormsInv, NEW n \in Norms, NEW why, Judged(n, why), Verifying(n),
           UNCHANGED <<config, says, fetch, view, counted>>,
           why = {} => Confirmed(says[n].verdicts[stage[n]],
                                 Verified(n).by = "votes" /\ Verified(n).strict)
    PROVE  NormInv(n)'
<1>0. /\ PerNorm /\ TypeInv /\ NormInv(n) /\ fetch[n] = "got" /\ ~says[n].redLine
      /\ stage[n] \in {"verify_triple", "verify_votes"}
  BY DEF Verifying, NormsInv, NormInv, Reached
<1>1. stage[n] = "verify_triple" => counted[n] = 0
  BY <1>0 DEF TypeInv, Ranges, InRange
<1>2. ASSUME reasons' = reasons
      PROVE  Voting(n)' => LastVote(says[n].ballot, counted'[n])
  BY <1>0, <1>2 DEF NormInv, VotesCounted, Voting
<1>3. CASE why = {} /\ Finish(n, AutoPlan(Verified(n))) /\ UNCHANGED reasons
  <2>1. CASE stage[n] = "verify_triple"
    <3>1. Verified(n) = Triple /\ TripleStands(n)
      BY <1>0, <2>1 DEF Verified, NormInv, Reached
    <3>2. Confirmed(says[n].verdicts["verify_triple"], FALSE)
      <4>1. ~(Verified(n).by = "votes" /\ Verified(n).strict)
        BY <3>1 DEF Triple
      <4> QED
        BY <1>3, <2>1, <4>1 DEF Confirmed
    <3>3. WouldRun(n)
      BY <1>0, <3>1, <3>2 DEF WouldRun, TripleStands
    <3> QED
      BY <1>0, <1>2, <1>3, <3>3, NormDone
  <2>2. CASE stage[n] = "verify_votes"
    <3> DEFINE ballot == says[n].ballot
               k == counted[n]
    <3>1. /\ k \in 1..Votes /\ Rewritable(n) /\ Agreed(ballot, k) # {} /\ NoneRaised(ballot, k)
          /\ Verified(n) = Outcome(ballot, k).plan
      BY <1>0, <2>2 DEF Verified, NormInv, Reached, VotesCounted
    <3>2. Verified(n) # NoPlan /\ Verified(n).by = "votes"
      <4>1. \E S : Verified(n) = Kept(ballot, S)
        BY <3>1 DEF Outcome
      <4>2. Verified(n).by = "votes"
        BY <4>1 DEF Kept, Voted
      <4> QED
        BY <4>2 DEF NoPlan
    <3>3. Confirmed(says[n].verdicts["verify_votes"], Verified(n).strict)
      <4>1. (Verified(n).by = "votes" /\ Verified(n).strict) <=> Verified(n).strict
        BY <3>2
      <4> QED
        BY <1>3, <2>2, <4>1 DEF Confirmed
    <3>4. WouldRun(n)
      BY <1>0, <3>1, <3>2, <3>3, VotedRuns
    <3> QED
      BY <1>0, <1>2, <1>3, <3>4, NormDone
  <2> QED
    BY <1>0, <2>1, <2>2
<1>4. CASE stage[n] = "verify_triple" /\ RewriteOrBlock(n, why)
  BY <1>0, <1>1, <1>4, NormBlockedOrAsked
<1>5. CASE Finish(n, Unsupported(why, Verified(n))) /\ UNCHANGED reasons
  BY <1>0, <1>2, <1>5, NormDone, NotAuto
<1> QED
  BY <1>3, <1>4, <1>5 DEF Judged

LEMMA NormVerifierAnswered ==
    ASSUME NormsInv, NEW n \in Norms, VerifierAnswered(n)
    PROVE  NormInv(n)'
<1> DEFINE verdict == says[n].verdicts[stage[n]]
           why == VerdictReasons(Verified(n), verdict)
<1>1. /\ Judged(n, why) /\ Verifying(n)
      /\ UNCHANGED <<config, says, fetch, view, counted>>
  BY DEF VerifierAnswered, catalogVars
<1>2. why = {} => Confirmed(verdict, Verified(n).by = "votes" /\ Verified(n).strict)
  BY NoReasons
<1> HIDE DEF why
<1> QED
  BY <1>1, <1>2, NormJudged

LEMMA NormCallFailed ==
    ASSUME NormsInv, NEW n \in Norms, CallFailed(n)
    PROVE  NormInv(n)'
<1>1. UNCHANGED <<config, says, fetch, view, counted>>
  BY DEF CallFailed, catalogVars
<1>2. CASE stage[n] = "rewrite"
  <2>1. /\ Finish(n, Unsupported(reasons[n] \cup {"rewrite_llm_failed"}, Candidate(n)))
        /\ reasons' = [reasons EXCEPT ![n] = reasons[n] \cup {"rewrite_llm_failed"}]
    BY <1>2 DEF CallFailed, Verifying
  <2>2. "rewrite_llm_failed" \in reasons'[n]
    BY <2>1 DEF NormsInv, PerNorm
  <2>3. ~Voting(n)' /\ fetch[n] = "got"
    BY <1>2, <2>2 DEF Voting, NormsInv, NormInv, Reached
  <2> QED
    BY <1>1, <2>1, <2>3, NormDone, NotAuto DEF NormsInv
<1>3. CASE Verifying(n) /\ Judged(n, {"verifier_llm_failed"})
  BY <1>1, <1>3, NormJudged
<1> QED
  BY <1>2, <1>3 DEF CallFailed

(* The way to the catalog and to a permit. *)
LEMMA NormWaits ==
    ASSUME NormsInv, NEW n \in Norms,
           \/ GetCatalog(n) \/ TakeLock(n) \/ LoadCatalog(n) \/ Raised(n)
           \/ TakePermit(n) \/ Retry(n)
    PROVE  NormInv(n)'
<1>0. UNCHANGED <<config, says, counted, reasons, result>> /\ NormInv(n)
  BY DEF GetCatalog, TakeLock, LoadCatalog, Raised, TakePermit, Retry, NormsInv
<1>1. CASE Raised(n)
  <2>1. stage[n] = "catalog" /\ stage'[n] = "raised" /\ counted[n] = 0 /\ view' = view
    BY <1>1 DEF Raised, NormsInv, TypeInv, PlannerTypeOK, Ranges, InRange, catalogVars
  <2>2. WouldRun(n)' <=> WouldRun(n)
    BY <1>0, <2>1 DEF WouldRun
  <2> QED
    BY <1>0, <2>1, <2>2 DEF NormInv, VotesCounted, Voting, Reached
<1>2. CASE TakePermit(n) \/ Retry(n)
  BY <1>0, <1>2, SameNorm DEF TakePermit, Retry, catalogVars
<1>3. CASE GetCatalog(n) \/ TakeLock(n) \/ LoadCatalog(n)
  <2>1. fetch[n] # "got" /\ stage' = stage
    BY <1>3 DEF GetCatalog, TakeLock, LoadCatalog, Get, GetNothing, Acquire, Load, LoadOk,
                LoadFailed, LoadRaised
  <2>2. stage[n] \in {"catalog", "raised"}
    BY <1>0, <2>1 DEF NormInv, Reached
  <2>3. VotesCounted(n)' /\ Reached(n)'
    BY <1>0, <2>1, <2>2 DEF NormInv, VotesCounted, Voting, Reached
  <2>4. result[n].status # "auto"
    BY <1>0, <2>2 DEF NormInv, Reached
  <2> QED
    BY <1>0, <2>3, <2>4 DEF NormInv
<1> QED
  BY <1>1, <1>2, <1>3

LEMMA StepOfOne ==
    ASSUME NormsInv, NEW m \in Norms, Plan(m)
    PROVE  OnlyOf(m) /\ PerNorm'
<1>0. /\ PerNorm /\ stage = [n \in Norms |-> stage[n]] /\ counted = [n \in Norms |-> counted[n]]
      /\ fetch = [n \in Norms |-> fetch[n]] /\ view = [n \in Norms |-> view[n]]
  BY CallersAssumption DEF NormsInv, TypeInv, PlannerTypeOK, CatalogTypeOK
<1>1. CASE GetCatalog(m) \/ TakeLock(m) \/ LoadCatalog(m)
  BY <1>0, <1>1 DEF GetCatalog, TakeLock, LoadCatalog, Get, GetNothing, Acquire, StartLoad, Load,
                    LoadOk, LoadFailed, LoadRaised, Return, OnlyOf, PerNorm
<1>2. CASE Raised(m) \/ TakePermit(m) \/ Retry(m)
  BY <1>0, <1>2 DEF Raised, TakePermit, Retry, catalogVars, OnlyOf, PerNorm
<1>3. ASSUME UNCHANGED <<config, says, fetch, view>>,
             UNCHANGED counted \/ \E c : counted' = [counted EXCEPT ![m] = c],
             UNCHANGED stage \/ \E s : stage' = [stage EXCEPT ![m] = s],
             UNCHANGED reasons \/ \E why : reasons' = [reasons EXCEPT ![m] = why],
             UNCHANGED result \/ \E answer : result' = [result EXCEPT ![m] = answer]
      PROVE  OnlyOf(m) /\ PerNorm'
  <2>1. OnlyOf(m)
    BY <1>0, <1>3 DEF OnlyOf, PerNorm
  <2>2. PerNorm'
    BY <1>0, <1>3 DEF PerNorm
  <2> QED
    BY <2>1, <2>2
<1>4. CASE FirstPasses(m)
  BY <1>3, <1>4 DEF FirstPasses, RewriteOrBlock, Finish, Ask, catalogVars
<1>5. CASE VoteAnswered(m)
  BY <1>3, <1>5 DEF VoteAnswered, Finish, Ask, catalogVars
<1>6. CASE VerifierAnswered(m)
  BY <1>3, <1>6 DEF VerifierAnswered, Judged, RewriteOrBlock, Finish, Ask, catalogVars
<1>7. CASE CallFailed(m)
  BY <1>3, <1>7 DEF CallFailed, Judged, RewriteOrBlock, Finish, Ask, catalogVars
<1> QED
  BY <1>1, <1>2, <1>4, <1>5, <1>6, <1>7 DEF Plan

LEMMA NormsStep == NormsInv /\ [Next]_vars => NormsInv'
<1> SUFFICES ASSUME NormsInv, [Next]_vars
             PROVE  NormsInv'
  OBVIOUS
<1>0. TypeInv'
  BY TypeStep DEF NormsInv
<1>1. CASE Time \/ UNCHANGED vars
  <2>1. UNCHANGED <<config, says, stage, counted, reasons, result, fetch, view>>
    BY <1>1 DEF Time, Tick, vars, catalogVars
  <2>2. \A n \in Norms : NormInv(n)'
    BY <2>1, SameNorm DEF NormsInv
  <2> QED
    BY <1>0, <2>1, <2>2 DEF NormsInv, PerNorm
<1>2. ASSUME NEW m \in Norms, Plan(m)
      PROVE  NormsInv'
  <2>1. OnlyOf(m) /\ PerNorm'
    BY <1>2, StepOfOne
  <2>2. NormInv(m)'
    BY <1>2, NormWaits, NormFirstPasses, NormVoteAnswered, NormVerifierAnswered, NormCallFailed
       DEF Plan
  <2>3. \A n \in Norms \ {m} : NormInv(n)'
    BY <2>1, SameNorm DEF NormsInv, OnlyOf
  <2> QED
    BY <1>0, <2>1, <2>2, <2>3 DEF NormsInv
<1> QED
  BY <1>1, <1>2 DEF Next

LEMMA NormsInit == Init => NormsInv
<1> SUFFICES ASSUME Init
             PROVE  PerNorm /\ \A n \in Norms : NormInv(n)
  BY TypeInit DEF NormsInv
<1>1. PerNorm
  BY DEF Init, PerNorm
<1>2. \A n \in Norms : NormInv(n)
  BY DEF Init, NormInv, VotesCounted, Voting, Reached, Unanswered
<1> QED
  BY <1>1, <1>2

(* Votes that are left out change nothing, whatever they would say, as long as an agreement *)
(* takes more than half of them, as by default it does (rewrite and _can_agree).             *)
THEOREM EarlyStopsChangeNothing == ASSUME 2 * Agreement > Votes
                                   PROVE  Spec => []EarlyStopSound
<1>1. NormsInv => EarlyStopSound
  <2> SUFFICES ASSUME NormsInv, NEW n \in Norms, Voting(n)
               PROVE  Agreed(says[n].ballot, counted[n]) =
                          IF \E k \in 1..counted[n] : Uncheckable(says[n].ballot, k) THEN {}
                          ELSE Agreed(says[n].ballot, Votes)
    BY DEF EarlyStopSound
  <2>1. counted[n] \in 1..Votes
    BY VotesAssumption DEF NormsInv, TypeInv, PlannerTypeOK, Voting
  <2>2. LastVote(says[n].ballot, counted[n])
    BY DEF NormsInv, NormInv, VotesCounted
  <2> QED
    BY <2>1, <2>2, StopIsSound
<1> QED
  BY <1>1, NormsInit, NormsStep, PTL DEF Spec

(* A plan runs only if it would run with no call failed: an outage of the model blocks and *)
(* loosens nothing (plan_with_trace, rewrite and verify).                                   *)
THEOREM OutagesOnlyBlock == Spec => []OutageOnlyBlocks
<1>1. NormsInv => OutageOnlyBlocks
  BY DEF NormsInv, NormInv, OutageOnlyBlocks
<1> QED
  BY <1>1, NormsInit, NormsStep, PTL DEF Spec

=============================================================================
