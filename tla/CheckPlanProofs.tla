--------------------------- MODULE CheckPlanProofs ---------------------------
(***************************************************************************)
(* Theorems about CheckPlan, for any restrictions, page size and number of *)
(* requests.                                                               *)
(***************************************************************************)
EXTENDS CheckPlan, FiniteSetTheorems, WellFoundedInduction, TLAPS

-----------------------------------------------------------------------------
(* Types. *)

PassType == [at : {"idle", "reading", "working"}, after : Nat, next : Nat, all : BOOLEAN]

LEMMA AppendType ==
    ASSUME TypeOK, NEW r \in Ids, present[r], NEW plan \in Plan, AppendRevision(r, plan)
    PROVE  /\ plans' \in [Ids -> Seq(Plan)] /\ linked' \in [Ids -> BOOLEAN]
           /\ plans'[r] = Append(plans[r], plan) /\ plans'[r] # << >> /\ linked'[r] = TRUE
           /\ \A s \in Ids : s # r => plans'[s] = plans[s] /\ linked'[s] = linked[s]
<1>1. plans \in [Ids -> Seq(Plan)] /\ linked \in [Ids -> BOOLEAN]
  BY DEF TypeOK
<1>2. plans[r] \in Seq(Plan)
  BY <1>1
<1>3. Append(plans[r], plan) \in Seq(Plan) /\ Append(plans[r], plan) # << >>
  BY <1>2
<1> QED
  BY <1>1, <1>3 DEF AppendRevision

LEMMA CurrentType ==
    ASSUME TypeOK, NEW r \in Ids, plans[r] # << >>
    PROVE  /\ Current(r) \in Plan
           /\ Len(plans[r]) \in Nat \ {0} /\ Len(plans[r]) \in 1..Len(plans[r])
  BY DEF TypeOK, Current

LEMMA PlannedType ==
    ASSUME TypeOK, NEW by \in Automatic, NEW r \in Ids
    PROVE  /\ Planned(by, r) \in Task
           /\ Planned(by, r).by = by /\ Planned(by, r).id = r
           /\ Planned(by, r).of = text[r] /\ Planned(by, r).expected <= Len(plans[r])
<1>1. text[r] \in Nat /\ Len(plans[r]) \in Nat
  BY DEF TypeOK
<1>2. Revision(r) \in Nat /\ Revision(r) <= Len(plans[r])
  BY <1>1 DEF Revision
<1> QED
  BY <1>1, <1>2 DEF Planned, Task

LEMMA SaveType ==
    ASSUME TypeOK, NEW t \in tasks, Save(t)
    PROVE  TypeOK'
<1>1. t \in Task /\ tasks' \subseteq Task
  BY DEF TypeOK, Save
<1>2. CASE MayAppend(t)
  <2> DEFINE plan == [status |-> "auto", of |-> t.of, outdated |-> FALSE, by |-> t.by]
  <2>1. plan \in Plan /\ t.id \in Ids /\ present[t.id]
    BY <1>1, <1>2 DEF Task, Plan, MayAppend
  <2>2. AppendRevision(t.id, plan)
    BY <1>2 DEF Save
  <2> HIDE DEF plan
  <2> QED
    BY <1>1, <2>1, <2>2, AppendType DEF TypeOK, Save
<1>3. CASE ~MayAppend(t)
  BY <1>1, <1>3 DEF TypeOK, Save
<1> QED
  BY <1>2, <1>3

LEMMA DecideType ==
    ASSUME TypeOK, NEW v \in reviews, Decide(v)
    PROVE  TypeOK'
<1>1. v.id \in Ids /\ v.plan \in Plan /\ reviews' \subseteq [id : Ids, plan : Plan]
  BY DEF TypeOK, Decide
<1>2. CASE present[v.id]
  <2>1. AppendRevision(v.id, v.plan)
    BY <1>2 DEF Decide
  <2> QED
    BY <1>1, <1>2, <2>1, AppendType DEF TypeOK, Decide
<1>3. CASE ~present[v.id]
  BY <1>1, <1>3 DEF TypeOK, Decide
<1> QED
  BY <1>2, <1>3

LEMMA PagesType ==
    ASSUME TypeOK, NEW p \in Passes
    PROVE  /\ FirstOf(FirstOf(Rows(p), PageLimit + 1), PageLimit) \subseteq Rows(p)
           /\ Rows(p) \subseteq Ids
  BY DEF FirstOf, Rows

LEMMA InitType == Init => TypeOK
<1> SUFFICES ASSUME Init
             PROVE  TypeOK
  OBVIOUS
<1>1. plans \in [Ids -> Seq(Plan)]
  <2>1. [status |-> "auto", of |-> 1, outdated |-> TRUE, by |-> "extraction"] \in Plan
    BY DEF Plan, Automatic
  <2>2. \A plan \in Plan : <<plan>> \in Seq(Plan)
    OBVIOUS
  <2>3. << >> \in Seq(Plan)
    OBVIOUS
  <2> QED
    BY <2>1, <2>2, <2>3 DEF Init
<1> QED
  BY <1>1 DEF Init, TypeOK, NotRunning

LEMMA NextType == TypeOK /\ [Next]_vars => TypeOK'
<1> SUFFICES ASSUME TypeOK, [Next]_vars
             PROVE  TypeOK'
  OBVIOUS
<1> USE DEF stored
<1>1. ASSUME NEW r \in Ids, Drop(r)
      PROVE  TypeOK'
  BY <1>1 DEF TypeOK, Drop
<1>2. ASSUME NEW r \in Ids, NEW wording \in {text[r], text[r] + 1}, Extract(r, wording)
      PROVE  TypeOK'
  <2>1. text[r] \in Nat /\ wording \in Nat
    BY DEF TypeOK
  <2>2. [by |-> "extraction", id |-> r, of |-> wording, expected |-> 0] \in Task
    BY <2>1 DEF Task, Automatic
  <2> QED
    BY <1>2, <2>1, <2>2 DEF TypeOK, Extract, Asked
<1>3. ASSUME NEW t \in tasks, Fail(t)
      PROVE  TypeOK'
  <2>1. t.id \in Ids
    BY DEF TypeOK, Task
  <2> QED
    BY <1>3, <2>1 DEF TypeOK, Fail
<1>4. ASSUME NEW t \in tasks, Save(t)
      PROVE  TypeOK'
  BY <1>4, SaveType
<1>5. ASSUME NEW r \in Ids, NEW reject \in BOOLEAN, Review(r, reject)
      PROVE  TypeOK'
  <2>1. Current(r).of \in Nat
    BY <1>5, CurrentType DEF Review, Plan
  <2> DEFINE decision == [status |-> IF reject THEN "unsupported" ELSE "reviewed",
                          of |-> Current(r).of, outdated |-> FALSE, by |-> "expert"]
  <2>2. decision \in Plan
    BY <2>1 DEF Plan
  <2>3. /\ reviews' = reviews \cup {[id |-> r, plan |-> decision]}
        /\ requests' = requests + 1
        /\ UNCHANGED <<present, text, linked, plans, tasks, pass, due, unfinished, mixed>>
    BY <1>5 DEF Review, Asked
  <2> HIDE DEF decision
  <2> QED
    BY <2>2, <2>3 DEF TypeOK
<1>6. ASSUME NEW v \in reviews, Decide(v)
      PROVE  TypeOK'
  BY <1>6, DecideType
<1>7. CASE Stop
  BY <1>7 DEF TypeOK, Stop, Asked, NotRunning
<1>8. ASSUME NEW r \in Ids, Regenerate(r)
      PROVE  TypeOK'
  <2>1. Planned("regenerate", r) \in Task
    BY PlannedType DEF Automatic
  <2> QED
    BY <1>8, <2>1 DEF TypeOK, Regenerate, Asked
<1>9. ASSUME NEW p \in Passes, NEW all \in BOOLEAN, Begin(p, all)
      PROVE  TypeOK'
  <2>1. [NotRunning EXCEPT !.at = "reading", !.all = all]
           \in [at : {"idle", "reading", "working"}, after : Nat, next : Nat, all : BOOLEAN]
    BY DEF NotRunning
  <2> QED
    BY <1>9, <2>1 DEF TypeOK, Begin, Asked
<1>10. ASSUME NEW p \in Passes, ReadPage(p)
       PROVE  TypeOK'
  <2> DEFINE rows == FirstOf(Rows(p), PageLimit + 1)
             page == FirstOf(rows, PageLimit)
  <2>1. page \subseteq Ids /\ Ids \subseteq Nat
    BY PagesType, PlanAssumption
  <2>2. {Planned(p, r) : r \in page} \subseteq Task
    <3>1. p \in Automatic
      BY DEF Automatic
    <3> HIDE DEF page
    <3> QED
      BY <2>1, <3>1, PlannedType
  <2>3. PICK next \in page \cup {0} :
          pass' = [pass EXCEPT ![p].at = "working", ![p].next = next]
    BY <1>10 DEF ReadPage
  <2>4. tasks' = tasks \cup {Planned(p, r) : r \in page}
        /\ due' = [due EXCEPT ![p] = @ \ page]
        /\ UNCHANGED <<present, text, linked, plans, reviews, unfinished, mixed, requests>>
    BY <1>10 DEF ReadPage
  <2> HIDE DEF page
  <2>5. next \in Nat
    BY <2>1
  <2>6. pass' \in [Passes -> PassType]
    BY <2>3, <2>5, ZenonT(60) DEF TypeOK, PassType
  <2>7. tasks' \subseteq Task /\ due' \in [Passes -> SUBSET Ids]
    BY <2>2, <2>4 DEF TypeOK
  <2> QED
    BY <2>4, <2>6, <2>7 DEF TypeOK, PassType
<1>11. ASSUME NEW p \in Passes, PageFails(p) \/ PageDone(p)
       PROVE  TypeOK'
  <2>1. pass[p] \in PassType /\ NotRunning \in PassType
    BY DEF TypeOK, PassType, NotRunning
  <2>2. [pass[p] EXCEPT !.at = "reading", !.after = pass[p].next, !.next = 0] \in PassType
    BY <2>1 DEF PassType
  <2>3. pass' \in [Passes -> PassType]
    <3>1. CASE PageFails(p)
      BY <2>1, <3>1 DEF TypeOK, PassType, PageFails
    <3>2. CASE PageDone(p)
      <4>1. \E q \in PassType : pass' = [pass EXCEPT ![p] = q]
        BY <2>1, <2>2, <3>2 DEF PageDone
      <4> QED
        BY <4>1 DEF TypeOK, PassType
    <3> QED
      BY <1>11, <3>1, <3>2
  <2>4. due' \in [Passes -> SUBSET Ids]
    BY <1>11 DEF TypeOK, PageFails, PageDone
  <2> QED
    BY <1>11, <2>3, <2>4 DEF TypeOK, PassType, PageFails, PageDone
<1>12. CASE UNCHANGED vars
  BY <1>12 DEF TypeOK, vars
<1> QED
  BY <1>1, <1>2, <1>3, <1>4, <1>5, <1>6, <1>7, <1>8, <1>9, <1>10, <1>11, <1>12
     DEF Next, Extraction, Planner, Experts, Pass

(***************************************************************************)
(* Every part of the state keeps its type; a plan only ever hangs on a     *)
(* restriction that is stored.                                             *)
(***************************************************************************)
THEOREM TypeCorrect == Spec => []TypeOK
<1> QED
  BY InitType, NextType, PTL DEF Spec

-----------------------------------------------------------------------------
(* Who supersedes whom. *)

MaySupersede(old, new) ==
    old.by = "expert" => \/ new.by = "expert"
                         \/ old.status # "reviewed" /\ new.by = "extraction"

InOrder(s) == \A i \in 1..(Len(s) - 1) : MaySupersede(s[i], s[i + 1])

(* What is read or decided of a plan: an expert's decision is the expert's. *)
Decisions ==
    /\ \A v \in reviews : v.plan.by = "expert"
    /\ \A r \in Ids : \A i \in 1..Len(plans[r]) :
          plans[r][i].status = "reviewed" => plans[r][i].by = "expert"

LEMMA AppendInOrder ==
    ASSUME NEW s \in Seq(Plan), NEW plan \in Plan, InOrder(s),
           s # << >> => MaySupersede(s[Len(s)], plan)
    PROVE  InOrder(Append(s, plan))
<1> SUFFICES ASSUME NEW i \in 1..(Len(Append(s, plan)) - 1)
             PROVE  MaySupersede(Append(s, plan)[i], Append(s, plan)[i + 1])
  BY DEF InOrder
<1>1. Len(s) \in Nat /\ Len(Append(s, plan)) = Len(s) + 1 /\ i \in 1..Len(s)
  OBVIOUS
<1>2. CASE i = Len(s)
  <2>1. Append(s, plan)[i] = s[Len(s)] /\ Append(s, plan)[i + 1] = plan /\ s # << >>
    BY <1>1, <1>2
  <2> QED
    BY <2>1
<1>3. CASE i # Len(s)
  <2>1. /\ Append(s, plan)[i] = s[i] /\ Append(s, plan)[i + 1] = s[i + 1]
        /\ i \in 1..(Len(s) - 1)
    BY <1>1, <1>3
  <2> QED
    BY <2>1 DEF InOrder
<1> QED
  BY <1>2, <1>3

(* What a step does to the plans: nothing, or one revision more. *)
LEMMA PlansStep ==
    ASSUME TypeOK, [Next]_vars
    PROVE  \/ UNCHANGED plans
           \/ \E t \in tasks : Save(t) /\ MayAppend(t)
           \/ \E v \in reviews : Decide(v) /\ present[v.id]
<1> USE DEF stored
<1>1. CASE Extraction \/ Stop \/ UNCHANGED vars \/ \E r \in Ids : Regenerate(r)
  BY <1>1 DEF Extraction, Extract, Drop, Stop, Regenerate, vars
<1>2. CASE Planner
  BY <1>2 DEF Planner, Fail, Save
<1>3. CASE Experts
  BY <1>3 DEF Experts, Review, Decide
<1>4. ASSUME NEW p \in Passes, Pass(p)
      PROVE  UNCHANGED plans
  BY <1>4 DEF Pass, Begin, ReadPage, PageFails, PageDone
<1> QED
  BY <1>1, <1>2, <1>3, <1>4 DEF Next

LEMMA SavedPlan ==
    ASSUME TypeOK, NEW t \in tasks, Save(t), MayAppend(t)
    PROVE  /\ t.id \in Ids /\ present[t.id] /\ present' = present
           /\ \E plan \in Plan :
                 /\ plan.status = "auto" /\ plan.of = t.of /\ plan.by = t.by
                 /\ AppendRevision(t.id, plan)
<1> DEFINE plan == [status |-> "auto", of |-> t.of, outdated |-> FALSE, by |-> t.by]
<1>1. t \in Task
  BY DEF TypeOK
<1>2. plan \in Plan /\ AppendRevision(t.id, plan)
  BY <1>1 DEF Save, Plan, Task
<1> QED
  BY <1>1, <1>2 DEF Save, MayAppend, Task

LEMMA DecidedPlan ==
    ASSUME TypeOK, NEW v \in reviews, Decide(v), present[v.id]
    PROVE  /\ v.id \in Ids /\ v.plan \in Plan /\ present' = present
           /\ AppendRevision(v.id, v.plan)
  BY DEF TypeOK, Decide

Attached == \A r \in Ids : present[r] /\ plans[r] # << >> => linked[r]

LEMMA AttachedInductive == TypeOK /\ Attached /\ [Next]_vars => Attached'
<1> SUFFICES ASSUME TypeOK, Attached, [Next]_vars
             PROVE  Attached'
  OBVIOUS
<1>1. ASSUME NEW r \in Ids, present[r], NEW plan \in Plan, AppendRevision(r, plan),
             present' = present
      PROVE  Attached'
  BY <1>1, AppendType DEF Attached
<1>2. CASE \E t \in tasks : Save(t) /\ MayAppend(t)
  BY <1>1, <1>2, SavedPlan
<1>3. CASE \E v \in reviews : Decide(v) /\ present[v.id]
  BY <1>1, <1>3, DecidedPlan
<1>4. CASE UNCHANGED <<present, linked, plans>>
  BY <1>4 DEF Attached
<1>5. ASSUME NEW r \in Ids, Drop(r)
      PROVE  Attached'
  BY <1>5 DEF Attached, Drop, TypeOK
<1>6. ASSUME NEW r \in Ids, NEW wording, Extract(r, wording)
      PROVE  Attached'
  BY <1>6 DEF Attached, Extract, TypeOK
<1>7. ASSUME NEW p \in Passes, Pass(p)
      PROVE  UNCHANGED <<present, linked, plans>>
  BY <1>7 DEF Pass, Begin, ReadPage, PageFails, PageDone, stored
<1> QED
  BY <1>2, <1>3, <1>4, <1>5, <1>6, <1>7
     DEF Next, Extraction, Planner, Experts, Fail, Save, Review, Decide, Stop, Regenerate,
         stored, vars

LEMMA InOrderInductive ==
    TypeOK /\ Decisions /\ (\A r \in Ids : InOrder(plans[r])) /\ [Next]_vars
        => \A r \in Ids : InOrder(plans'[r])
<1> SUFFICES ASSUME TypeOK, Decisions, \A r \in Ids : InOrder(plans[r]), [Next]_vars
             PROVE  \A r \in Ids : InOrder(plans'[r])
  OBVIOUS
<1>1. ASSUME NEW r \in Ids, present[r], NEW plan \in Plan, AppendRevision(r, plan),
             plans[r] # << >> => MaySupersede(Current(r), plan)
      PROVE  \A s \in Ids : InOrder(plans'[s])
  <2>1. plans[r] \in Seq(Plan) /\ plans'[r] = Append(plans[r], plan)
    BY <1>1, AppendType DEF TypeOK
  <2>2. InOrder(plans'[r])
    BY <1>1, <2>1, AppendInOrder DEF Current
  <2> QED
    BY <1>1, <2>2, AppendType
<1>2. ASSUME NEW t \in tasks, Save(t), MayAppend(t)
      PROVE  \A s \in Ids : InOrder(plans'[s])
  <2>1. PICK plan \in Plan : plan.by = t.by /\ AppendRevision(t.id, plan)
    BY <1>2, SavedPlan
  <2>2. t.by \in Automatic
    BY DEF TypeOK, Task
  <2>3. ASSUME plans[t.id] # << >>
        PROVE  MaySupersede(Current(t.id), plan)
    BY <1>2, <2>1, <2>2, <2>3 DEF MayAppend, MaySupersede, Automatic, Passes
  <2> QED
    BY <1>1, <1>2, <2>1, <2>3, SavedPlan
<1>3. ASSUME NEW v \in reviews, Decide(v), present[v.id]
      PROVE  \A s \in Ids : InOrder(plans'[s])
  BY <1>1, <1>3, DecidedPlan DEF Decisions, MaySupersede
<1> QED
  BY <1>2, <1>3, PlansStep

LEMMA AppendIndex ==
    ASSUME TypeOK, NEW r \in Ids, present[r], NEW plan \in Plan, AppendRevision(r, plan)
    PROVE  /\ Len(plans'[r]) = Len(plans[r]) + 1 /\ plans'[r][Len(plans'[r])] = plan
           /\ \A s \in Ids : \A i \in 1..Len(plans'[s]) :
                 \/ plans'[s][i] = plan
                 \/ i \in 1..Len(plans[s]) /\ plans'[s][i] = plans[s][i]
<1>1. plans[r] \in Seq(Plan) /\ plans'[r] = Append(plans[r], plan)
  BY AppendType DEF TypeOK
<1>2. Len(plans'[r]) = Len(plans[r]) + 1 /\ plans'[r][Len(plans'[r])] = plan
  BY <1>1
<1>3. ASSUME NEW i \in 1..Len(plans'[r])
      PROVE  \/ plans'[r][i] = plan
             \/ i \in 1..Len(plans[r]) /\ plans'[r][i] = plans[r][i]
  <2>1. CASE i = Len(plans[r]) + 1
    BY <1>2, <2>1
  <2>2. CASE i # Len(plans[r]) + 1
    BY <1>1, <1>2, <2>2
  <2> QED
    BY <2>1, <2>2
<1> QED
  BY <1>2, <1>3, AppendType

LEMMA DecisionsInductive == TypeOK /\ Decisions /\ [Next]_vars => Decisions'
<1> SUFFICES ASSUME TypeOK, Decisions, [Next]_vars
             PROVE  Decisions'
  OBVIOUS
<1> USE DEF stored
<1>1. \A v \in reviews' : v.plan.by = "expert"
  <2>1. ASSUME NEW r \in Ids, NEW reject \in BOOLEAN, Review(r, reject)
        PROVE  \A v \in reviews' : v.plan.by = "expert"
    BY <2>1 DEF Review, Decisions
  <2>2. ASSUME NEW v \in reviews, Decide(v)
        PROVE  reviews' \subseteq reviews
    BY <2>2 DEF Decide
  <2>3. ASSUME NEW p \in Passes, Pass(p)
        PROVE  reviews' = reviews
    BY <2>3 DEF Pass, Begin, ReadPage, PageFails, PageDone
  <2>4. CASE Extraction \/ Planner \/ Stop \/ UNCHANGED vars \/ \E r \in Ids : Regenerate(r)
    <3>1. reviews' \subseteq reviews
      BY <2>4 DEF Extraction, Extract, Drop, Planner, Fail, Save, Stop, Regenerate, vars
    <3> QED
      BY <3>1 DEF Decisions
  <2> QED
    BY <2>1, <2>2, <2>3, <2>4 DEF Next, Experts, Decisions
<1>2. ASSUME NEW r \in Ids, present[r], NEW plan \in Plan, AppendRevision(r, plan),
             plan.status = "reviewed" => plan.by = "expert"
      PROVE  \A s \in Ids : \A i \in 1..Len(plans'[s]) :
                plans'[s][i].status = "reviewed" => plans'[s][i].by = "expert"
  BY <1>2, AppendIndex DEF Decisions
<1>3. \A s \in Ids : \A i \in 1..Len(plans'[s]) :
         plans'[s][i].status = "reviewed" => plans'[s][i].by = "expert"
  <2>1. CASE UNCHANGED plans
    BY <2>1 DEF Decisions
  <2>2. CASE \E t \in tasks : Save(t) /\ MayAppend(t)
    BY <1>2, <2>2, SavedPlan
  <2>3. CASE \E v \in reviews : Decide(v) /\ present[v.id]
    BY <1>2, <2>3, DecidedPlan DEF Decisions
  <2> QED
    BY <2>1, <2>2, <2>3, PlansStep
<1> QED
  BY <1>1, <1>3 DEF Decisions

LEMMA InitOrder ==
    Init => Attached /\ Decisions /\ \A r \in Ids : InOrder(plans[r])
<1> SUFFICES ASSUME Init
             PROVE  Attached /\ Decisions /\ \A r \in Ids : InOrder(plans[r])
  OBVIOUS
<1> DEFINE first == [status |-> "auto", of |-> 1, outdated |-> TRUE, by |-> "extraction"]
<1>1. \A r \in Ids : plans[r] = << >> \/ plans[r] = <<first>>
  BY DEF Init
<1>2. \A r \in Ids : \A i \in 1..Len(plans[r]) : plans[r][i] = first
  BY <1>1
<1>3. \A r \in Ids : InOrder(plans[r])
  <2>1. Len(<< >>) = 0 /\ Len(<<first>>) = 1
    OBVIOUS
  <2> HIDE DEF first
  <2>2. \A r \in Ids : Len(plans[r]) \in {0, 1}
    BY <1>1, <2>1
  <2> QED
    BY <2>2 DEF InOrder
<1>4. Attached
  BY DEF Init, Attached
<1>5. Decisions
  BY <1>2 DEF Init, Decisions
<1> QED
  BY <1>3, <1>4, <1>5

(***************************************************************************)
(* No pass, regeneration or re-extraction supersedes what an expert        *)
(* approved or replaced, and only a re-extraction what one rejected.       *)
(***************************************************************************)
THEOREM ExpertsDecide == Spec => []ExpertHasTheLastWord
<1> DEFINE IInv == /\ TypeOK /\ Attached /\ Decisions
                   /\ \A r \in Ids : InOrder(plans[r])
<1>1. Init => IInv
  BY InitType, InitOrder
<1>2. IInv /\ [Next]_vars => IInv'
  BY NextType, AttachedInductive, DecisionsInductive, InOrderInductive
<1>3. IInv => ExpertHasTheLastWord
  BY DEF Attached, InOrder, MaySupersede, ExpertHasTheLastWord
<1> QED
  BY <1>1, <1>2, <1>3, PTL DEF Spec

-----------------------------------------------------------------------------
(* What a plan in the making will meet. *)

(* The plan of task t will not be stored any more. *)
Refused(t) ==
    IF t.by = "backfill" THEN plans[t.id] # << >>
    ELSE \/ Len(plans[t.id]) > t.expected
         \/ plans[t.id] # << >> /\ Current(t.id).status = "reviewed"

Tasks ==
    /\ \A t \in tasks : t.by = "extraction" => t.of = text[t.id] \/ t.id \in mixed
    /\ \A t \in tasks : t.expected <= Len(plans[t.id])

(* No plan of an older wording can be stored once the extraction of the newer is over. *)
Outdated ==
    \A t \in tasks :
        t.by # "extraction" /\ present[t.id] /\ ~Extracting(t.id) /\ t.id \notin unfinished
        => t.of = text[t.id] \/ Refused(t)

LEMMA PlansGrow ==
    ASSUME TypeOK, [Next]_vars
    PROVE  \A r \in Ids : Len(plans'[r]) >= Len(plans[r])
<1>1. \A r \in Ids : Len(plans[r]) \in Nat
  BY DEF TypeOK
<1>2. ASSUME NEW r \in Ids, present[r], NEW plan \in Plan, AppendRevision(r, plan)
      PROVE  \A s \in Ids : Len(plans'[s]) >= Len(plans[s])
  <2> TAKE s \in Ids
  <2>1. CASE s = r
    BY <1>1, <1>2, <2>1, AppendIndex
  <2>2. CASE s # r
    <3>1. plans'[s] = plans[s]
      BY <1>2, <2>2, AppendType
    <3> QED
      BY <1>1, <3>1
  <2> QED
    BY <2>1, <2>2
<1> QED
  BY <1>1, <1>2, PlansStep, SavedPlan, DecidedPlan

LEMMA TasksInductive == TypeOK /\ Tasks /\ [Next]_vars => Tasks'
<1> SUFFICES ASSUME TypeOK, Tasks, [Next]_vars
             PROVE  Tasks'
  OBVIOUS
<1> USE DEF stored
<1>1. \A r \in Ids : Len(plans[r]) \in Nat /\ Len(plans'[r]) >= Len(plans[r])
  BY PlansGrow DEF TypeOK
<1>2. ASSUME tasks' \subseteq tasks, UNCHANGED <<text, mixed>>
      PROVE  Tasks'
  BY <1>1, <1>2 DEF Tasks, TypeOK, Task
<1>3. ASSUME NEW r \in Ids, NEW wording, Extract(r, wording)
      PROVE  Tasks'
  <2> DEFINE new == [by |-> "extraction", id |-> r, of |-> wording, expected |-> 0]
  <2>1. /\ tasks' = tasks \cup {new} /\ new.by = "extraction" /\ new.id = r
        /\ new.of = text'[r] /\ new.expected = 0
    BY <1>3 DEF Extract, TypeOK
  <2>2. ASSUME NEW t \in tasks
        PROVE  /\ t.by = "extraction" => t.of = text'[t.id] \/ t.id \in mixed'
               /\ t.expected <= Len(plans'[t.id])
    <3>1. plans' = plans /\ t.id \in Ids
      BY <1>3 DEF Extract, TypeOK, Task
    <3>2. CASE t.id # r
      BY <1>3, <3>1, <3>2 DEF Extract, Tasks, TypeOK
    <3>3. CASE t.id = r
      BY <1>3, <3>1, <3>3 DEF Extract, Tasks, Extracting
    <3> QED
      BY <3>2, <3>3
  <2> HIDE DEF new
  <2> QED
    BY <1>1, <2>1, <2>2 DEF Tasks
<1>4. ASSUME NEW by \in Automatic \ {"extraction"}, NEW R \in SUBSET Ids,
             tasks' = tasks \cup {Planned(by, r) : r \in R}, UNCHANGED <<text, plans, mixed>>
      PROVE  Tasks'
  BY <1>4, PlannedType DEF Tasks
<1>5. ASSUME NEW r \in Ids, Regenerate(r)
      PROVE  Tasks'
  <2>1. tasks' = tasks \cup {Planned("regenerate", s) : s \in {r}}
    BY <1>5 DEF Regenerate
  <2>2. {r} \in SUBSET Ids /\ "regenerate" \in Automatic \ {"extraction"}
    BY DEF Automatic
  <2> QED
    BY <1>4, <1>5, <2>1, <2>2 DEF Regenerate
<1>6. ASSUME NEW p \in Passes, ReadPage(p)
      PROVE  Tasks'
  BY <1>4, <1>6, PagesType DEF ReadPage, Automatic, Passes
<1>7. ASSUME NEW p \in Passes, NEW all \in BOOLEAN, Begin(p, all) \/ PageFails(p) \/ PageDone(p)
      PROVE  UNCHANGED <<tasks, text, mixed>>
  BY <1>7 DEF Begin, PageFails, PageDone
<1>8. ASSUME NEW r \in Ids, Drop(r)
      PROVE  UNCHANGED <<tasks, text, mixed>>
  BY <1>8 DEF Drop
<1>9. CASE Planner \/ Experts \/ Stop \/ UNCHANGED vars
  <2>1. tasks' \subseteq tasks /\ UNCHANGED <<text, mixed>>
    BY <1>9 DEF Planner, Experts, Fail, Save, Review, Decide, Stop, vars
  <2> QED
    BY <1>2, <2>1
<1> QED
  BY <1>2, <1>3, <1>5, <1>6, <1>7, <1>8, <1>9 DEF Next, Extraction, Pass

(* What will not be stored now never will. *)
LEMMA StaysRefused ==
    ASSUME TypeOK, Tasks, [Next]_vars, NEW t \in tasks, Refused(t)
    PROVE  Refused(t)'
<1>1. t \in Task /\ t.id \in Ids /\ t.expected \in Nat /\ t.expected <= Len(plans[t.id])
  BY DEF TypeOK, Tasks, Task
<1>2. CASE UNCHANGED plans
  BY <1>2 DEF Refused, Current
<1>3. ASSUME NEW r \in Ids, present[r], NEW plan \in Plan, AppendRevision(r, plan)
      PROVE  Refused(t)'
  <2>1. plans[r] \in Seq(Plan) /\ Len(plans'[r]) = Len(plans[r]) + 1 /\ plans'[r] # << >>
    BY <1>3, AppendType, AppendIndex DEF TypeOK
  <2>2. CASE t.id = r
    BY <1>1, <2>1, <2>2 DEF Refused
  <2>3. CASE t.id # r
    <3>1. plans'[t.id] = plans[t.id]
      BY <1>1, <1>3, <2>3, AppendType
    <3> QED
      BY <3>1 DEF Refused, Current
  <2> QED
    BY <2>2, <2>3
<1> QED
  BY <1>2, <1>3, PlansStep, SavedPlan, DecidedPlan

LEMMA OutdatedInductive == TypeOK /\ Tasks /\ Outdated /\ [Next]_vars => Outdated'
<1> SUFFICES ASSUME TypeOK, Tasks, Outdated, [Next]_vars,
                    NEW t \in tasks', t.by # "extraction", present'[t.id],
                    ~Extracting(t.id)', t.id \notin unfinished'
             PROVE  t.of = text'[t.id] \/ Refused(t)'
  BY DEF Outdated
<1> USE DEF stored
<1>1. ASSUME t \in tasks, ~Extracting(t.id), present[t.id], t.id \notin unfinished,
             text' = text
      PROVE  t.of = text'[t.id] \/ Refused(t)'
  BY <1>1, StaysRefused DEF Outdated
<1>2. ASSUME tasks' = tasks, UNCHANGED <<text, unfinished>>, \A r \in Ids : present'[r] => present[r]
      PROVE  t.of = text'[t.id] \/ Refused(t)'
  BY <1>1, <1>2 DEF Extracting, TypeOK, Task
<1>3. ASSUME NEW by \in Automatic, NEW R \in SUBSET Ids,
             tasks' = tasks \cup {Planned(by, r) : r \in R},
             UNCHANGED <<present, text, unfinished>>
      PROVE  t.of = text'[t.id] \/ Refused(t)'
  <2>1. CASE t \in tasks
    BY <1>1, <1>3, <2>1 DEF Extracting
  <2>2. CASE t \notin tasks
    BY <1>3, <2>2, PlannedType
  <2> QED
    BY <2>1, <2>2
<1>4. ASSUME NEW r \in Ids, NEW wording, Extract(r, wording)
      PROVE  t.of = text'[t.id] \/ Refused(t)'
  <2> DEFINE new == [by |-> "extraction", id |-> r, of |-> wording, expected |-> 0]
  <2>1. tasks' = tasks \cup {new} /\ new.by = "extraction" /\ new.id = r
    BY <1>4 DEF Extract
  <2>2. t \in tasks /\ t.id # r
    BY <2>1 DEF Extracting
  <2>3. ~Extracting(t.id)
    BY <2>1 DEF Extracting
  <2>4. present[t.id] /\ t.id \notin unfinished /\ text'[t.id] = text[t.id]
    BY <1>4, <2>2 DEF Extract, TypeOK, Task
  <2> QED
    BY <2>2, <2>3, <2>4, StaysRefused DEF Outdated
<1>5. ASSUME NEW u \in tasks, Fail(u)
      PROVE  t.of = text'[t.id] \/ Refused(t)'
  <2>1. ~Extracting(t.id) /\ t.id \notin unfinished
    BY <1>5 DEF Fail, Extracting
  <2> QED
    BY <1>1, <1>5, <2>1 DEF Fail
<1>6. ASSUME NEW u \in tasks, Save(u)
      PROVE  t.of = text'[t.id] \/ Refused(t)'
  <2>1. t \in tasks /\ UNCHANGED <<present, text, unfinished>> /\ tasks' = tasks \ {u}
    BY <1>6 DEF Save
  <2>2. CASE ~Extracting(t.id)
    BY <1>1, <2>1, <2>2
  <2>3. CASE Extracting(t.id)
    <3>1. u.by = "extraction" /\ u.id = t.id
      BY <2>1, <2>3 DEF Extracting
    <3>2. t \in Task /\ t.id \in Ids /\ t.expected \in Nat /\ t.expected <= Len(plans[t.id])
      BY <2>1 DEF TypeOK, Tasks, Task
    <3>3. CASE MayAppend(u)
      <4>1. Len(plans'[t.id]) = Len(plans[t.id]) + 1 /\ plans'[t.id] # << >>
        BY <1>6, <3>1, <3>3, SavedPlan, AppendType, AppendIndex
      <4> QED
        BY <3>2, <4>1 DEF Refused, TypeOK
    <3>4. CASE ~MayAppend(u)
      <4>1. plans[t.id] # << >> /\ Current(t.id).status = "reviewed"
        BY <2>1, <3>1, <3>4 DEF MayAppend
      <4>2. Refused(t)
        BY <4>1 DEF Refused
      <4> QED
        BY <2>1, <4>2, StaysRefused
    <3> QED
      BY <3>3, <3>4
  <2> QED
    BY <2>2, <2>3
<1>7. ASSUME NEW r \in Ids, Regenerate(r)
      PROVE  t.of = text'[t.id] \/ Refused(t)'
  <2>1. tasks' = tasks \cup {Planned("regenerate", s) : s \in {r}}
    BY <1>7 DEF Regenerate
  <2>2. {r} \in SUBSET Ids /\ "regenerate" \in Automatic \ {"extraction"}
    BY DEF Automatic
  <2> QED
    BY <1>3, <1>7, <2>1, <2>2 DEF Regenerate
<1>8. ASSUME NEW p \in Passes, ReadPage(p)
      PROVE  t.of = text'[t.id] \/ Refused(t)'
  BY <1>3, <1>8, PagesType DEF ReadPage, Automatic
<1>9. ASSUME NEW r \in Ids, Drop(r)
      PROVE  t.of = text'[t.id] \/ Refused(t)'
  BY <1>2, <1>9 DEF Drop, TypeOK
<1>10. ASSUME NEW p \in Passes, NEW all \in BOOLEAN, Begin(p, all) \/ PageFails(p) \/ PageDone(p)
       PROVE  UNCHANGED <<present, text, tasks, unfinished>>
  BY <1>10 DEF Begin, PageFails, PageDone
<1>11. CASE Experts
  BY <1>2, <1>11 DEF Experts, Review, Decide
<1>12. CASE Stop
  BY <1>12 DEF Stop
<1>13. CASE UNCHANGED vars
  BY <1>2, <1>13 DEF vars
<1> QED
  BY <1>2, <1>4, <1>5, <1>6, <1>7, <1>8, <1>9, <1>10, <1>11, <1>12, <1>13
     DEF Next, Extraction, Planner, Pass

(* The matrix of the property. *)
Good(r) == \/ Current(r).of = text[r]
           \/ r \in mixed /\ Current(r).by = "extraction"

LEMMA PlannedInductive ==
    TypeOK /\ Decisions /\ Tasks /\ Outdated /\ PlannedFromWhatIsStored /\ [Next]_vars
        => PlannedFromWhatIsStored'
<1> SUFFICES ASSUME TypeOK, Decisions, Tasks, Outdated, PlannedFromWhatIsStored, [Next]_vars,
                    NEW r \in Ids, present'[r], plans'[r] # << >>, Current(r)'.by # "expert",
                    ~Extracting(r)', r \notin unfinished'
             PROVE  Good(r)'
  BY DEF PlannedFromWhatIsStored, Good
<1> USE DEF stored
<1>1. ASSUME ~Extracting(r), r \notin unfinished, present[r], text'[r] = text[r],
             plans'[r] = plans[r], r \in mixed => r \in mixed'
      PROVE  Good(r)'
  BY <1>1 DEF PlannedFromWhatIsStored, Current, Good
<1>2. ASSUME NEW t \in tasks, Save(t)
      PROVE  Good(r)'
  <2>1. UNCHANGED <<present, text, unfinished, mixed>> /\ tasks' = tasks \ {t} /\ t \in Task
    BY <1>2 DEF Save, TypeOK
  <2>2. CASE t.id = r /\ MayAppend(t)
    <3>1. Current(r)'.of = t.of /\ Current(r)'.by = t.by
      BY <1>2, <2>2, SavedPlan, AppendIndex DEF Current
    <3>2. CASE t.by = "extraction"
      BY <2>1, <2>2, <3>1, <3>2 DEF Tasks, Good
    <3>3. CASE t.by # "extraction"
      <4>1. ~Extracting(r)
        BY <2>1, <3>3 DEF Extracting
      <4>2. ~Refused(t)
        <5>1. Len(plans[r]) \in Nat /\ t.by \in Automatic /\ t.expected \in Nat
          BY <2>1 DEF TypeOK, Task
        <5> QED
          BY <2>2, <3>3, <5>1 DEF MayAppend, Refused, Automatic, Passes
      <4> QED
        BY <2>1, <2>2, <3>1, <3>3, <4>1, <4>2 DEF Outdated, Good
    <3> QED
      BY <3>2, <3>3
  <2>3. CASE t.id # r
    <3>1. plans'[r] = plans[r]
      <4>1. CASE MayAppend(t)
        <5>1. PICK plan \in Plan : AppendRevision(t.id, plan)
          BY <1>2, <4>1, SavedPlan
        <5>2. t.id \in Ids /\ present[t.id]
          BY <1>2, <4>1, SavedPlan
        <5>3. \A s \in Ids : s # t.id => plans'[s] = plans[s]
          BY <5>1, <5>2, AppendType
        <5> QED
          BY <2>3, <5>3
      <4>2. CASE ~MayAppend(t)
        BY <1>2, <4>2 DEF Save
      <4> QED
        BY <4>1, <4>2
    <3>2. ~Extracting(r)
      BY <2>1, <2>3 DEF Extracting
    <3> QED
      BY <1>1, <2>1, <3>1, <3>2
  <2>4. CASE t.id = r /\ ~MayAppend(t)
    <3>1. plans' = plans
      BY <1>2, <2>4 DEF Save
    <3>2. CASE t.by = "extraction"
      <4>1. plans[r] # << >> /\ Current(r).status = "reviewed"
        BY <2>1, <2>4, <3>2 DEF MayAppend
      <4>2. Current(r).by = "expert"
        BY <4>1, CurrentType DEF Decisions, Current
      <4> QED
        BY <3>1, <4>2 DEF Current
    <3>3. CASE t.by # "extraction"
      BY <1>1, <2>1, <3>1, <3>3 DEF Extracting
    <3> QED
      BY <3>2, <3>3
  <2> QED
    BY <2>2, <2>3, <2>4
<1>3. ASSUME NEW v \in reviews, Decide(v)
      PROVE  Good(r)'
  <2>1. UNCHANGED <<present, text, tasks, unfinished, mixed>>
    BY <1>3 DEF Decide
  <2>2. CASE v.id = r /\ present[v.id]
    BY <1>3, <2>2, DecidedPlan, AppendIndex DEF Current, Decisions
  <2>3. CASE ~(v.id = r /\ present[v.id])
    <3>1. plans'[r] = plans[r]
      BY <1>3, <2>3, DecidedPlan, AppendType DEF Decide
    <3> QED
      BY <1>1, <2>1, <3>1 DEF Extracting
  <2> QED
    BY <2>2, <2>3
<1>4. ASSUME NEW s \in Ids, NEW wording, Extract(s, wording)
      PROVE  Good(r)'
  <2> DEFINE new == [by |-> "extraction", id |-> s, of |-> wording, expected |-> 0]
  <2>1. tasks' = tasks \cup {new} /\ new.by = "extraction" /\ new.id = s
    BY <1>4 DEF Extract
  <2>2. r # s /\ ~Extracting(r)
    BY <2>1 DEF Extracting
  <2>3. present[r] /\ r \notin unfinished /\ text'[r] = text[r] /\ plans' = plans
        /\ (r \in mixed => r \in mixed')
    BY <1>4, <2>2 DEF Extract, TypeOK
  <2> QED
    BY <1>1, <2>2, <2>3
<1>5. ASSUME NEW t \in tasks, Fail(t)
      PROVE  Good(r)'
  <2>1. ~Extracting(r) /\ r \notin unfinished
    BY <1>5 DEF Fail, Extracting
  <2> QED
    BY <1>1, <1>5, <2>1 DEF Fail
<1>6. CASE Stop
  <2>1. ~Extracting(r) /\ r \notin unfinished
    BY <1>6 DEF Stop
  <2> QED
    BY <1>1, <1>6, <2>1 DEF Stop
<1>7. ASSUME tasks \subseteq tasks', UNCHANGED <<text, plans, unfinished, mixed>>,
             present'[r] => present[r]
      PROVE  Good(r)'
  BY <1>1, <1>7 DEF Extracting
<1>8. ASSUME NEW s \in Ids, Drop(s) \/ Regenerate(s) \/ \E reject \in BOOLEAN : Review(s, reject)
      PROVE  Good(r)'
  BY <1>7, <1>8 DEF Drop, Regenerate, Review, TypeOK
<1>9. ASSUME NEW p \in Passes, Pass(p)
      PROVE  Good(r)'
  BY <1>7, <1>9 DEF Pass, Begin, ReadPage, PageFails, PageDone
<1>10. CASE UNCHANGED vars
  BY <1>7, <1>10 DEF vars
<1> QED
  BY <1>2, <1>3, <1>4, <1>5, <1>6, <1>8, <1>9, <1>10 DEF Next, Extraction, Planner, Experts

(***************************************************************************)
(* The current automatic plan is always that of the stored wording: a task *)
(* that read an older one is refused once the newer is extracted.          *)
(***************************************************************************)
THEOREM FreshPlans == Spec => []PlannedFromWhatIsStored
<1> DEFINE IInv == TypeOK /\ Decisions /\ Tasks /\ Outdated /\ PlannedFromWhatIsStored
<1>1. Init => IInv
  <2> SUFFICES ASSUME Init
               PROVE  Tasks /\ Outdated /\ PlannedFromWhatIsStored
    BY InitType, InitOrder
  <2>1. Tasks /\ Outdated
    BY DEF Init, Tasks, Outdated
  <2>2. PlannedFromWhatIsStored
    BY DEF Init, PlannedFromWhatIsStored, Current
  <2> QED
    BY <2>1, <2>2
<1>2. IInv /\ [Next]_vars => IInv'
  BY NextType, DecisionsInductive, TasksInductive, OutdatedInductive, PlannedInductive
<1> QED
  BY <1>1, <1>2, PTL DEF Spec

-----------------------------------------------------------------------------
(* Sets of naturals, for the page keys. *)

(* A set of naturals has a least element. *)
LEMMA LeastNat == ASSUME NEW S \in SUBSET Nat, S # {}
                  PROVE  \E m \in S : \A x \in S : m <= x
<1> DEFINE R == OpToRel(<, Nat)
<1>1. PICK m \in S : \A x \in S : ~ (<<x, m>> \in R)
  <2>1. IsWellFoundedOn(R, Nat)
    BY NatLessThanWellFounded
  <2> HIDE DEF R
  <2> QED
    BY <2>1, WFMin
<1>2. ASSUME NEW x \in S
      PROVE  m <= x
  <2>1. <<x, m>> \in Nat \X Nat /\ <<x, m>>[1] = x /\ <<x, m>>[2] = m
    OBVIOUS
  <2>2. ~ (x < m) /\ x \in Nat /\ m \in Nat
    BY <1>1, <2>1 DEF OpToRel
  <2> QED
    BY <2>2
<1> QED
  BY <1>2

(* A finite one has a greatest: the element with the fewest from it on. *)
LEMMA GreatestNat == ASSUME NEW S \in SUBSET Nat, S # {}, IsFiniteSet(S)
                     PROVE  \E m \in S : \A x \in S : x <= m
<1> DEFINE From(x) == {s \in S : s >= x}
           C == {Cardinality(From(x)) : x \in S}
<1>1. \A x \in S : IsFiniteSet(From(x)) /\ Cardinality(From(x)) \in Nat
  BY FS_Subset, FS_CardinalityType
<1>2. PICK m \in S : \A x \in S : Cardinality(From(m)) <= Cardinality(From(x))
  <2>1. C \in SUBSET Nat /\ C # {}
    BY <1>1
  <2>2. PICK c \in C : \A d \in C : c <= d
    BY <2>1, LeastNat
  <2> QED
    BY <2>2
<1>3. ASSUME NEW x \in S, x > m
      PROVE  FALSE
  <2>1. x \in Nat /\ m \in Nat /\ x > m
    BY <1>3
  <2>2. \A s \in S : s >= x => s >= m
    <3> TAKE s \in S
    <3>1. s \in Nat
      OBVIOUS
    <3> QED
      BY <2>1, <3>1
  <2>3. From(x) \subseteq From(m)
    BY <2>2
  <2>4. m \in From(m) /\ m \notin From(x)
    BY <2>1
  <2>5. Cardinality(From(x)) <= Cardinality(From(m)) /\ Cardinality(From(m)) # Cardinality(From(x))
    BY <1>1, <2>3, <2>4, FS_Subset
  <2> QED
    BY <1>1, <1>2, <2>5
<1>4. S \subseteq Nat
  OBVIOUS
<1> QED
  BY <1>2, <1>3, <1>4

-----------------------------------------------------------------------------
(* Pages. *)

(* What a row comes after. *)
UpTo(rows, r) == {s \in rows : s <= r}

LEMMA RowsFinite == ASSUME NEW rows \in SUBSET Ids
                    PROVE  /\ rows \subseteq Nat /\ IsFiniteSet(rows)
                           /\ \A r : IsFiniteSet(UpTo(rows, r)) /\ Cardinality(UpTo(rows, r)) \in Nat
<1>1. rows \subseteq Nat /\ IsFiniteSet(rows)
  BY PlanAssumption, FS_Subset
<1> QED
  BY <1>1, FS_Subset, FS_CardinalityType DEF UpTo

(* The first rows are before all others. *)
LEMMA FirstAreFirst ==
    ASSUME NEW rows \in SUBSET Ids, NEW n \in Nat,
           NEW q \in FirstOf(rows, n), NEW r \in rows \ FirstOf(rows, n)
    PROVE  q < r
<1>1. q \in Nat /\ r \in Nat /\ rows \subseteq Nat
  BY RowsFinite DEF FirstOf
<1>2. Cardinality(UpTo(rows, q)) <= n /\ ~(Cardinality(UpTo(rows, r)) <= n)
  BY DEF FirstOf, UpTo
<1>3. ASSUME r <= q
      PROVE  FALSE
  <2>1. \A s \in rows : s <= r => s <= q
    BY <1>1, <1>3
  <2>2. UpTo(rows, r) \in SUBSET UpTo(rows, q)
    BY <2>1 DEF UpTo
  <2>3. Cardinality(UpTo(rows, r)) <= Cardinality(UpTo(rows, q))
    BY <2>2, RowsFinite, FS_Subset
  <2> QED
    BY <1>2, <2>3, RowsFinite
<1> QED
  BY <1>1, <1>3

(* One row more than a page is there if any is: no page that is all there is leaves a row. *)
LEMMA OneMore ==
    ASSUME NEW all \in SUBSET Ids, FirstOf(all, PageLimit + 1) = FirstOf(FirstOf(all, PageLimit + 1), PageLimit)
    PROVE  all = FirstOf(all, PageLimit + 1)
<1> DEFINE rows == FirstOf(all, PageLimit + 1)
           over == all \ rows
<1> SUFFICES ASSUME over # {}
             PROVE  FALSE
  BY DEF FirstOf
<1>1. rows \in SUBSET Ids /\ over \in SUBSET Nat /\ PageLimit \in Nat /\ PageLimit + 1 \in Nat
  <2>1. all \subseteq Nat /\ rows \subseteq all
    BY RowsFinite DEF FirstOf
  <2>2. PageLimit \in Nat /\ PageLimit + 1 \in Nat
    BY PlanAssumption
  <2> QED
    BY <2>1, <2>2
<1>2. PICK m \in over : \A x \in over : m <= x
  <2> HIDE DEF over
  <2> QED
    BY <1>1, LeastNat
<1>3. m \in all /\ m \in Nat /\ m \notin rows /\ Cardinality(UpTo(all, m)) > PageLimit + 1
  BY <1>1, <1>2, RowsFinite DEF FirstOf, UpTo
<1>4. UpTo(all, m) = rows \cup {m}
  <2>1. ASSUME NEW x \in rows
        PROVE  x \in UpTo(all, m)
    <3>1. x < m /\ x \in all /\ x \in Nat
      BY <1>1, <1>2, FirstAreFirst, RowsFinite DEF FirstOf
    <3> QED
      BY <1>3, <3>1 DEF UpTo
  <2>2. ASSUME NEW x \in UpTo(all, m), x # m
        PROVE  x \in rows
    <3>1. x \in all /\ x \in Nat /\ x <= m
      BY RowsFinite DEF UpTo
    <3> QED
      BY <1>2, <1>3, <2>2, <3>1
  <2>3. m \in UpTo(all, m)
    BY <1>3 DEF UpTo
  <2> HIDE DEF rows
  <2> QED
    BY <2>1, <2>2, <2>3
<1> HIDE DEF rows
<1>5. IsFiniteSet(rows) /\ Cardinality(rows) \in Nat /\ Cardinality(UpTo(all, m)) = Cardinality(rows) + 1
  BY <1>1, <1>3, <1>4, RowsFinite, FS_AddElement, FS_CardinalityType
<1>6. Cardinality(rows) > PageLimit
  BY <1>1, <1>3, <1>5
<1>7. rows # {} /\ rows \in SUBSET Nat
  BY <1>1, <1>6, FS_EmptySet, RowsFinite
<1>8. PICK g \in rows : \A x \in rows : x <= g
  BY <1>5, <1>7, GreatestNat
<1>9. UpTo(rows, g) = rows
  BY <1>8 DEF UpTo
<1>10. Cardinality(UpTo(rows, g)) <= PageLimit
  <2>1. g \in FirstOf(rows, PageLimit)
    BY <1>8 DEF rows
  <2> QED
    BY <2>1 DEF FirstOf, UpTo
<1> QED
  BY <1>1, <1>5, <1>6, <1>9, <1>10

(* A row that is not on the page comes after it, and then there is another page. *)
LEMMA PageLeavesLater ==
    ASSUME NEW all \in SUBSET Ids, NEW r \in all,
           r \notin FirstOf(FirstOf(all, PageLimit + 1), PageLimit)
    PROVE  /\ FirstOf(all, PageLimit + 1) # FirstOf(FirstOf(all, PageLimit + 1), PageLimit)
           /\ \A q \in FirstOf(FirstOf(all, PageLimit + 1), PageLimit) : q < r
<1> DEFINE rows == FirstOf(all, PageLimit + 1)
<1>0. PageLimit \in Nat /\ PageLimit + 1 \in Nat
  BY PlanAssumption
<1>1. rows \in SUBSET Ids /\ PageLimit \in Nat /\ PageLimit + 1 \in Nat
  BY <1>0 DEF FirstOf
<1>2. rows # FirstOf(rows, PageLimit)
  BY OneMore
<1>3. CASE r \in rows
  <2> HIDE DEF rows
  <2> QED
    BY <1>1, <1>2, <1>3, FirstAreFirst DEF rows
<1>4. CASE r \notin rows
  <2>1. \A q \in rows : q < r
    BY <1>1, <1>4, FirstAreFirst
  <2>2. FirstOf(rows, PageLimit) \subseteq rows
    BY DEF FirstOf
  <2> QED
    BY <1>2, <2>1, <2>2
<1> QED
  BY <1>3, <1>4

-----------------------------------------------------------------------------
(* Passes: what is still due is ahead of the pass, or needs it no longer. *)

Settled(p, r) == ~Selected(p, r, FALSE) \/ Extracting(r) \/ r \in unfinished

Ahead(p, r) == \/ pass[p].at = "reading" /\ r > pass[p].after
               \/ pass[p].at = "working" /\ pass[p].next # 0 /\ r > pass[p].next

NothingMissed == \A p \in Passes : \A r \in due[p] : Settled(p, r) \/ Ahead(p, r)

(* A plan that is not outdated, or of an expert, is visited by neither pass. *)
LEMMA AppendedSettles ==
    ASSUME TypeOK, NEW p \in Passes, NEW r \in Ids, present[r], NEW plan \in Plan,
           AppendRevision(r, plan), ~plan.outdated \/ plan.by = "expert"
    PROVE  Settled(p, r)'
<1>1. linked'[r] = TRUE /\ plans'[r] = Append(plans[r], plan) /\ plans[r] \in Seq(Plan)
  BY AppendType DEF TypeOK
<1>2. Current(r)' = plan
  BY <1>1 DEF Current
<1> QED
  BY <1>1, <1>2 DEF Settled, Selected, Passes

(* What needs no visit, or is extracted, needs none of the same pass later. *)
LEMMA StaysSettled ==
    ASSUME TypeOK, Attached, Decisions, [Next]_vars, NEW p \in Passes, NEW r \in Ids, Settled(p, r)
    PROVE  Settled(p, r)'
<1> USE DEF stored
<1>1. ASSUME linked'[r] = linked[r], plans'[r] = plans[r], present'[r] = present[r],
             tasks \subseteq tasks', unfinished \subseteq unfinished'
      PROVE  Settled(p, r)'
  BY <1>1 DEF Settled, Selected, Extracting, Current
<1>2. ASSUME NEW s \in Ids, NEW wording, Extract(s, wording)
      PROVE  Settled(p, r)'
  <2> DEFINE new == [by |-> "extraction", id |-> s, of |-> wording, expected |-> 0]
  <2>1. new \in tasks' /\ new.by = "extraction" /\ new.id = s
    BY <1>2 DEF Extract
  <2>2. CASE s = r
    BY <2>1, <2>2 DEF Settled, Extracting
  <2>3. CASE s # r
    <3>1. /\ linked'[r] = linked[r] /\ plans'[r] = plans[r] /\ present'[r] = present[r]
          /\ r \in unfinished => r \in unfinished'
      BY <1>2, <2>3 DEF Extract, TypeOK
    <3>2. Extracting(r) => Extracting(r)'
      BY <1>2 DEF Extract, Extracting
    <3> QED
      BY <3>1, <3>2 DEF Settled, Selected, Current
  <2> QED
    BY <2>2, <2>3
<1>3. ASSUME NEW s \in Ids, Drop(s)
      PROVE  Settled(p, r)'
  <2>1. CASE s = r
    <3>1. present'[r] = FALSE /\ linked'[r] = FALSE
      BY <1>3, <2>1 DEF Drop, TypeOK
    <3> QED
      BY <3>1 DEF Settled, Selected, Passes
  <2>2. CASE s # r
    BY <1>1, <1>3, <2>2 DEF Drop, TypeOK
  <2> QED
    BY <2>1, <2>2
<1>4. ASSUME NEW t \in tasks, Save(t)
      PROVE  Settled(p, r)'
  <2>1. /\ UNCHANGED <<present, unfinished>> /\ tasks' = tasks \ {t} /\ t \in Task /\ t.id \in Ids
    BY <1>4 DEF Save, TypeOK, Task
  <2>2. CASE MayAppend(t)
    <3>1. PICK plan \in Plan : AppendRevision(t.id, plan) /\ ~plan.outdated
      <4> DEFINE plan == [status |-> "auto", of |-> t.of, outdated |-> FALSE, by |-> t.by]
      <4>1. plan \in Plan /\ ~plan.outdated
        BY <2>1 DEF Plan, Task
      <4>2. AppendRevision(t.id, plan)
        BY <1>4, <2>2 DEF Save
      <4> QED
        BY <4>1, <4>2
    <3>2. present[t.id]
      BY <2>2 DEF MayAppend
    <3>3. CASE t.id = r
      BY <3>1, <3>2, <3>3, AppendedSettles
    <3>4. CASE t.id # r
      <4>1. plans'[r] = plans[r] /\ linked'[r] = linked[r]
        BY <2>1, <3>1, <3>2, <3>4, AppendType
      <4>2. Extracting(r) => Extracting(r)'
        BY <2>1, <3>4 DEF Extracting
      <4> QED
        BY <2>1, <4>1, <4>2 DEF Settled, Selected, Current
    <3> QED
      BY <3>3, <3>4
  <2>3. CASE ~MayAppend(t)
    <3>1. UNCHANGED <<plans, linked>>
      BY <1>4, <2>3 DEF Save
    <3>2. CASE t.by = "extraction" /\ t.id = r
      <4>1. CASE present[r]
        <5>1. plans[r] # << >> /\ Current(r).status = "reviewed" /\ linked[r]
          BY <2>3, <3>2, <4>1 DEF MayAppend, Attached
        <5> QED
          BY <3>1, <5>1 DEF Settled, Selected, Current, Passes
      <4>2. CASE ~present[r]
        BY <2>1, <3>1, <4>2 DEF Settled, Selected, Passes, TypeOK
      <4> QED
        BY <4>1, <4>2
    <3>3. CASE ~(t.by = "extraction" /\ t.id = r)
      <4>1. Extracting(r) => Extracting(r)'
        BY <2>1, <3>3 DEF Extracting
      <4> QED
        BY <2>1, <3>1, <4>1 DEF Settled, Selected, Current
    <3> QED
      BY <3>2, <3>3
  <2> QED
    BY <2>2, <2>3
<1>5. ASSUME NEW t \in tasks, Fail(t)
      PROVE  Settled(p, r)'
  <2>1. CASE t.by = "extraction" /\ t.id = r
    BY <1>5, <2>1 DEF Fail, Settled
  <2>2. CASE ~(t.by = "extraction" /\ t.id = r)
    <3>1. Extracting(r) => Extracting(r)'
      BY <1>5, <2>2 DEF Fail, Extracting
    <3> QED
      BY <1>5, <3>1 DEF Fail, Settled, Selected, Current
  <2> QED
    BY <2>1, <2>2
<1>6. ASSUME NEW v \in reviews, Decide(v)
      PROVE  Settled(p, r)'
  <2>1. /\ UNCHANGED <<present, tasks, unfinished>> /\ v.id \in Ids /\ v.plan \in Plan
    BY <1>6 DEF Decide, TypeOK
  <2>2. CASE present[v.id]
    <3>1. AppendRevision(v.id, v.plan)
      BY <1>6, <2>2 DEF Decide
    <3>2. CASE v.id = r
      <4>1. v.plan.by = "expert"
        BY DEF Decisions
      <4> QED
        BY <2>1, <2>2, <3>1, <3>2, <4>1, AppendedSettles
    <3>3. CASE v.id # r
      <4>1. plans'[r] = plans[r] /\ linked'[r] = linked[r]
        BY <2>1, <2>2, <3>1, <3>3, AppendType
      <4> QED
        BY <1>1, <2>1, <4>1
    <3> QED
      BY <3>2, <3>3
  <2>3. CASE ~present[v.id]
    BY <1>1, <1>6, <2>1, <2>3 DEF Decide
  <2> QED
    BY <2>2, <2>3
<1>7. CASE Stop
  BY <1>7 DEF Stop, Settled, Selected, Current
<1>8. ASSUME NEW s \in Ids, Regenerate(s) \/ \E reject \in BOOLEAN : Review(s, reject)
      PROVE  Settled(p, r)'
  BY <1>1, <1>8 DEF Regenerate, Review
<1>9. ASSUME NEW q \in Passes, Pass(q)
      PROVE  Settled(p, r)'
  BY <1>1, <1>9 DEF Pass, Begin, ReadPage, PageFails, PageDone
<1>10. CASE UNCHANGED vars
  BY <1>1, <1>10 DEF vars
<1> QED
  BY <1>2, <1>3, <1>4, <1>5, <1>6, <1>7, <1>8, <1>9, <1>10 DEF Next, Extraction, Planner, Experts

LEMMA NothingMissedInductive == TypeOK /\ Attached /\ Decisions /\ NothingMissed /\ [Next]_vars => NothingMissed'
<1> SUFFICES ASSUME TypeOK, Attached, Decisions, NothingMissed, [Next]_vars,
                    NEW p \in Passes, NEW r \in due'[p]
             PROVE  Settled(p, r)' \/ Ahead(p, r)'
  BY DEF NothingMissed
<1>1. ASSUME r \in due[p], pass'[p] = pass[p]
      PROVE  Settled(p, r)' \/ Ahead(p, r)'
  <2>1. r \in Ids /\ (Settled(p, r) \/ Ahead(p, r))
    BY <1>1 DEF NothingMissed, TypeOK
  <2> QED
    BY <1>1, <2>1, StaysSettled DEF Ahead
<1>2. ASSUME NEW q \in Passes, NEW all \in BOOLEAN, Begin(q, all)
      PROVE  Settled(p, r)' \/ Ahead(p, r)'
  <2>1. CASE q = p
    <3>1. r \in Ids /\ r > 0
      BY <1>2, <2>1, PlanAssumption DEF Begin, TypeOK
    <3>2. pass'[p].at = "reading" /\ pass'[p].after = 0
      BY <1>2, <2>1 DEF Begin, NotRunning, TypeOK
    <3> QED
      BY <3>1, <3>2 DEF Ahead
  <2>2. CASE q # p
    BY <1>1, <1>2, <2>2 DEF Begin, TypeOK
  <2> QED
    BY <2>1, <2>2
<1>3. ASSUME NEW q \in Passes, ReadPage(q)
      PROVE  Settled(p, r)' \/ Ahead(p, r)'
  <2> DEFINE rows == FirstOf(Rows(p), PageLimit + 1)
             page == FirstOf(rows, PageLimit)
  <2>1. CASE q # p
    BY <1>1, <1>3, <2>1 DEF ReadPage, TypeOK
  <2>2. CASE q = p
    <3>1. r \in due[p] \ page /\ r \in Ids /\ pass[p].at = "reading"
      BY <1>3, <2>2 DEF ReadPage, TypeOK
    <3>2. PICK next \in page \cup {0} :
              /\ IF rows = page THEN next = 0 ELSE next # 0 /\ \A x \in page : x <= next
              /\ pass' = [pass EXCEPT ![p].at = "working", ![p].next = next]
      BY <1>3, <2>2 DEF ReadPage
    <3>3. pass'[p].at = "working" /\ pass'[p].next = next
      BY <3>2 DEF TypeOK
    <3>4. CASE Settled(p, r)
      BY <3>1, <3>4, StaysSettled
    <3>5. CASE ~Settled(p, r)
      <4>1. r > pass[p].after /\ Selected(p, r, FALSE)
        BY <3>1, <3>5 DEF NothingMissed, Ahead, Settled
      <4>2. Rows(p) \in SUBSET Ids /\ r \in Rows(p)
        BY <3>1, <4>1 DEF Rows, Selected
      <4>3. rows # page /\ \A x \in page : x < r
        BY <3>1, <4>2, PageLeavesLater
      <4> HIDE DEF rows, page
      <4>4. next \in page /\ next # 0
        BY <3>2, <4>3
      <4> QED
        BY <3>3, <4>3, <4>4 DEF Ahead
    <3> QED
      BY <3>4, <3>5
  <2> QED
    BY <2>1, <2>2
<1>4. ASSUME NEW q \in Passes, PageFails(q)
      PROVE  Settled(p, r)' \/ Ahead(p, r)'
  <2>1. q # p
    BY <1>4 DEF PageFails, TypeOK
  <2> QED
    BY <1>1, <1>4, <2>1 DEF PageFails, TypeOK
<1>5. ASSUME NEW q \in Passes, PageDone(q)
      PROVE  Settled(p, r)' \/ Ahead(p, r)'
  <2>1. CASE q # p
    BY <1>1, <1>5, <2>1 DEF PageDone, TypeOK
  <2>2. CASE q = p
    <3>1. r \in due[p] /\ r \in Ids /\ pass[p].at = "working"
      BY <1>5, <2>2 DEF PageDone, TypeOK
    <3>2. CASE Settled(p, r)
      BY <3>1, <3>2, StaysSettled
    <3>3. CASE ~Settled(p, r)
      <4>1. pass[p].next # 0 /\ r > pass[p].next
        BY <3>1, <3>3 DEF NothingMissed, Ahead
      <4>2. pass'[p].at = "reading" /\ pass'[p].after = pass[p].next
        BY <1>5, <2>2, <4>1 DEF PageDone, TypeOK
      <4> QED
        BY <4>1, <4>2 DEF Ahead
    <3> QED
      BY <3>2, <3>3
  <2> QED
    BY <2>1, <2>2
<1>6. CASE Stop
  BY <1>6 DEF Stop
<1>7. ASSUME UNCHANGED <<pass, due>>
      PROVE  Settled(p, r)' \/ Ahead(p, r)'
  BY <1>1, <1>7
<1>8. CASE Extraction \/ Planner \/ Experts \/ (\E s \in Ids : Regenerate(s)) \/ UNCHANGED vars
  BY <1>7, <1>8 DEF Extraction, Extract, Drop, Planner, Save, Fail, Experts, Review, Decide, Regenerate, vars
<1> QED
  BY <1>2, <1>3, <1>4, <1>5, <1>6, <1>8 DEF Next, Pass

(***************************************************************************)
(* A pass visits all that it found to do (run_on_startup, _replan): every  *)
(* restriction that is still due comes after the key of the pass, while    *)
(* others append plans and drop and extract restrictions between its       *)
(* pages.                                                                  *)
(***************************************************************************)
THEOREM PassesVisitAll == Spec => []PassesLeaveNothingBehind
<1> DEFINE IInv == TypeOK /\ Attached /\ Decisions /\ NothingMissed
<1>1. Init => IInv
  <2>1. Init => NothingMissed
    BY DEF Init, NothingMissed
  <2>2. Init => Attached
    BY DEF Init, Attached
  <2> QED
    BY <2>1, <2>2, InitType, InitOrder
<1>2. IInv /\ [Next]_vars => IInv'
  BY NextType, AttachedInductive, DecisionsInductive, NothingMissedInductive
<1>3. IInv => PassesLeaveNothingBehind
  BY DEF NothingMissed, PassesLeaveNothingBehind, Ahead, Settled
<1> QED
  BY <1>1, <1>2, <1>3, PTL DEF Spec

=============================================================================
