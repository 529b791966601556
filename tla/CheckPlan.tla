------------------------------ MODULE CheckPlan ------------------------------
(***************************************************************************)
(* The check plans of restrictions (append_check_plan_revision in          *)
(* src/graph/writer.py) and those who append to them: the extraction that  *)
(* writes a restriction (src/pipeline/service.py), the backfill of missing *)
(* plans, the re-planning of old ones and the regeneration of one          *)
(* (src/pipeline/check_plan_backfill.py), and the experts who review them  *)
(* (src/query/service.py).                                                 *)
(*                                                                         *)
(* The id of a restriction is made of what it states, so a re-extraction   *)
(* finds it again, possibly with another wording; its plans outlive it and *)
(* are attached to it again.  A plan is computed by the planner from the   *)
(* row that was read, over many seconds, and appended under the conditions *)
(* that its maker asks for; the append itself is one statement.            *)
(***************************************************************************)
EXTENDS Naturals, Sequences, FiniteSets

CONSTANTS
    Ids,         \* restrictions of text clauses (figures are never planned), in id order
    PageLimit,   \* restrictions of a page
    MaxRequests  \* bound: restrictions extracted, passes, regenerations, reviews, stops

ASSUME PlanAssumption ==
    /\ Ids \subseteq Nat \ {0} /\ IsFiniteSet(Ids)
    /\ PageLimit \in Nat \ {0}
    /\ MaxRequests \in Nat

Passes == {"backfill", "replan"}
Automatic == Passes \cup {"extraction", "regenerate"}

VARIABLES
    present,    \* the :Restriction nodes,
    text,       \* which wording of it is the one extracted last,
    linked,     \* and whether its current plan hangs on it (HAS_CHECK_PLAN)
    plans,      \* the :CheckPlan nodes of an id by revision, the last is the current one
    tasks,      \* plans in the making
    reviews,    \* decisions on the revision that was read, not yet appended
    pass,       \* the backfill at start-up and the admin's re-planning, page by page
    due,        \* what a pass found to do when it began and has not come to
    unfinished, \* restrictions whose extraction was cut short and will be repeated
    mixed,      \* or begun while another one of it ran (and not alone since)
    requests    \* counted for MaxRequests

stored == <<present, text, linked, plans>>
vars == <<stored, tasks, reviews, pass, due, unfinished, mixed, requests>>

(* `of`: the wording it was planned from; `outdated`: by an older planner.  "auto" stands *)
(* for what the planner blocked as well: nothing here tells the two apart.                *)
Plan == [status : {"auto", "unsupported", "reviewed"}, of : Nat, outdated : BOOLEAN,
         by : Automatic \cup {"expert"}]

Task == [by : Automatic, id : Ids, of : Nat, expected : Nat]

NotRunning == [at |-> "idle", after |-> 0, next |-> 0, all |-> FALSE]

-----------------------------------------------------------------------------
Current(r) == plans[r][Len(plans[r])]

(* What a read of the restriction says of its plan: the revision, 0 without one. *)
Revision(r) == IF linked[r] THEN Len(plans[r]) ELSE 0

(* The row that is read of a restriction, on its way through the planner. *)
Planned(by, r) == [by |-> by, id |-> r, of |-> text[r], expected |-> Revision(r)]

Extracting(r) == \E t \in tasks : t.by = "extraction" /\ t.id = r

Asked == requests < MaxRequests /\ requests' = requests + 1

Init ==
    /\ present = [r \in Ids |-> TRUE]
    /\ text = [r \in Ids |-> 1]
    /\ plans \in [Ids -> {<< >>, <<[status |-> "auto", of |-> 1, outdated |-> TRUE,
                                    by |-> "extraction"]>>}]
    /\ linked = [r \in Ids |-> plans[r] # << >>]
    /\ tasks = {} /\ reviews = {}
    /\ pass = [p \in Passes |-> NotRunning]
    /\ due = [p \in Passes |-> {}]
    /\ unfinished = {} /\ mixed = {}
    /\ requests = 0

-----------------------------------------------------------------------------
(* append_check_plan_revision. *)

(* Mutants: reviewed plans are not protected; the expected revision is not compared. *)
MayAppendUnprotected(t) ==
    /\ present[t.id]
    /\ t.by = "backfill" => plans[t.id] = << >>
    /\ t.by \in {"regenerate", "replan"} => Len(plans[t.id]) = t.expected

MayAppendAtAnyRevision(t) ==
    LET none == plans[t.id] = << >>
    IN /\ present[t.id]
       /\ t.by = "backfill" => none
       /\ none \/ Current(t.id).status # "reviewed"
       /\ t.by \in {"regenerate", "replan"} => none \/ Current(t.id).by # "expert"

(* protect_reviewed is always asked for; skip_if_current by the backfill; a revision, *)
(* and with it that no expert wrote the current one, by re-planning and regeneration. *)
MayAppend(t) ==
    LET none == plans[t.id] = << >>
    IN /\ present[t.id]
       /\ t.by = "backfill" => none
       /\ none \/ Current(t.id).status # "reviewed"
       /\ t.by \in {"regenerate", "replan"} =>
             /\ Len(plans[t.id]) = t.expected
             /\ none \/ Current(t.id).by # "expert"

AppendRevision(r, plan) ==
    /\ plans' = [plans EXCEPT ![r] = Append(@, plan)]
    /\ linked' = [linked EXCEPT ![r] = TRUE]

(* The planner is done: the plan is stored, or was not to be. *)
Save(t) ==
    /\ t \in tasks
    /\ tasks' = tasks \ {t}
    /\ IF MayAppend(t)
       THEN AppendRevision(t.id, [status |-> "auto", of |-> t.of, outdated |-> FALSE,
                                  by |-> t.by])
       ELSE UNCHANGED <<plans, linked>>
    /\ UNCHANGED <<present, text, reviews, pass, due, unfinished, mixed, requests>>

(* The planner or the statement raises; an extraction is repeated later. *)
Fail(t) ==
    /\ t \in tasks
    /\ tasks' = tasks \ {t}
    /\ unfinished' = IF t.by = "extraction" THEN unfinished \cup {t.id} ELSE unfinished
    /\ UNCHANGED <<stored, reviews, pass, due, mixed, requests>>

-----------------------------------------------------------------------------
(* Extraction: upsert_restriction attaches the saved plans, then the planner runs.     *)
(* The worker of the queue and an admin may extract the same document at once.         *)

(* Mutant: the plans of an earlier life are not attached. *)
ExtractAnew(r, wording) ==
    /\ Asked
    /\ present' = [present EXCEPT ![r] = TRUE]
    /\ text' = [text EXCEPT ![r] = wording]
    /\ tasks' = tasks \cup {[by |-> "extraction", id |-> r, of |-> wording, expected |-> 0]}
    /\ unfinished' = unfinished \ {r}
    /\ mixed' = IF Extracting(r) THEN mixed \cup {r} ELSE mixed \ {r}
    /\ UNCHANGED <<linked, plans, reviews, pass, due>>

Extract(r, wording) ==
    /\ Asked
    /\ present' = [present EXCEPT ![r] = TRUE]
    /\ text' = [text EXCEPT ![r] = wording]
    /\ linked' = [linked EXCEPT ![r] = plans[r] # << >>]
    /\ tasks' = tasks \cup {[by |-> "extraction", id |-> r, of |-> wording, expected |-> 0]}
    /\ unfinished' = unfinished \ {r}
    /\ mixed' = IF Extracting(r) THEN mixed \cup {r} ELSE mixed \ {r}
    /\ UNCHANGED <<plans, reviews, pass, due>>

(* The restriction is dropped for a re-extraction, or with its clause or document. *)
Drop(r) ==
    /\ present[r]
    /\ present' = [present EXCEPT ![r] = FALSE]
    /\ linked' = [linked EXCEPT ![r] = FALSE]
    /\ UNCHANGED <<text, plans, tasks, reviews, pass, due, unfinished, mixed, requests>>

-----------------------------------------------------------------------------
(* review_check_plan: the revisions are read, then the decision is appended to whatever *)
(* is current by then.  A rejected plan becomes unsupported; an approved or replaced    *)
(* one is reviewed.                                                                     *)
Review(r, reject) ==
    /\ plans[r] # << >>
    /\ Asked
    /\ reviews' = reviews \cup
         {[id |-> r,
           plan |-> [status |-> IF reject THEN "unsupported" ELSE "reviewed",
                     of |-> Current(r).of, outdated |-> FALSE, by |-> "expert"]]}
    /\ UNCHANGED <<stored, tasks, pass, due, unfinished, mixed>>

(* The decision on a restriction that is gone by then is lost. *)
Decide(v) ==
    /\ v \in reviews
    /\ reviews' = reviews \ {v}
    /\ IF present[v.id] THEN AppendRevision(v.id, v.plan) ELSE UNCHANGED <<plans, linked>>
    /\ UNCHANGED <<present, text, tasks, pass, due, unfinished, mixed, requests>>

-----------------------------------------------------------------------------
(* regenerate, with the revision the caller has seen. *)

(* Mutant: the revision before it. *)
RegenerateBefore(r) ==
    /\ present[r]
    /\ linked[r] => Current(r).status # "reviewed" /\ Current(r).by # "expert"
    /\ Asked
    /\ tasks' = tasks \cup {[Planned("regenerate", r) EXCEPT !.expected = Revision(r) - 1]}
    /\ UNCHANGED <<stored, reviews, pass, due, unfinished, mixed>>

Regenerate(r) ==
    /\ present[r]
    /\ linked[r] => Current(r).status # "reviewed" /\ Current(r).by # "expert"
    /\ Asked
    /\ tasks' = tasks \cup {Planned("regenerate", r)}
    /\ UNCHANGED <<stored, reviews, pass, due, unfinished, mixed>>

-----------------------------------------------------------------------------
(* Passes: run_on_startup and BulkReprocessing._replan. *)

(* restrictions_without_current_check_plan and restrictions_with_stale_check_plan; *)
(* `all` includes the plans of the current planner.                                *)
Selected(p, r, all) ==
    IF p = "backfill" THEN present[r] /\ ~linked[r]
    ELSE /\ linked[r]
         /\ Current(r).status # "reviewed" /\ Current(r).by # "expert"
         /\ all \/ Current(r).outdated

Begin(p, all) ==
    /\ pass[p].at = "idle" /\ (all => p = "replan")
    /\ Asked
    /\ pass' = [pass EXCEPT ![p] = [NotRunning EXCEPT !.at = "reading", !.all = all]]
    /\ due' = [due EXCEPT ![p] = {r \in Ids : Selected(p, r, all)}]
    /\ UNCHANGED <<stored, tasks, reviews, unfinished, mixed>>

Rows(p) == {r \in Ids : r > pass[p].after /\ Selected(p, r, pass[p].all)}

FirstOf(rows, n) == {r \in rows : Cardinality({s \in rows : s <= r}) <= n}

(* Mutant: the next page is read after its own first row. *)
ReadPageSkipping(p) ==
    LET rows == FirstOf(Rows(p), PageLimit + 1)
        page == FirstOf(rows, PageLimit)
    IN /\ pass[p].at = "reading"
       /\ tasks' = tasks \cup {Planned(p, r) : r \in page}
       /\ \E next \in rows \cup {0} :
             /\ IF rows = page THEN next = 0 ELSE \A r \in rows : r <= next
             /\ pass' = [pass EXCEPT ![p].at = "working", ![p].next = next]
       /\ due' = [due EXCEPT ![p] = @ \ page]
       /\ UNCHANGED <<stored, reviews, unfinished, mixed, requests>>

(* One row more than the page is read, to see whether there is a page after its last id. *)
ReadPage(p) ==
    LET rows == FirstOf(Rows(p), PageLimit + 1)
        page == FirstOf(rows, PageLimit)
    IN /\ pass[p].at = "reading"
       /\ tasks' = tasks \cup {Planned(p, r) : r \in page}
       /\ \E next \in page \cup {0} :
             /\ IF rows = page THEN next = 0 ELSE next # 0 /\ \A r \in page : r <= next
             /\ pass' = [pass EXCEPT ![p].at = "working", ![p].next = next]
       /\ due' = [due EXCEPT ![p] = @ \ page]
       /\ UNCHANGED <<stored, reviews, unfinished, mixed, requests>>

(* The read raises, and the pass with it. *)
PageFails(p) ==
    /\ pass[p].at = "reading"
    /\ pass' = [pass EXCEPT ![p] = NotRunning]
    /\ due' = [due EXCEPT ![p] = {}]
    /\ UNCHANGED <<stored, tasks, reviews, unfinished, mixed, requests>>

(* Mutant: every page is the first one. *)
PageDoneWithoutKey(p) ==
    /\ pass[p].at = "working" /\ \A t \in tasks : t.by # p
    /\ pass' = [pass EXCEPT ![p] = IF pass[p].next = 0 THEN NotRunning
                                   ELSE [@ EXCEPT !.at = "reading", !.next = 0]]
    /\ UNCHANGED <<stored, tasks, reviews, due, unfinished, mixed, requests>>

(* asyncio.gather: all plans of the page are saved, skipped or failed. *)
PageDone(p) ==
    /\ pass[p].at = "working" /\ \A t \in tasks : t.by # p
    /\ pass' = [pass EXCEPT ![p] = IF pass[p].next = 0 THEN NotRunning
                                   ELSE [@ EXCEPT !.at = "reading", !.after = pass[p].next,
                                                  !.next = 0]]
    /\ UNCHANGED <<stored, tasks, reviews, due, unfinished, mixed, requests>>

(* The process stops. *)
Stop ==
    /\ Asked
    /\ tasks' = {} /\ reviews' = {}
    /\ pass' = [p \in Passes |-> NotRunning]
    /\ due' = [p \in Passes |-> {}]
    /\ unfinished' = unfinished \cup {r \in Ids : Extracting(r)}
    /\ UNCHANGED <<stored, mixed>>

-----------------------------------------------------------------------------
Extraction == \E r \in Ids : Drop(r) \/ \E wording \in {text[r], text[r] + 1} : Extract(r, wording)

Planner == \E t \in tasks : Fail(t) \/ Save(t)

Experts == \/ \E r \in Ids, reject \in BOOLEAN : Review(r, reject)
           \/ \E v \in reviews : Decide(v)

Pass(p) == \/ \E all \in BOOLEAN : Begin(p, all)
           \/ ReadPage(p) \/ PageFails(p) \/ PageDone(p)

Next == \/ Extraction \/ Planner \/ Experts \/ Stop
        \/ \E r \in Ids : Regenerate(r)
        \/ \E p \in Passes : Pass(p)

Spec == Init /\ [][Next]_vars

(* A pass that was begun goes on: its reads answer, its plans are saved or fail. *)
Progress(p) ==
    \/ ReadPage(p) \/ PageDone(p)
    \/ \E t \in tasks : t.by = p /\ (Fail(t) \/ Save(t))

FairSpec == Spec /\ \A p \in Passes : WF_vars(Progress(p))

-----------------------------------------------------------------------------
TypeOK ==
    /\ present \in [Ids -> BOOLEAN] /\ text \in [Ids -> Nat]
    /\ plans \in [Ids -> Seq(Plan)]
    /\ linked \in [Ids -> BOOLEAN]
    /\ \A r \in Ids : linked[r] => present[r] /\ plans[r] # << >>
    /\ tasks \subseteq Task
    /\ reviews \subseteq [id : Ids, plan : Plan]
    /\ pass \in [Passes -> [at : {"idle", "reading", "working"}, after : Nat, next : Nat,
                            all : BOOLEAN]]
    /\ due \in [Passes -> SUBSET Ids]
    /\ unfinished \subseteq Ids /\ mixed \subseteq Ids
    /\ requests \in Nat

(***************************************************************************)
(* What an expert approved or replaced stays the restriction's plan until  *)
(* an expert decides again: no pass, regeneration or re-extraction         *)
(* supersedes it, although the restriction itself is dropped and written   *)
(* anew meanwhile ("Automatic re-extraction never overwrites a `reviewed`  *)
(* plan", pipeline.md:237-238); and only a re-extraction ever supersedes   *)
(* what an expert rejected (check_plan_backfill.py:223, writer.py:323-324).*)
(***************************************************************************)
ExpertHasTheLastWord ==
    \A r \in Ids :
        /\ present[r] /\ plans[r] # << >> => linked[r]
        /\ \A i \in 1..(Len(plans[r]) - 1) :
              plans[r][i].by = "expert" =>
                 \/ plans[r][i + 1].by = "expert"
                 \/ plans[r][i].status # "reviewed" /\ plans[r][i + 1].by = "extraction"

(***************************************************************************)
(* "Replacement retains [...] protection of expert plans with the same     *)
(* restriction ID" (admin.md:94-95), and an expert's rejection is one:     *)
(* "Plans marked `reviewed` or carrying an expert author (including        *)
(* rejected plans)" (api.md:281).  The code does not keep it.              *)
(***************************************************************************)
RejectionsStand ==
    \A r \in Ids : \A i \in 1..(Len(plans[r]) - 1) :
        plans[r][i].by = "expert" => plans[r][i + 1].by = "expert"

(***************************************************************************)
(* An automatic plan is that of the wording that is stored: a plan which a *)
(* slow planner made of an older one never ends up as the current plan,    *)
(* whatever was extracted, re-planned, regenerated or reviewed meanwhile   *)
(* (expected_revision and skip_if_current, writer.py:317-322).  Only an    *)
(* extraction appends without either: of two that run at once the slower   *)
(* planner wins.                                                           *)
(***************************************************************************)
PlannedFromWhatIsStored ==
    \A r \in Ids :
        present[r] /\ plans[r] # << >> /\ Current(r).by # "expert"
            /\ ~Extracting(r) /\ r \notin unfinished
        => \/ Current(r).of = text[r]
           \/ r \in mixed /\ Current(r).by = "extraction"

(***************************************************************************)
(* "Visit every missing plan once" (check_plan_backfill.py:68): when a     *)
(* pass is over, what it found missing or outdated at its beginning was    *)
(* visited, or is no longer so, or is being extracted - although plans are *)
(* appended and restrictions come and go between its pages.                *)
(***************************************************************************)
PassesLeaveNothingBehind ==
    \A p \in Passes : pass[p].at = "idle" =>
        \A r \in due[p] : ~Selected(p, r, FALSE) \/ Extracting(r) \/ r \in unfinished

(***************************************************************************)
(* A pass ends, also the one that selects the plans it has just written    *)
(* ("written plans then stay in the selection", api.md:252-254).           *)
(***************************************************************************)
PassEnds == \A p \in Passes : pass[p].at # "idle" ~> pass[p].at = "idle"
=============================================================================
