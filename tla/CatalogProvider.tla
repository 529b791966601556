---------------------------- MODULE CatalogProvider ----------------------------
(***************************************************************************)
(* The snapshot of the Urban API dictionaries that all planning shares     *)
(* (UrbanCatalogProvider in src/pipeline/urban_catalog.py): loaded by the  *)
(* first caller that needs it while the others wait, kept for Ttl, and     *)
(* kept on when a refresh fails.                                           *)
(*                                                                         *)
(* A snapshot is the time at which it was loaded; time is bounded by       *)
(* MaxTime.                                                                *)
(***************************************************************************)
EXTENDS Integers

CONSTANTS Callers, Ttl, Pause, MaxTime

ASSUME TimesAssumption == /\ Ttl \in Nat \ {0} /\ Pause \in Nat /\ MaxTime \in Nat

VARIABLES
    catalog,      \* _catalog: the snapshot, or Nothing
    expires,      \* _expires_at
    holder,       \* who holds _lock: a set of at most one caller
    fetch,        \* [Callers -> where the caller is in get()]
    view,         \* [Callers -> the snapshot that get() returned to it]
    clock

catalogVars == <<catalog, expires, holder, fetch, view, clock>>

Nothing == -1

CatalogTypeOK ==
    /\ catalog \in Nat \cup {Nothing}
    /\ expires \in Nat
    /\ holder \subseteq Callers
    /\ fetch \in [Callers -> {"idle", "waiting", "loading", "got", "raised"}]
    /\ view \in [Callers -> Nat \cup {Nothing}]
    /\ clock \in Nat

CatalogInit ==
    /\ catalog = Nothing
    /\ expires = 0
    /\ holder = {}
    /\ fetch = [c \in Callers |-> "idle"]
    /\ view = [c \in Callers |-> Nothing]
    /\ clock = 0

(* The check that get() makes before and after it takes the lock. *)
Fresh == catalog # Nothing /\ clock < expires

Return(c, snapshot) ==
    /\ fetch' = [fetch EXCEPT ![c] = "got"]
    /\ view' = [view EXCEPT ![c] = snapshot]

(* get(), up to the lock. *)
Get(c) ==
    /\ fetch[c] = "idle"
    /\ \/ Fresh /\ Return(c, catalog)
       \/ ~Fresh /\ fetch' = [fetch EXCEPT ![c] = "waiting"] /\ UNCHANGED view
    /\ UNCHANGED <<catalog, expires, holder, clock>>

(* get() without the URL of an Urban API. *)
GetNothing(c) ==
    /\ fetch[c] = "idle"
    /\ Return(c, Nothing)
    /\ UNCHANGED <<catalog, expires, holder, clock>>

StartLoad(c) ==
    /\ holder' = {c}
    /\ fetch' = [fetch EXCEPT ![c] = "loading"]
    /\ UNCHANGED view

(* Mutant: the snapshot is not looked at again under the lock. *)
AcquireAndLoad(c) ==
    /\ fetch[c] = "waiting"
    /\ holder = {}
    /\ StartLoad(c)
    /\ UNCHANGED <<catalog, expires, clock>>

(* The lock is taken; a snapshot that was loaded meanwhile is used. *)
Acquire(c) ==
    /\ fetch[c] = "waiting"
    /\ holder = {}
    /\ \/ Fresh /\ Return(c, catalog) /\ UNCHANGED holder
       \/ ~Fresh /\ StartLoad(c)
    /\ UNCHANGED <<catalog, expires, clock>>

(* The three dictionaries were read. *)
LoadOk(c) ==
    /\ fetch[c] = "loading"
    /\ catalog' = clock
    /\ expires' = clock + Ttl
    /\ holder' = {}
    /\ Return(c, clock)
    /\ UNCHANGED clock

(* Mutant: a failed load goes on without giving the lock back. *)
LoadFailedLocked(c) ==
    /\ fetch[c] = "loading"
    /\ expires' = clock + (IF catalog # Nothing THEN Ttl ELSE Pause)
    /\ Return(c, catalog)
    /\ UNCHANGED <<catalog, holder, clock>>

(* One of them was not: the snapshot there was is served on. *)
LoadFailed(c) ==
    /\ fetch[c] = "loading"
    /\ expires' = clock + (IF catalog # Nothing THEN Ttl ELSE Pause)
    /\ holder' = {}
    /\ Return(c, catalog)
    /\ UNCHANGED <<catalog, clock>>

(* An answer in a form that from_payload cannot read (a null for a name): the error is *)
(* not among those that get() catches.                                                 *)
LoadRaised(c) ==
    /\ fetch[c] = "loading"
    /\ fetch' = [fetch EXCEPT ![c] = "raised"]
    /\ holder' = {}
    /\ UNCHANGED <<catalog, expires, view, clock>>

Load(c) == LoadOk(c) \/ LoadFailed(c) \/ LoadRaised(c)

Tick == /\ clock < MaxTime
        /\ clock' = clock + 1
        /\ UNCHANGED <<catalog, expires, holder, fetch, view>>

-----------------------------------------------------------------------------
(* Callers that waited for a load share its snapshot: no load starts while there is *)
(* one in its time (get).                                                           *)
NoLoadWhileFresh ==
    [][\A c \in Callers : fetch[c] # "loading" /\ fetch'[c] = "loading" => ~Fresh]_catalogVars

=============================================================================
