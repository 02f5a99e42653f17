-------------------------- MODULE CapabilityResources --------------------------
(* The capability runtime of a process and the leases Runs hold on its resources  *)
(* (CapabilityResources, apply_runtime, acquire_factory and close_runtime of       *)
(* backend/capabilities/control_service.py).  apply_runtime and acquire_factory    *)
(* run under _apply_lock; release and close only take the lock of the resources.   *)
(* _leases, a count, is kept as the set of the Runs counted.                       *)
EXTENDS Absence, Naturals

CONSTANTS
    Resources,      \* the CapabilityResources ever built
    Runs            \* executions that acquire the factory

ASSUME NoneIsNeither == None \notin Resources

VARIABLES
    st,         \* per resources: not built, started or closed
    retired,    \* per resources: _retired
    leases,     \* per resources: the Runs holding a lease
    resActive,     \* resources of _active_runtime, or None
    resRun,        \* per Run: what it does
    on,         \* per Run: the resources it does it with, or None
    leaving     \* resources that close_runtime took out of use and has yet to close

resVars == <<st, retired, leases, resActive, resRun, on, leaving>>

ResInit ==
    /\ st = [r \in Resources |-> "none"] /\ retired = [r \in Resources |-> FALSE]
    /\ leases = [r \in Resources |-> {}] /\ resActive = None
    /\ resRun = [x \in Runs |-> "idle"] /\ on = [x \in Runs |-> None] /\ leaving = None

(* Mutant: close does not wait for the leases.                                    *)
ClosableAnyway(r) == r = r

Closable(r) == leases[r] = {}

(* close: retire, and close unless closed already or leased.                      *)
ResClose(r) ==
    /\ retired' = [retired EXCEPT ![r] = TRUE]
    /\ st' = IF Closable(r) THEN [st EXCEPT ![r] = "closed"] ELSE st

(* acquire_factory; without a runtime the default factory is used, with no lease. *)
ResAcquire(x) ==
    /\ resRun[x] = "idle" /\ resActive # None
    /\ st[resActive] = "started" /\ ~retired[resActive]
    /\ leases' = [leases EXCEPT ![resActive] = @ \cup {x}]
    /\ resRun' = [resRun EXCEPT ![x] = "working"] /\ on' = [on EXCEPT ![x] = resActive]
    /\ UNCHANGED <<st, retired, resActive, leaving>>

(* release: give the lease back; the last one of retired resources closes them,   *)
(* after it has left the lock.                                                    *)
ResRelease(x) ==
    /\ resRun[x] = "working"
    /\ leases' = [leases EXCEPT ![on[x]] = @ \ {x}]
    /\ IF retired[on[x]] /\ leases[on[x]] = {x}
       THEN resRun' = [resRun EXCEPT ![x] = "closing"] /\ UNCHANGED on
       ELSE resRun' = [resRun EXCEPT ![x] = "idle"] /\ on' = [on EXCEPT ![x] = None]
    /\ UNCHANGED <<st, retired, resActive, leaving>>

ReleaseCloses(x) ==
    /\ resRun[x] = "closing"
    /\ ResClose(on[x])
    /\ resRun' = [resRun EXCEPT ![x] = "idle"] /\ on' = [on EXCEPT ![x] = None]
    /\ UNCHANGED <<leases, resActive, leaving>>

(* apply_runtime with new resources: start them, replace the runtime and close    *)
(* the previous one.  (With equal settings and tools the resources are shared and *)
(* nothing of this module changes.)                                               *)
Apply(r) ==
    /\ st[r] = "none"
    /\ resActive' = r
    /\ IF resActive = None
       THEN st' = [st EXCEPT ![r] = "started"] /\ UNCHANGED retired
       ELSE /\ retired' = [retired EXCEPT ![resActive] = TRUE]
            /\ st' = IF Closable(resActive) THEN [st EXCEPT ![r] = "started", ![resActive] = "closed"]
                     ELSE [st EXCEPT ![r] = "started"]
    /\ UNCHANGED <<leases, resRun, on, leaving>>

(* start raises: the new resources are closed, the runtime in use stays.          *)
ApplyFails(r) ==
    /\ st[r] = "none"
    /\ st' = [st EXCEPT ![r] = "closed"]
    /\ UNCHANGED <<retired, leases, resActive, resRun, on, leaving>>

(* close_runtime at shutdown takes the runtime out under the lock ...             *)
TakeOut ==
    /\ resActive # None /\ leaving = None
    /\ leaving' = resActive /\ resActive' = None
    /\ UNCHANGED <<st, retired, leases, resRun, on>>

(* ... and closes it outside.                                                     *)
CloseTakenOut ==
    /\ leaving # None
    /\ ResClose(leaving)
    /\ leaving' = None
    /\ UNCHANGED <<leases, resActive, resRun, on>>

ResNext == \/ \E x \in Runs : ResAcquire(x) \/ ResRelease(x) \/ ReleaseCloses(x)
           \/ \E r \in Resources : Apply(r) \/ ApplyFails(r)
           \/ TakeOut \/ CloseTakenOut

ResourceSpec == ResInit /\ [][ResNext]_resVars

-----------------------------------------------------------------------------
(* The variables have the values the code gives them; a Run knows its resources.  *)
ResourceTypeOK ==
    /\ st \in [Resources -> {"none", "started", "closed"}]
    /\ retired \in [Resources -> BOOLEAN]
    /\ leases \in [Resources -> SUBSET Runs]
    /\ resActive \in Resources \cup {None} /\ leaving \in Resources \cup {None}
    /\ resRun \in [Runs -> {"idle", "working", "closing"}]
    /\ on \in [Runs -> Resources \cup {None}]
    /\ \A x \in Runs : resRun[x] # "idle" => on[x] \in Resources

(* A Run works with open resources from acquiring to releasing them, whatever is  *)
(* applied or shut down meanwhile.                                                *)
WorkingIsOpen == \A x \in Runs : resRun[x] = "working" => st[on[x]] = "started"

(* The runtime in use is open, so acquire_factory never raises because of it.     *)
ActiveIsOpen == resActive # None => st[resActive] = "started" /\ ~retired[resActive]

(* Nothing leaks: open resources that are not in use are held by a Run, or        *)
(* someone is about to close them.                                                *)
NothingLeaks ==
    \A r \in Resources : st[r] = "started" /\ r # resActive =>
        \/ leases[r] # {} /\ (retired[r] \/ leaving = r)
        \/ leaving = r
        \/ \E x \in Runs : resRun[x] = "closing" /\ on[x] = r

(* Resources are open while someone uses them and closed after the last one.      *)
ResourcesAreSafe == WorkingIsOpen /\ ActiveIsOpen /\ NothingLeaks
=============================================================================
