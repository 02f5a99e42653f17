------------------------------ MODULE Sandbox ------------------------------
(***************************************************************************)
(* The isolated sandbox: SandboxRuntime (backend/sandbox/runtime.py: gate,  *)
(* life cycle, active executions) over DockerSandboxAdapter                 *)
(* (backend/sandbox/docker.py: one container per execution, created,        *)
(* attached to and removed through the docker command).  Worker threads     *)
(* execute while another thread closes the runtime; the daemon is external: *)
(* a command may fail, or be killed at the deadline before or after the     *)
(* daemon acted on it.  The process may crash and start again.              *)
(***************************************************************************)
EXTENDS Absence, Integers, FiniteSets

CONSTANTS BoxWorkers,         \* threads that call execute
          MaxConcurrency,  \* permits of the gate
          MaxExecutions,   \* bound on the executions of a behaviour
          BoxMaxCrashes,      \* bound on process restarts
          LateCreates      \* a killed create may still take effect later

ASSUME BoxAssumption ==
    /\ IsFiniteSet(BoxWorkers) /\ None \notin BoxWorkers
    /\ MaxConcurrency \in Nat \ {0} /\ MaxExecutions \in Nat /\ BoxMaxCrashes \in Nat
    /\ LateCreates \in BOOLEAN

VARIABLES
    \* SandboxRuntime
    started, closing, closed, boxActive, permits,
    closer,      \* the thread in close(): "idle", "waiting", "removing"
    \* DockerSandboxAdapter
    adapter,     \* _started, _closed and _cleanup_pending
    boxLock,        \* the worker that holds _lock through docker create
    tracked,     \* _active_containers
    targets,     \* what close() still has to remove
    failed,      \* what close() could not remove
    \* the calling threads
    at,          \* where each worker is
    mine,        \* the container of its execution
    \* the daemon
    container,   \* the state of every container
    used,        \* executions so far
    crashes

runtime == <<started, closing, closed, boxActive, permits, closer>>
docker == <<adapter, boxLock, tracked, targets, failed>>
threads == <<at, mine>>
daemon == <<container, used>>
boxVars == <<runtime, docker, threads, daemon, crashes>>

Ids == 1..MaxExecutions

ContainerStates == {"none", "inflight", "created", "running", "exited"}

Places == {"idle", "waiting", "gated", "admitted", "creating", "attaching",
           "removing", "removed", "unremoved", "leaving", "releasing"}

FreshAdapter == [started |-> FALSE, closed |-> FALSE, pending |-> FALSE]

----------------------------------------------------------------------------
BoxInit ==
    /\ started = FALSE /\ closing = FALSE /\ closed = FALSE
    /\ boxActive = 0 /\ permits = MaxConcurrency
    /\ closer = "idle"
    /\ adapter = FreshAdapter
    /\ boxLock = None
    /\ tracked = {} /\ targets = {} /\ failed = {}
    /\ at = [w \in BoxWorkers |-> "idle"]
    /\ mine = [w \in BoxWorkers |-> 0]
    /\ container = [i \in Ids |-> "none"]
    /\ used = 0 /\ crashes = 0

(* close() holds the life-cycle lock while the adapter removes containers.  *)
LifecycleFree == closer # "removing"

(* The gate and _acquire refuse unless the runtime is open.                 *)
Open == started /\ ~closing /\ ~closed

BoxGoes(w, place) == at' = [at EXCEPT ![w] = place]

(* _reap_stopped_managed_containers: docker container prune                *)
Pruned == [i \in Ids |-> IF container[i] \in {"created", "exited"}
                         THEN "none" ELSE container[i]]

(* SandboxRuntime.start, with DockerSandboxAdapter.start                   *)
BoxStart ==
    /\ LifecycleFree
    /\ ~closed /\ ~closing /\ ~started
    /\ ~adapter.closed /\ ~adapter.pending
    /\ adapter' = [adapter EXCEPT !.started = TRUE]
    /\ started' = TRUE
    /\ container' = Pruned
    /\ UNCHANGED <<closing, closed, boxActive, permits, closer, boxLock, tracked,
                   targets, failed, threads, used, crashes>>

(* A failed start closes the adapter (nothing is tracked yet) and raises.   *)
StartFails ==
    /\ LifecycleFree
    /\ ~closed /\ ~closing /\ ~started
    /\ ~adapter.closed
    /\ adapter' = [started |-> FALSE, closed |-> TRUE, pending |-> FALSE]
    /\ container' = Pruned \/ UNCHANGED container
    /\ UNCHANGED <<runtime, boxLock, tracked, targets, failed, threads, used,
                   crashes>>

(* Another process that shares the daemon and the label starts.             *)
NeighbourStarts ==
    /\ container' = Pruned
    /\ UNCHANGED <<runtime, docker, threads, used, crashes>>

----------------------------------------------------------------------------
(* SandboxRuntime.execute                                                  *)
Submit(w) ==
    /\ at[w] = "idle"
    /\ LifecycleFree /\ Open
    /\ BoxGoes(w, "waiting")
    /\ UNCHANGED <<runtime, docker, mine, daemon, crashes>>

(* _acquire: busy at the deadline, cancelled, or no longer open             *)
GiveUp(w) ==
    /\ at[w] = "waiting"
    /\ BoxGoes(w, "idle")
    /\ UNCHANGED <<runtime, docker, mine, daemon, crashes>>

BoxAcquire(w) ==
    /\ at[w] = "waiting"
    /\ permits > 0
    /\ permits' = permits - 1
    /\ BoxGoes(w, "gated")
    /\ UNCHANGED <<started, closing, closed, boxActive, closer, docker, mine,
                   daemon, crashes>>

Admit(w) ==
    /\ at[w] = "gated"
    /\ LifecycleFree
    /\ IF Open
       THEN boxActive' = boxActive + 1 /\ BoxGoes(w, "admitted") /\ UNCHANGED permits
       ELSE permits' = permits + 1 /\ BoxGoes(w, "idle") /\ UNCHANGED boxActive
    /\ UNCHANGED <<started, closing, closed, closer, docker, mine, daemon,
                   crashes>>

(* DockerSandboxAdapter.execute: the name is tracked and docker create runs *)
(* under _lock.                                                             *)
Register(w) ==
    /\ at[w] = "admitted"
    /\ boxLock = None
    /\ adapter.started /\ ~adapter.pending /\ ~adapter.closed
    /\ used < MaxExecutions
    /\ used' = used + 1
    /\ mine' = [mine EXCEPT ![w] = used']
    /\ tracked' = tracked \cup {used'}
    /\ boxLock' = w
    /\ container' = [container EXCEPT ![used'] = "inflight"]
    /\ BoxGoes(w, "creating")
    /\ UNCHANGED <<runtime, adapter, targets, failed, crashes>>

(* The adapter is stopped, or the deadline has passed already.              *)
Refuse(w) ==
    /\ at[w] = "admitted"
    /\ boxLock = None
    /\ BoxGoes(w, "leaving")
    /\ UNCHANGED <<runtime, docker, mine, daemon, crashes>>

CreateSucceeds(w) ==
    /\ at[w] = "creating"
    /\ container' = [container EXCEPT ![mine[w]] = "created"]
    /\ boxLock' = None
    /\ BoxGoes(w, "attaching")
    /\ UNCHANGED <<runtime, adapter, tracked, targets, failed, mine, used,
                   crashes>>

(* docker create fails, or is killed: the daemon had done it, will never do *)
(* it, or (LateCreates) does it after the command is gone.                  *)
CreateFails(w) ==
    /\ at[w] = "creating"
    /\ \E s \in {"none", "created"}
                \cup (IF LateCreates THEN {"inflight"} ELSE {}) :
          container' = [container EXCEPT ![mine[w]] = s]
    /\ boxLock' = None
    /\ BoxGoes(w, "removing")
    /\ UNCHANGED <<runtime, adapter, tracked, targets, failed, mine, used,
                   crashes>>

(* docker start --attach, docker inspect and the response of the runner;    *)
(* the command may be killed while the container runs, and a container that *)
(* was pruned meanwhile does not start.                                     *)
Attach(w) ==
    /\ at[w] = "attaching"
    /\ \/ /\ container[mine[w]] = "created"
          /\ \E s \in {"running", "exited"} :
                container' = [container EXCEPT ![mine[w]] = s]
       \/ UNCHANGED container
    /\ BoxGoes(w, "removing")
    /\ UNCHANGED <<runtime, docker, mine, used, crashes>>

(* _remove in the finally block: docker rm --force, where "No such          *)
(* container" counts as removed.                                            *)
Removed(i) ==
    container' = [container EXCEPT ![i] = IF @ = "inflight" THEN @ ELSE "none"]

Remove(w) ==
    /\ at[w] = "removing"
    /\ Removed(mine[w])
    /\ BoxGoes(w, "removed")
    /\ UNCHANGED <<runtime, docker, mine, used, crashes>>

RemoveFails(w) ==
    /\ at[w] = "removing"
    /\ Removed(mine[w]) \/ UNCHANGED container
    /\ BoxGoes(w, "unremoved")
    /\ UNCHANGED <<runtime, docker, mine, used, crashes>>

Untrack(w) ==
    /\ at[w] = "removed"
    /\ boxLock = None
    /\ tracked' = tracked \ {mine[w]}
    /\ mine' = [mine EXCEPT ![w] = 0]
    /\ BoxGoes(w, "leaving")
    /\ UNCHANGED <<runtime, adapter, boxLock, targets, failed, daemon, crashes>>

KeepTrackedForgets(w) ==
    /\ at[w] = "unremoved"
    /\ boxLock = None
    /\ adapter' = [adapter EXCEPT !.pending = TRUE, !.started = FALSE]
    /\ tracked' = tracked \ {mine[w]}
    /\ mine' = [mine EXCEPT ![w] = 0]
    /\ BoxGoes(w, "leaving")
    /\ UNCHANGED <<runtime, boxLock, targets, failed, daemon, crashes>>

KeepTracked(w) ==
    /\ at[w] = "unremoved"
    /\ boxLock = None
    /\ adapter' = [adapter EXCEPT !.pending = TRUE, !.started = FALSE]
    /\ mine' = [mine EXCEPT ![w] = 0]
    /\ BoxGoes(w, "leaving")
    /\ UNCHANGED <<runtime, boxLock, tracked, targets, failed, daemon, crashes>>

BoxLeave(w) ==
    /\ at[w] = "leaving"
    /\ LifecycleFree
    /\ boxActive' = boxActive - 1
    /\ BoxGoes(w, "releasing")
    /\ UNCHANGED <<started, closing, closed, permits, closer, docker, mine,
                   daemon, crashes>>

BoxRelease(w) ==
    /\ at[w] = "releasing"
    /\ permits' = permits + 1
    /\ BoxGoes(w, "idle")
    /\ UNCHANGED <<started, closing, closed, boxActive, closer, docker, mine,
                   daemon, crashes>>

----------------------------------------------------------------------------
(* SandboxRuntime.readiness                                                *)
Ready == Open /\ adapter.started /\ ~adapter.pending /\ ~adapter.closed

(* SandboxRuntime.close: new executions are refused, the running ones are   *)
(* waited for, then the adapter removes what is still tracked.  A second    *)
(* caller finds the runtime closed or does what a retry would do.           *)
BoxClose ==
    /\ closer = "idle" /\ ~closed
    /\ closing' = TRUE /\ started' = FALSE
    /\ closer' = "waiting"
    /\ UNCHANGED <<closed, boxActive, permits, docker, threads, daemon, crashes>>

AdapterClose ==
    /\ closer = "waiting"
    /\ boxActive = 0
    /\ boxLock = None
    /\ closer' = "removing"
    /\ adapter' = IF adapter.closed THEN adapter
                  ELSE [adapter EXCEPT !.pending = TRUE, !.started = FALSE]
    /\ targets' = IF adapter.closed THEN {} ELSE tracked
    /\ failed' = {}
    /\ UNCHANGED <<started, closing, closed, boxActive, permits, boxLock, tracked,
                   threads, daemon, crashes>>

CloseRemoves(i) ==
    /\ closer = "removing" /\ i \in targets
    /\ Removed(i)
    /\ targets' = targets \ {i}
    /\ tracked' = tracked \ {i}
    /\ UNCHANGED <<runtime, adapter, boxLock, failed, threads, used, crashes>>

CloseFailsOn(i) ==
    /\ closer = "removing" /\ i \in targets
    /\ Removed(i) \/ UNCHANGED container
    /\ targets' = targets \ {i}
    /\ failed' = failed \cup {i}
    /\ UNCHANGED <<runtime, adapter, boxLock, tracked, threads, used, crashes>>

(* A failed removal leaves the runtime closing, so that close can be tried  *)
(* again; otherwise both are closed.                                        *)
CloseEnds ==
    /\ closer = "removing" /\ targets = {}
    /\ closer' = "idle"
    /\ IF failed = {}
       THEN /\ adapter' = [started |-> FALSE, closed |-> TRUE, pending |-> FALSE]
            /\ closing' = FALSE /\ closed' = TRUE
       ELSE UNCHANGED <<adapter, closing, closed>>
    /\ UNCHANGED <<started, boxActive, permits, boxLock, tracked, targets, failed,
                   threads, daemon, crashes>>

----------------------------------------------------------------------------
(* The daemon and the host (external)                                      *)
Exits(i) ==
    /\ container[i] = "running"
    /\ container' = [container EXCEPT ![i] = "exited"]
    /\ UNCHANGED <<runtime, docker, threads, used, crashes>>

LateCreate(i) ==
    /\ LateCreates
    /\ container[i] = "inflight"
    /\ \A w \in BoxWorkers : ~(at[w] = "creating" /\ mine[w] = i)
    /\ container' = [container EXCEPT ![i] = "created"]
    /\ UNCHANGED <<runtime, docker, threads, used, crashes>>

(* The process dies; a command that was running may have been carried out.  *)
BoxCrash ==
    /\ crashes < BoxMaxCrashes
    /\ crashes' = crashes + 1
    /\ started' = FALSE /\ closing' = FALSE /\ closed' = FALSE
    /\ boxActive' = 0 /\ permits' = MaxConcurrency /\ closer' = "idle"
    /\ adapter' = FreshAdapter
    /\ boxLock' = None /\ tracked' = {} /\ targets' = {} /\ failed' = {}
    /\ at' = [w \in BoxWorkers |-> "idle"]
    /\ mine' = [w \in BoxWorkers |-> 0]
    /\ \E done \in BOOLEAN :
          container' = [i \in Ids |->
              IF container[i] = "inflight" /\ ~LateCreates
              THEN IF done THEN "created" ELSE "none"
              ELSE container[i]]
    /\ UNCHANGED used

Work(w) ==
    \/ BoxAcquire(w) \/ Admit(w) \/ Register(w) \/ Refuse(w)
    \/ CreateSucceeds(w) \/ CreateFails(w) \/ Attach(w)
    \/ Remove(w) \/ RemoveFails(w) \/ Untrack(w) \/ KeepTracked(w)
    \/ BoxLeave(w) \/ BoxRelease(w)

Closing ==
    \/ AdapterClose
    \/ \E i \in Ids : CloseRemoves(i) \/ CloseFailsOn(i)
    \/ CloseEnds

BoxNext ==
    \/ BoxStart \/ StartFails \/ NeighbourStarts
    \/ \E w \in BoxWorkers : Submit(w) \/ GiveUp(w) \/ Work(w)
    \/ BoxClose \/ Closing
    \/ \E i \in Ids : Exits(i) \/ LateCreate(i)
    \/ BoxCrash

BoxSpec == BoxInit /\ [][BoxNext]_boxVars

(* Every docker command has a deadline, so threads keep moving.             *)
BoxFairness ==
    /\ \A w \in BoxWorkers : WF_boxVars(Work(w))
    /\ \A w \in BoxWorkers : WF_boxVars(GiveUp(w))
    /\ WF_boxVars(Closing)

----------------------------------------------------------------------------
(* Type invariant; in particular no permit is returned twice.               *)
SandboxTypeOK ==
    /\ boxActive \in 0..MaxConcurrency
    /\ permits \in 0..MaxConcurrency
    /\ closer \in {"idle", "waiting", "removing"}
    /\ at \in [BoxWorkers -> Places]
    /\ mine \in [BoxWorkers -> 0..MaxExecutions]
    /\ container \in [Ids -> ContainerStates]
    /\ tracked \subseteq Ids /\ targets \subseteq Ids
    /\ boxLock \in BoxWorkers \cup {None}

(* Permits and the count of active executions are those of the threads that *)
(* are inside, on every path out of execute, so neither can leak: a leaked  *)
(* permit would lower the concurrency for ever, a leaked count would keep   *)
(* close() waiting.                                                         *)
CountsAreExact ==
    /\ permits + Cardinality({w \in BoxWorkers :
                                 at[w] \notin {"idle", "waiting"}})
          = MaxConcurrency
    /\ boxActive = Cardinality({w \in BoxWorkers :
                  at[w] \notin {"idle", "waiting", "gated", "releasing"}})

(* docker.py:450: no container of this process becomes an untracked orphan. *)
(* While a container exists _active_containers names it, so that a later    *)
(* close() can remove it, even after a removal that failed.                 *)
NoUntrackedOrphan ==
    crashes = 0 =>
        \A i \in Ids :
            container[i] \in {"created", "running", "exited"} => i \in tracked

(* The runtime never reports ready while a container is left whose own      *)
(* execution is over: a failed removal stops admission until close() has    *)
(* been retried.                                                            *)
ReadyIsClean ==
    Ready => \A i \in tracked : \E w \in BoxWorkers : mine[w] = i

(* Once close() has succeeded nothing of this process is left in the daemon *)
(* and no execution is still inside the adapter.                            *)
ClosedIsClean ==
    closed => /\ boxActive = 0
              /\ crashes = 0 => \A i \in Ids : container[i] = "none"

(* Permits, executions and containers are accounted for on every path.      *)
BoxIsAccounted == SandboxTypeOK /\ CountsAreExact /\ NoUntrackedOrphan /\ ReadyIsClean /\ ClosedIsClean

(* close() does not wait for ever: executions leave at their deadline.      *)
CloseReturns == closer # "idle" ~> closer = "idle"

============================================================================
