------------------------------ MODULE ToolGate ------------------------------
(***************************************************************************)
(* The governed tool of backend/tools/registry.py (_govern_base_tool): one *)
(* bounded semaphore and one thread pool per registered tool, shared by the *)
(* synchronous calls of worker threads and the asynchronous ones of event   *)
(* loops.  A call that times out answers while its thread goes on; the      *)
(* permit comes back when the thread is done.                               *)
(***************************************************************************)
EXTENDS Integers, FiniteSets

CONSTANTS GateCalls,           \* invocations, each happens once
          MaxConcurrency   \* descriptor.max_concurrency

ASSUME GateAssumption == IsFiniteSet(GateCalls) /\ MaxConcurrency \in Nat

VARIABLES
    kind,     \* how the call was made
    gateCaller,   \* what the caller is doing
    gateTask,     \* what the adapter is doing for it
    permits   \* registration.gate

gateVars == <<kind, gateCaller, gateTask, permits>>

Kinds == {"sync", "threaded", "coroutine"}

\* "stopped": the caller was cancelled and gets no answer
CallerStates == {"idle", "waiting", "acquired", "awaiting",
                 "result", "timeout", "error", "stopped"}

\* "ended": the future is done but its callback has not run yet
GateTaskStates == {"none", "queued", "running", "unwinding", "ended", "over"}

GateAnswered(c) == gateCaller[c] \in {"result", "timeout", "error", "stopped"}

GateInit ==
    /\ kind \in [GateCalls -> Kinds]
    /\ gateCaller = [c \in GateCalls |-> "idle"]
    /\ gateTask = [c \in GateCalls |-> "none"]
    /\ permits = MaxConcurrency

Caller(c, s) == gateCaller' = [gateCaller EXCEPT ![c] = s]
GateTask(c, s) == gateTask' = [gateTask EXCEPT ![c] = s]

----------------------------------------------------------------------------
GateCall(c) ==
    /\ gateCaller[c] = "idle"
    /\ Caller(c, "waiting")
    /\ UNCHANGED <<kind, gateTask, permits>>

Acquire(c) ==
    /\ gateCaller[c] = "waiting"
    /\ permits > 0
    /\ permits' = permits - 1
    /\ Caller(c, "acquired")
    /\ UNCHANGED <<kind, gateTask>>

(* No permit within descriptor.timeout *)
WaitTimesOut(c) ==
    /\ gateCaller[c] = "waiting"
    /\ Caller(c, "timeout")
    /\ UNCHANGED <<kind, gateTask, permits>>

(* executor.submit, or the coroutine started on the event loop              *)
Submit(c) ==
    /\ gateCaller[c] = "acquired"
    /\ GateTask(c, IF kind[c] = "coroutine" THEN "running" ELSE "queued")
    /\ Caller(c, "awaiting")
    /\ UNCHANGED <<kind, permits>>

(* The pool refuses (it is shut down): the permit is returned at once.      *)
SubmitFails(c) ==
    /\ gateCaller[c] = "acquired" /\ kind[c] # "coroutine"
    /\ permits' = permits + 1
    /\ Caller(c, "error")
    /\ UNCHANGED <<kind, gateTask>>

(* A thread of the pool takes the future; the pool has max_concurrency.     *)
PoolBusy == {c \in GateCalls : /\ kind[c] # "coroutine"
                               /\ gateTask[c] \in {"running", "ended"}}

GateTake(c) ==
    /\ gateTask[c] = "queued"
    /\ Cardinality(PoolBusy) < MaxConcurrency
    /\ GateTask(c, "running")
    /\ UNCHANGED <<kind, gateCaller, permits>>

(* What a cancelled coroutine may leave its caller with, besides what it    *)
(* returns or raises itself                                                 *)
Unwound(c) == IF gateTask[c] = "unwinding" THEN {"timeout", "stopped"} ELSE {}

End(c) ==
    /\ gateTask[c] \in {"running", "unwinding"}
    /\ IF kind[c] = "coroutine"
       THEN /\ GateTask(c, "over")
            /\ \E s \in {"result", "error"} \cup Unwound(c) : Caller(c, s)
            /\ permits' = permits + 1
       ELSE GateTask(c, "ended") /\ UNCHANGED <<gateCaller, permits>>
    /\ UNCHANGED kind

(* The caller of a future that is done; the done callback may not have run. *)
GateReceive(c) ==
    /\ gateCaller[c] = "awaiting"
    /\ kind[c] # "coroutine"
    /\ gateTask[c] \in {"ended", "over"}
    /\ \E s \in {"result", "error"} : Caller(c, s)
    /\ UNCHANGED <<kind, gateTask, permits>>

Callback(c) ==
    /\ gateTask[c] = "ended"
    /\ GateTask(c, "over")
    /\ permits' = permits + 1
    /\ UNCHANGED <<kind, gateCaller>>

(* The timeout of the call, or a cancellation from outside.  A future that  *)
(* has not started is cancelled, and its callback follows; one that runs    *)
(* goes on; a coroutine is cancelled and unwinds.  Only coroutines and      *)
(* calls awaited on an event loop can be cancelled from outside.            *)
AbandonReleases(c, s) ==
    /\ gateCaller[c] = "awaiting"
    /\ s = "stopped" => kind[c] # "sync"
    /\ IF kind[c] = "coroutine"
       THEN gateTask[c] = "running" /\ GateTask(c, "unwinding") /\ UNCHANGED <<gateCaller, permits>>
       ELSE /\ Caller(c, s)
            /\ permits' = permits + 1
            /\ gateTask' = [gateTask EXCEPT ![c] = IF @ = "queued" THEN "over" ELSE @]
    /\ UNCHANGED kind

Abandon(c, s) ==
    /\ gateCaller[c] = "awaiting"
    /\ s = "stopped" => kind[c] # "sync"
    /\ IF kind[c] = "coroutine"
       THEN gateTask[c] = "running" /\ GateTask(c, "unwinding") /\ UNCHANGED gateCaller
       ELSE /\ Caller(c, s)
            /\ gateTask' = [gateTask EXCEPT ![c] = IF @ = "queued" THEN "ended" ELSE @]
    /\ UNCHANGED <<kind, permits>>

(* Cancelled while it polls for a permit                                   *)
StopWaiting(c) ==
    /\ gateCaller[c] = "waiting" /\ kind[c] # "sync"
    /\ Caller(c, "stopped")
    /\ UNCHANGED <<kind, gateTask, permits>>

Step(c) ==
    \/ Acquire(c) \/ Submit(c) \/ SubmitFails(c) \/ GateTake(c) \/ GateReceive(c)
    \/ Callback(c) \/ StopWaiting(c)

GateTimeout(c) == WaitTimesOut(c) \/ Abandon(c, "timeout")

GateFinished == \A c \in GateCalls : GateAnswered(c) /\ gateTask[c] \in {"none", "over"}

GateNext ==
    \/ \E c \in GateCalls : \/ GateCall(c) \/ Step(c) \/ End(c) \/ GateTimeout(c)
                            \/ Abandon(c, "stopped")
    \/ GateFinished /\ UNCHANGED gateVars

GateSpec == GateInit /\ [][GateNext]_gateVars

(* Threads, callbacks and the clock go on and the pool's free threads take  *)
(* what is queued; nothing is assumed of the adapter, except that a         *)
(* coroutine that was cancelled unwinds.                                    *)
GateFairness ==
    \A c \in GateCalls : /\ WF_gateVars(Submit(c)) /\ WF_gateVars(Callback(c))
                         /\ WF_gateVars(GateReceive(c)) /\ WF_gateVars(GateTimeout(c))
                         /\ WF_gateVars(GateTake(c))
                         /\ WF_gateVars(gateTask[c] = "unwinding" /\ End(c))

----------------------------------------------------------------------------
(* Type invariant: the gate is a BoundedSemaphore, whose release raises     *)
(* when it is given back more often than taken.                             *)
GateTypeOK ==
    /\ gateCaller \in [GateCalls -> CallerStates]
    /\ gateTask \in [GateCalls -> GateTaskStates]
    /\ permits \in 0..MaxConcurrency

(* Every permit is where the code put it: held by a call that is about to   *)
(* submit, or by a task that is not over, on every path out of the call.    *)
(* So the work a tool really does at one time stays within max_concurrency, *)
(* the threads whose callers were told TOOL_TIMEOUT included.               *)
PermitsAreExact ==
    permits = MaxConcurrency
              - Cardinality({c \in GateCalls : \/ gateCaller[c] = "acquired"
                                               \/ gateTask[c] \notin {"none", "over"}})

(* A call that was made is answered (or was cancelled), even if the adapter *)
(* never returns.                                                           *)
EveryCallAnswered == \A c \in GateCalls : gateCaller[c] = "waiting" ~> GateAnswered(c)

(* If every adapter returns at last, the tool gets all of its permits back. *)
PermitsComeBack ==
    (\A c \in GateCalls : []<>(gateTask[c] # "running"))
        => (permits < MaxConcurrency ~> permits = MaxConcurrency)

============================================================================
