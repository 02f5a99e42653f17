--------------------------- MODULE ProviderRuntime ---------------------------
(***************************************************************************)
(* ProviderRuntime (providers/runtime.py) on its ProviderLoopBridge        *)
(* (providers/loop_bridge.py): threads of the synchronous graph ask for    *)
(* the reranker, which starts the background loop and creates the HTTP     *)
(* client there, while the application closes the runtime.                 *)
(***************************************************************************)
EXTENDS Absence, Naturals, FiniteSets

CONSTANTS
  Users,        \* threads that call get_reranker_sync
  App,          \* the task that starts and closes the runtime
  MaxClients    \* bound on the HTTP clients created

ASSUME RuntimeAssumption == MaxClients \in Nat /\ None \notin Nat /\ App \notin Users

VARIABLES
  bridge,    \* _state of the bridge: new, starting, running, closing, closed
  thread,    \* its thread: none, boot, loop, stop, ended
  ready,     \* the _ready event
  runtimePc,        \* where each calling thread is
  runtimeTask,      \* the coroutine each thread has submitted to the loop
  inHand,    \* the client a close coroutine is closing
  started,   \* ProviderRuntime._started
  closed,    \* ProviderRuntime._closed
  reranker,  \* the current client, None before the first start
  clients,   \* number of clients created
  open       \* the clients whose connection pool is open

runtimeVars == <<bridge, thread, ready, runtimePc, runtimeTask, inHand, started, closed, reranker, clients, open>>
clientVars == <<reranker, clients, open>>
bridgeVars == <<bridge, thread, ready>>
flags == <<started, closed>>

Threads == Users \cup {App}

\* A submitted coroutine: absent, queued, at its first or second await, or settled.
RuntimeTaskStates == {"none", "queued", "first", "second", "ok", "error", "cancelled"}
RuntimeSettled == {"ok", "error", "cancelled"}

RuntimeInit ==
  /\ bridge = "new" /\ thread = "none" /\ ready = FALSE
  /\ runtimePc = [t \in Threads |-> "idle"]
  /\ runtimeTask = [t \in Threads |-> "none"] /\ inHand = [t \in Threads |-> None]
  /\ started = FALSE /\ closed = FALSE /\ reranker = None /\ clients = 0 /\ open = {}

Goto(t, place) == runtimePc' = [runtimePc EXCEPT ![t] = place]
Becomes(t, state) == runtimeTask' = [runtimeTask EXCEPT ![t] = state]

-----------------------------------------------------------------------------
(* ProviderLoopBridge *)

\* start: the first caller creates the thread; a closed bridge refuses.
Startable == bridge \notin {"closing", "closed"}
BridgeStart ==
  IF bridge = "new" THEN bridge' = "starting" /\ thread' = "boot" ELSE UNCHANGED <<bridge, thread>>

\* _run_loop up to run_forever: a close that came first wins.
LoopBoots ==
  /\ thread = "boot"
  /\ ready' = TRUE
  /\ IF bridge = "closing"
     THEN thread' = "stop" /\ UNCHANGED bridge
     ELSE thread' = "loop" /\ bridge' = "running"
  /\ UNCHANGED <<runtimePc, runtimeTask, inHand, flags, clientVars>>

Unsettled == {t \in Threads : runtimeTask[t] \in {"queued", "first", "second"}}

\* Faulty variant of Cancelled: work the loop has not begun is forgotten.
CancelledBegun == [t \in Threads |-> IF runtimeTask[t] \in {"first", "second"} THEN "cancelled" ELSE runtimeTask[t]]

\* Outstanding futures are cancelled; a client whose close is cut short stays open.
Cancelled == [t \in Threads |-> IF t \in Unsettled THEN "cancelled" ELSE runtimeTask[t]]

\* The end of _run_loop: pending tasks are cancelled before the loop is closed.
LoopEnds ==
  /\ thread = "stop"
  /\ thread' = "ended" /\ bridge' = "closed"
  /\ runtimeTask' = Cancelled
  /\ UNCHANGED <<ready, runtimePc, inHand, flags, clientVars>>

\* close, up to the join: futures are cancelled and the loop is told to stop.
BridgeClose ==
  IF bridge = "closed" THEN UNCHANGED <<bridgeVars, runtimeTask>>
  ELSE IF bridge = "new" THEN bridge' = "closed" /\ ready' = TRUE /\ UNCHANGED <<thread, runtimeTask>>
  ELSE /\ bridge' = "closing"
       /\ runtimeTask' = Cancelled
       /\ thread' = IF thread = "loop" THEN "stop" ELSE thread
       /\ UNCHANGED ready

-----------------------------------------------------------------------------
(* Coroutines on the owner loop *)

OnLoop(t, place, state) == thread = "loop" /\ runtimePc[t] = place /\ runtimeTask[t] = state

NewClient == reranker' = clients + 1 /\ clients' = clients + 1 /\ open' = open \cup {clients + 1}

\* _start_on_owner_loop, one at a time under _owner_lock, up to the warm-up.
StartBegins(t) ==
  /\ OnLoop(t, "wait", "queued")
  /\ ~\E v \in Threads : runtimePc[v] = "wait" /\ runtimeTask[v] = "first"
  /\ IF started THEN Becomes(t, "ok") /\ UNCHANGED clientVars
     ELSE IF closed THEN Becomes(t, "error") /\ UNCHANGED clientVars
     ELSE /\ Becomes(t, "first")
          /\ IF reranker = None THEN clients < MaxClients /\ NewClient ELSE UNCHANGED clientVars
  /\ UNCHANGED <<bridgeVars, runtimePc, inHand, flags>>

\* The warm-up ends, or fails.
StartEnds(t) ==
  /\ OnLoop(t, "wait", "first")
  /\ \/ Becomes(t, "ok") /\ started' = TRUE
     \/ Becomes(t, "error") /\ UNCHANGED started
  /\ UNCHANGED <<bridgeVars, runtimePc, inHand, closed, clientVars>>

\* _close_on_owner_loop: the client is closed first, then the embedding runtime.
CloseBegins(t) ==
  /\ OnLoop(t, "cwait", "queued")
  /\ Becomes(t, IF reranker = None THEN "second" ELSE "first")
  /\ inHand' = [inHand EXCEPT ![t] = reranker]
  /\ UNCHANGED <<bridgeVars, runtimePc, flags, clientVars>>

\* Closers of one client share its close task and wake together when it ends.
ClientClosed(t) ==
  /\ OnLoop(t, "cwait", "first")
  /\ LET together == {v \in Threads : runtimeTask[v] = "first" /\ inHand[v] = inHand[t]}
     IN /\ runtimeTask' = [v \in Threads |-> IF v \in together THEN "second" ELSE runtimeTask[v]]
        /\ inHand' = [v \in Threads |-> IF v \in together THEN None ELSE inHand[v]]
  /\ open' = open \ {inHand[t]} /\ reranker' = None
  /\ UNCHANGED <<bridgeVars, runtimePc, flags, clients>>

RuntimeCloseEnds(t) ==
  /\ OnLoop(t, "cwait", "second")
  /\ Becomes(t, "ok")
  /\ started' = FALSE
  /\ UNCHANGED <<bridgeVars, runtimePc, inHand, closed, clientVars>>

-----------------------------------------------------------------------------
(* start, start_sync and get_reranker_sync *)

\* start_sync reads the flags without a lock; start always submits.
RuntimeAsk(t) ==
  /\ runtimePc[t] = "idle" /\ ~closed
  /\ Goto(t, IF t # App /\ started /\ bridge = "running" THEN "idle" ELSE "start")
  /\ UNCHANGED <<bridgeVars, runtimeTask, inHand, flags, clientVars>>

StartBridge(t) ==
  /\ runtimePc[t] = "start"
  /\ IF Startable THEN BridgeStart /\ Goto(t, "submit") ELSE Goto(t, "idle") /\ UNCHANGED <<bridge, thread>>
  /\ UNCHANGED <<ready, runtimeTask, inHand, flags, clientVars>>

\* The thread is not ready in time: the bridge is closed, the runtime is not.
StartTimesOut(t) ==
  /\ runtimePc[t] = "submit" /\ ~ready
  /\ BridgeClose /\ Goto(t, "idle")
  /\ UNCHANGED <<inHand, flags, clientVars>>

\* _submit, under the bridge's lock. A failure from here on closes the runtime.
SubmitStart(t) ==
  /\ runtimePc[t] = "submit" /\ ready
  /\ IF bridge = "running" THEN Becomes(t, "queued") /\ Goto(t, "wait") ELSE Goto(t, "close") /\ UNCHANGED runtimeTask
  /\ UNCHANGED <<bridgeVars, inHand, flags, clientVars>>

AwaitStart(t) ==
  /\ runtimePc[t] = "wait" /\ runtimeTask[t] \in RuntimeSettled
  /\ Goto(t, IF runtimeTask[t] = "ok" THEN "idle" ELSE "close")
  /\ Becomes(t, "none")
  /\ UNCHANGED <<bridgeVars, inHand, flags, clientVars>>

-----------------------------------------------------------------------------
(* aclose and close_sync *)

AskClose ==
  /\ runtimePc[App] = "idle" /\ ~closed
  /\ Goto(App, "close")
  /\ UNCHANGED <<bridgeVars, runtimeTask, inHand, flags, clientVars>>

RuntimeBeginClose(t) ==
  /\ runtimePc[t] = "close"
  /\ IF closed THEN Goto(t, "idle") /\ UNCHANGED <<bridge, thread>>
     ELSE IF Startable THEN BridgeStart /\ Goto(t, "csubmit")
     ELSE Goto(t, "cstop") /\ UNCHANGED <<bridge, thread>>
  /\ UNCHANGED <<ready, runtimeTask, inHand, flags, clientVars>>

SubmitClose(t) ==
  /\ runtimePc[t] = "csubmit" /\ ready
  /\ IF bridge = "running" THEN Becomes(t, "queued") /\ Goto(t, "cwait") ELSE Goto(t, "cstop") /\ UNCHANGED runtimeTask
  /\ UNCHANGED <<bridgeVars, inHand, flags, clientVars>>

CloseTimesOut(t) ==
  /\ runtimePc[t] = "csubmit" /\ ~ready
  /\ Goto(t, "cstop")
  /\ UNCHANGED <<bridgeVars, runtimeTask, inHand, flags, clientVars>>

AwaitClose(t) ==
  /\ runtimePc[t] = "cwait" /\ runtimeTask[t] \in RuntimeSettled
  /\ Goto(t, "cstop") /\ Becomes(t, "none")
  /\ inHand' = [inHand EXCEPT ![t] = None]
  /\ UNCHANGED <<bridgeVars, flags, clientVars>>

\* The finally block: the bridge is closed ...
StopBridge(t) ==
  /\ runtimePc[t] = "cstop"
  /\ BridgeClose /\ Goto(t, "cjoin")
  /\ UNCHANGED <<inHand, flags, clientVars>>

\* ... and its thread joined; when it does not end in time close raises, the
\* runtime stays unclosed, and the application's one close task stays failed.
JoinThread(t) ==
  /\ runtimePc[t] = "cjoin"
  /\ \/ /\ thread \in {"none", "ended"}
        /\ Goto(t, "idle") /\ closed' = TRUE /\ started' = FALSE
     \/ /\ thread \notin {"none", "ended"}
        /\ Goto(t, IF t = App THEN "failed" ELSE "idle") /\ UNCHANGED flags
  /\ UNCHANGED <<bridgeVars, runtimeTask, inHand, clientVars>>

-----------------------------------------------------------------------------

Coroutine(t) == StartBegins(t) \/ StartEnds(t) \/ CloseBegins(t) \/ ClientClosed(t) \/ RuntimeCloseEnds(t)
RuntimeCallerStep(t) ==
  \/ StartBridge(t) \/ SubmitStart(t) \/ AwaitStart(t)
  \/ RuntimeBeginClose(t) \/ SubmitClose(t) \/ AwaitClose(t) \/ StopBridge(t) \/ JoinThread(t)

RuntimeNext ==
  \/ LoopBoots
  \/ LoopEnds
  \/ \E t \in Threads : Coroutine(t) \/ RuntimeAsk(t) \/ RuntimeCallerStep(t) \/ StartTimesOut(t) \/ CloseTimesOut(t)
  \/ AskClose

\* The operating system schedules the loop's thread and the callers'; asyncio runs
\* its ready coroutines and hands the owner lock on in order of arrival.
RuntimeFairness ==
  /\ WF_runtimeVars(LoopBoots \/ LoopEnds)
  /\ \A t \in Threads : WF_runtimeVars(RuntimeCallerStep(t)) /\ SF_runtimeVars(Coroutine(t))

RuntimeSpec == RuntimeInit /\ [][RuntimeNext]_runtimeVars /\ RuntimeFairness

-----------------------------------------------------------------------------
(* Properties *)

\* Type invariant of the runtime and its bridge.
RuntimeTypeOK ==
  /\ bridge \in {"new", "starting", "running", "closing", "closed"}
  /\ thread \in {"none", "boot", "loop", "stop", "ended"} /\ ready \in BOOLEAN
  /\ runtimePc \in [Threads -> {"idle", "start", "submit", "wait", "close", "csubmit", "cwait", "cstop", "cjoin", "failed"}]
  /\ runtimeTask \in [Threads -> RuntimeTaskStates] /\ inHand \in [Threads -> 1 .. MaxClients \cup {None}]
  /\ started \in BOOLEAN /\ closed \in BOOLEAN
  /\ reranker \in 1 .. MaxClients \cup {None} /\ clients \in 0 .. MaxClients /\ open \subseteq 1 .. MaxClients

\* At most one HTTP client is open at a time, however many threads start and
\* close the runtime at once.
OneClient == Cardinality(open) <= 1

\* A closed bridge has no unsettled work and its thread has ended: nobody waits
\* for a loop that is gone.
ClosedBridgeSettled == bridge = "closed" => Unsettled = {} /\ thread \in {"none", "ended"}

\* A closed runtime has closed its loop for good: no thread is left running it,
\* and none can start it again.
ClosedStaysClosed == closed => bridge = "closed"

\* Starting and closing from several threads leaves one client or none, and a
\* closed runtime leaves neither a thread nor a waiter behind.
ClosedRuntimeSettled == RuntimeTypeOK /\ OneClient /\ ClosedBridgeSettled /\ ClosedStaysClosed

\* Every thread that asks for the reranker returns, although a close may stop the
\* loop before, while or after its start is submitted.
EveryCallReturns == \A t \in Users : runtimePc[t] # "idle" ~> runtimePc[t] = "idle"

=============================================================================
