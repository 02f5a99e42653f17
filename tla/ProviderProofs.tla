--------------------------- MODULE ProviderProofs ---------------------------
(***************************************************************************)
(* The clients of the model providers.  The circuit breaker of the         *)
(* reranker, for every number of callers and every threshold; the provider *)
(* runtime on its background loop, for every number of threads that start  *)
(* and close it.                                                           *)
(***************************************************************************)
EXTENDS RerankCircuit, ProviderRuntime, FiniteSetTheorems, TLAPS

(* The circuit breaker of the reranker *)

\* No permit is newer than the circuit, an open circuit is not half open, and
\* past the threshold only a probe has a permit of the current generation.
PermitsAreOld ==
  /\ \A c \in CircuitCalls : call[c].gen <= generation
  /\ openUntil # "none" => ~halfOpen
  /\ failures >= CircuitThreshold => \A c \in CircuitCalls : call[c].at # "out" /\ call[c].gen = generation => call[c].half

\* The inductive invariant: a probe's generation was new when it was admitted,
\* which keeps earlier permits from ever counting as probes of the current one.
CircuitInv == CircuitTypeOK /\ PermitsAreOld /\ HalfOpenIsOneProbe /\ ClosedBelowThreshold

\* The invariant holds before the first call.
LEMMA CircuitInitial == CircuitInit => CircuitInv
  <1> SUFFICES ASSUME CircuitInit PROVE CircuitInv
    OBVIOUS
  <1> USE DEF CircuitInit, NoCall
  <1>1. CircuitTypeOK
    BY DEF CircuitTypeOK, CircuitCall, CircuitResults
  <1>2. PermitsAreOld
    BY DEF PermitsAreOld
  <1>3. HalfOpenIsOneProbe
    BY DEF HalfOpenIsOneProbe, IsProbe
  <1>4. ClosedBelowThreshold
    BY CircuitAssumption DEF ClosedBelowThreshold
  <1> QED
    BY <1>1, <1>2, <1>3, <1>4 DEF CircuitInv

\* Every step of a call, of the clock and of aclose preserves the invariant.
LEMMA CircuitInductive == CircuitInv /\ [CircuitNext]_circuitVars => CircuitInv'
  <1> SUFFICES ASSUME CircuitInv, [CircuitNext]_circuitVars PROVE CircuitInv'
    OBVIOUS
  <1> USE CircuitAssumption DEF CircuitInv
  <1>t. \A c \in CircuitCalls : call[c] \in CircuitCall
    BY DEF CircuitTypeOK
  <1>1. ASSUME NEW c \in CircuitCalls, Admit(c) PROVE CircuitInv'
    <2> USE <1>1 DEF Admit, Permit, NoCall
    <2>h. failures < CircuitThreshold
      BY DEF ClosedBelowThreshold
    <2>1. CircuitTypeOK'
      BY DEF CircuitTypeOK, CircuitCall, CircuitResults
    <2>2. PermitsAreOld'
      BY <2>h, <1>t DEF PermitsAreOld, CircuitTypeOK, CircuitCall
    <2>3. HalfOpenIsOneProbe'
      BY DEF HalfOpenIsOneProbe, IsProbe, CircuitTypeOK, CircuitCall
    <2>4. ClosedBelowThreshold'
      BY DEF ClosedBelowThreshold
    <2> QED BY <2>1, <2>2, <2>3, <2>4
  <1>2. ASSUME NEW c \in CircuitCalls, AdmitProbe(c) PROVE CircuitInv'
    <2> USE <1>2 DEF AdmitProbe, Permit, NoCall
    <2>n. failures' \in Nat /\ generation' \in Nat
      BY DEF CircuitTypeOK
    <2>b. halfOpen' = TRUE /\ openUntil' = "none" /\ adapter' = adapter
      OBVIOUS
    <2>p. [at |-> "sent", gen |-> generation + 1, half |-> TRUE, result |-> "success"] \in CircuitCall
      BY <2>n DEF CircuitCall, CircuitResults
    <2>c. call' \in [CircuitCalls -> CircuitCall]
      BY <2>p DEF CircuitTypeOK
    <2>1. CircuitTypeOK'
      BY <2>n, <2>b, <2>c DEF CircuitTypeOK
    <2>2. PermitsAreOld'
      BY DEF PermitsAreOld, CircuitTypeOK, CircuitCall
    <2>3. IsProbe(c)' /\ \A d \in CircuitCalls : IsProbe(d)' => d = c
      BY <1>t DEF IsProbe, CircuitTypeOK, PermitsAreOld, CircuitCall
    <2>4. HalfOpenIsOneProbe'
      BY <2>3 DEF HalfOpenIsOneProbe
    <2>5. ClosedBelowThreshold'
      BY DEF ClosedBelowThreshold, CircuitTypeOK
    <2> QED BY <2>1, <2>2, <2>4, <2>5
  <1>3. ASSUME NEW c \in CircuitCalls, CircuitAnswered(c) PROVE CircuitInv'
    <2> USE <1>3 DEF CircuitAnswered
    <2>r. PICK result \in CircuitResults :
            call' = [call EXCEPT ![c] = [call[c] EXCEPT !.at = "record", !.result = result]]
      OBVIOUS
    <2>p. [call[c] EXCEPT !.at = "record", !.result = result] \in CircuitCall
      BY <1>t DEF CircuitCall
    <2>c. call' \in [CircuitCalls -> CircuitCall]
      BY <2>r, <2>p DEF CircuitTypeOK
    <2>1. CircuitTypeOK'
      BY <2>c DEF CircuitTypeOK
    <2>2. PermitsAreOld'
      BY DEF PermitsAreOld, CircuitTypeOK, CircuitCall
    <2>3. \A d \in CircuitCalls : IsProbe(d)' <=> IsProbe(d)
      BY <1>t DEF IsProbe, CircuitTypeOK, CircuitCall
    <2>4. HalfOpenIsOneProbe'
      BY <2>3 DEF HalfOpenIsOneProbe
    <2>5. ClosedBelowThreshold'
      BY DEF ClosedBelowThreshold
    <2> QED BY <2>1, <2>2, <2>4, <2>5
  <1>4. ASSUME NEW c \in CircuitCalls, Record(c) PROVE CircuitInv'
    <2> USE <1>4
    <2>r. call[c].at = "record" /\ call' = [call EXCEPT ![c] = NoCall]
      BY DEF Record, RecordNothing, RecordClosed, RecordFailure, AbortTrial, Recorded
    <2>c. call' \in [CircuitCalls -> CircuitCall]
      BY <2>r DEF CircuitTypeOK, CircuitCall, CircuitResults, NoCall
    <2>o. \A d \in CircuitCalls : call'[d] = IF d = c THEN NoCall ELSE call[d]
      BY <2>r DEF CircuitTypeOK
    <2>1. CASE RecordNothing(c)
      <3> USE <2>1 DEF RecordNothing
      <3>n. failures' \in Nat /\ generation' \in Nat
        BY DEF CircuitTypeOK
      <3>b. halfOpen' \in BOOLEAN /\ openUntil' \in {"none", "future", "past"} /\ adapter' = adapter
        BY DEF CircuitTypeOK
      <3>1. CircuitTypeOK'
        BY <2>c, <3>n, <3>b DEF CircuitTypeOK
      <3>2. PermitsAreOld'
        BY <2>o DEF PermitsAreOld, NoCall, CircuitTypeOK
      <3>3. \A d \in CircuitCalls : IsProbe(d)' <=> IsProbe(d)
        BY <2>o DEF IsProbe, NoCall, Stale
      <3>4. HalfOpenIsOneProbe'
        BY <3>3 DEF HalfOpenIsOneProbe
      <3>5. ClosedBelowThreshold'
        BY DEF ClosedBelowThreshold
      <3> QED BY <3>1, <3>2, <3>4, <3>5
    <2>2. CASE RecordClosed(c)
      <3> USE <2>2 DEF RecordClosed
      <3>n. failures' \in Nat /\ generation' \in Nat
        BY DEF CircuitTypeOK
      <3>b. halfOpen' \in BOOLEAN /\ openUntil' \in {"none", "future", "past"} /\ adapter' = adapter
        BY DEF CircuitTypeOK
      <3>1. CircuitTypeOK'
        BY <2>c, <3>n, <3>b DEF CircuitTypeOK
      <3>2. PermitsAreOld'
        BY <2>o, <1>t DEF PermitsAreOld, NoCall, CircuitTypeOK, CircuitCall
      <3>g. ASSUME call[c].half PROVE \A d \in CircuitCalls : ~IsProbe(d)'
        <4>1. \A d \in CircuitCalls : call[d].gen # generation'
          BY <3>g, <1>t DEF PermitsAreOld, CircuitTypeOK, CircuitCall
        <4> QED BY <4>1, <2>o DEF IsProbe, NoCall
      <3>h. ASSUME ~call[c].half PROVE \A d \in CircuitCalls : ~IsProbe(d)'
        <4>1. ~halfOpen
          BY <3>h, <2>r DEF PermitsAreOld, ClosedBelowThreshold, Stale, CircuitTypeOK
        <4>2. generation' = generation
          BY <3>h
        <4> QED BY <4>1, <4>2, <2>o DEF HalfOpenIsOneProbe, IsProbe, NoCall
      <3>3. \A d \in CircuitCalls : ~IsProbe(d)'
        BY <3>g, <3>h
      <3>4. HalfOpenIsOneProbe'
        BY <3>3 DEF HalfOpenIsOneProbe
      <3>5. ClosedBelowThreshold'
        BY DEF ClosedBelowThreshold
      <3> QED BY <3>1, <3>2, <3>4, <3>5
    <2>3. CASE RecordFailure(c)
      <3> USE <2>3 DEF RecordFailure, Trips
      <3>n. failures' \in Nat /\ generation' \in Nat
        BY DEF CircuitTypeOK
      <3>b. halfOpen' \in BOOLEAN /\ openUntil' \in {"none", "future", "past"} /\ adapter' = adapter
        BY DEF CircuitTypeOK
      <3>1. CircuitTypeOK'
        BY <2>c, <3>n, <3>b DEF CircuitTypeOK
      <3>2. PermitsAreOld'
        BY <2>o, <1>t DEF PermitsAreOld, NoCall, CircuitTypeOK, CircuitCall
      <3>3. \A d \in CircuitCalls : ~IsProbe(d)'
        BY <2>o, <2>r, <1>t DEF IsProbe, NoCall, Stale, HalfOpenIsOneProbe, PermitsAreOld, ClosedBelowThreshold, CircuitTypeOK, CircuitCall
      <3>4. HalfOpenIsOneProbe'
        BY <3>3 DEF HalfOpenIsOneProbe
      <3>5. ClosedBelowThreshold'
        BY <2>r DEF ClosedBelowThreshold, CircuitTypeOK, HalfOpenIsOneProbe, IsProbe, Stale, PermitsAreOld
      <3> QED BY <3>1, <3>2, <3>4, <3>5
    <2>4. CASE AbortTrial(c)
      <3> USE <2>4 DEF AbortTrial
      <3>n. failures' \in Nat /\ generation' \in Nat
        BY DEF CircuitTypeOK
      <3>b. halfOpen' \in BOOLEAN /\ openUntil' \in {"none", "future", "past"} /\ adapter' = adapter
        BY DEF CircuitTypeOK
      <3>1. CircuitTypeOK'
        BY <2>c, <3>n, <3>b DEF CircuitTypeOK
      <3>2. PermitsAreOld'
        BY <2>o, <1>t DEF PermitsAreOld, NoCall, CircuitTypeOK, CircuitCall
      <3>3. \A d \in CircuitCalls : ~IsProbe(d)'
        BY <2>o, <1>t DEF IsProbe, NoCall, PermitsAreOld, CircuitTypeOK, CircuitCall
      <3>4. HalfOpenIsOneProbe'
        BY <3>3 DEF HalfOpenIsOneProbe
      <3>5. ClosedBelowThreshold'
        BY <2>r DEF ClosedBelowThreshold, CircuitTypeOK, HalfOpenIsOneProbe, IsProbe, Stale
      <3> QED BY <3>1, <3>2, <3>4, <3>5
    <2> QED BY <2>1, <2>2, <2>3, <2>4 DEF Record
  <1>5. ASSUME UNCHANGED <<failures, halfOpen, generation, call>>,
               ResetTimePasses \/ Close \/ CircuitCloseEnds \/ UNCHANGED circuitVars
        PROVE CircuitInv'
    <2> USE <1>5 DEF ResetTimePasses, Close, CircuitCloseEnds, circuitVars
    <2>1. CircuitTypeOK'
      BY DEF CircuitTypeOK
    <2>2. PermitsAreOld'
      BY DEF PermitsAreOld
    <2>3. HalfOpenIsOneProbe'
      BY DEF HalfOpenIsOneProbe, IsProbe
    <2>4. ClosedBelowThreshold'
      BY DEF ClosedBelowThreshold
    <2> QED BY <2>1, <2>2, <2>3, <2>4
  <1> QED
    BY <1>1, <1>2, <1>3, <1>4, <1>5 DEF CircuitNext, ResetTimePasses, Close, CircuitCloseEnds, circuitVars

\* The invariant holds in every reachable state of the breaker.
LEMMA CircuitInvariant == CircuitSpec => []CircuitInv
  BY CircuitInitial, CircuitInductive, PTL DEF CircuitSpec

\* Half open means exactly one probe, for any number of concurrent rerank calls.
THEOREM OneProbe == CircuitSpec => []HalfOpenIsOneProbe
  <1>1. CircuitInv => HalfOpenIsOneProbe
    BY DEF CircuitInv
  <1> QED
    BY <1>1, CircuitInvariant, PTL

\* The circuit is closed exactly below its failure threshold.
THEOREM ClosedMeansHealthy == CircuitSpec => []ClosedBelowThreshold
  <1>1. CircuitInv => ClosedBelowThreshold
    BY DEF CircuitInv
  <1> QED
    BY <1>1, CircuitInvariant, PTL

\* Only a step in which a probe records a success or a non-provider error brings
\* the failure count below the threshold again.
THEOREM ClosedByProbe == CircuitSpec => OnlyProbeCloses
  <1>1. CircuitInv /\ [CircuitNext]_circuitVars =>
          (failures >= CircuitThreshold /\ failures' < CircuitThreshold =>
             \E c \in CircuitCalls : IsProbe(c) /\ call[c].at = "record" /\ call[c].result \in {"success", "fatal"})
    <2> SUFFICES ASSUME CircuitInv, [CircuitNext]_circuitVars, failures >= CircuitThreshold, failures' < CircuitThreshold
                 PROVE \E c \in CircuitCalls : IsProbe(c) /\ call[c].at = "record" /\ call[c].result \in {"success", "fatal"}
      OBVIOUS
    <2>n. failures \in Nat /\ failures' # failures /\ ~(failures' = failures + 1)
      BY CircuitAssumption DEF CircuitInv, CircuitTypeOK
    <2>1. PICK c \in CircuitCalls : RecordClosed(c)
      BY <2>n DEF CircuitNext, circuitVars, Admit, AdmitProbe, CircuitAnswered, Record, RecordNothing,
         RecordFailure, AbortTrial, ResetTimePasses, Close, CircuitCloseEnds
    <2>2. call[c].at = "record" /\ call[c].gen = generation /\ call[c].result \in {"success", "fatal"}
      BY <2>1 DEF RecordClosed, Recorded, Stale
    <2> QED
      BY <2>2 DEF IsProbe, CircuitInv, PermitsAreOld
  <1> QED
    BY <1>1, CircuitInvariant, PTL DEF CircuitSpec, OnlyProbeCloses

-----------------------------------------------------------------------------
(* The provider runtime on its background loop *)

\* The bridge's state fixes where its thread is; who joins the thread has closed the
\* bridge before; and a closed runtime has a closed bridge.
BridgeInv ==
  /\ bridge = "new" => thread = "none"
  /\ bridge = "starting" => thread = "boot"
  /\ bridge = "running" => thread = "loop"
  /\ bridge = "closing" => thread \in {"boot", "stop"}
  /\ bridge = "closed" => thread \in {"none", "ended"}
  /\ \A t \in Threads : runtimePc[t] = "cjoin" => bridge \in {"closing", "closed"}
  /\ closed => bridge = "closed"

\* Work is outstanding only while the loop runs.
WorkInv == \A t \in Threads : runtimeTask[t] \in {"queued", "first", "second"} => bridge = "running"

\* The current client is the only one that can be open, and the one every closer has in hand.
HandInv ==
  /\ open \subseteq {reranker}
  /\ \A t \in Threads : runtimePc[t] # "cwait" => inHand[t] = None
  /\ \A t \in Threads : runtimePc[t] = "cwait" /\ runtimeTask[t] = "first" => reranker # None /\ inHand[t] = reranker

RuntimeInv == RuntimeTypeOK /\ BridgeInv /\ WorkInv /\ HandInv

\* The first state.
LEMMA RuntimeInitial == RuntimeInit => RuntimeInv
<1> SUFFICES ASSUME RuntimeInit PROVE RuntimeInv
  OBVIOUS
<1>1. RuntimeTypeOK
  <2>1. runtimePc \in [Threads -> {"idle"}] /\ runtimeTask \in [Threads -> {"none"}] /\ inHand \in [Threads -> {None}]
    BY DEF RuntimeInit
  <2>2. clients \in 0 .. MaxClients /\ open \subseteq 1 .. MaxClients /\ reranker \in 1 .. MaxClients \cup {None}
    BY RuntimeAssumption DEF RuntimeInit
  <2>3. ready \in BOOLEAN /\ started \in BOOLEAN /\ closed \in BOOLEAN
    BY DEF RuntimeInit
  <2> QED
    BY <2>1, <2>2, <2>3 DEF RuntimeInit, RuntimeTypeOK, RuntimeTaskStates
<1>2. BridgeInv /\ WorkInv /\ HandInv
  BY DEF RuntimeInit, BridgeInv, WorkInv, HandInv
<1> QED
  BY <1>1, <1>2 DEF RuntimeInv

\* The loop's own thread boots and ends.
LEMMA LoopKeeps == ASSUME RuntimeInv, LoopBoots \/ LoopEnds PROVE RuntimeInv'
<1>1. CASE LoopBoots
  <2>1. RuntimeTypeOK'
    BY <1>1 DEF RuntimeInv, RuntimeTypeOK, LoopBoots, flags, clientVars
  <2>2. BridgeInv'
    BY <1>1 DEF RuntimeInv, RuntimeTypeOK, BridgeInv, LoopBoots, flags
  <2>3. WorkInv' /\ HandInv'
    BY <1>1 DEF RuntimeInv, BridgeInv, WorkInv, HandInv, LoopBoots, clientVars
  <2> QED
    BY <2>1, <2>2, <2>3 DEF RuntimeInv
<1>2. CASE LoopEnds
  <2>1. RuntimeTypeOK'
    BY <1>2 DEF RuntimeInv, RuntimeTypeOK, RuntimeTaskStates, LoopEnds, Cancelled, flags, clientVars
  <2>2. BridgeInv'
    BY <1>2 DEF RuntimeInv, RuntimeTypeOK, BridgeInv, LoopEnds, flags
  <2>3. WorkInv' /\ HandInv'
    BY <1>2 DEF RuntimeInv, WorkInv, HandInv, LoopEnds, Cancelled, Unsettled, clientVars
  <2> QED
    BY <2>1, <2>2, <2>3 DEF RuntimeInv
<1> QED
  BY <1>1, <1>2

\* A step on the loop leaves the bridge alone and moves tasks between the states of
\* running work: what is left to show is about the clients.
LEMMA OnLoopKeeps ==
  ASSUME RuntimeInv, thread = "loop", UNCHANGED <<bridge, thread, ready, runtimePc, closed>>,
         RuntimeTypeOK', HandInv'
  PROVE  RuntimeInv'
<1>1. bridge = "running"
  BY DEF RuntimeInv, RuntimeTypeOK, BridgeInv
<1>2. BridgeInv' /\ WorkInv'
  BY <1>1 DEF RuntimeInv, BridgeInv, WorkInv
<1> QED
  BY <1>2 DEF RuntimeInv

\* The coroutines of start and close.
LEMMA CoroutineKeeps == ASSUME RuntimeInv, NEW t \in Threads, Coroutine(t) PROVE RuntimeInv'
<1>0. thread = "loop" /\ UNCHANGED <<bridge, thread, ready, runtimePc, closed>>
  BY DEF Coroutine, StartBegins, StartEnds, CloseBegins, ClientClosed, RuntimeCloseEnds, OnLoop, bridgeVars, flags
<1>1. CASE StartBegins(t)
  <2>0. /\ \E state \in {"ok", "error", "first"} : runtimeTask' = [runtimeTask EXCEPT ![t] = state]
        /\ \/ UNCHANGED <<reranker, clients, open>>
           \/ /\ reranker = None /\ clients < MaxClients /\ reranker' = clients + 1
              /\ clients' = clients + 1 /\ open' = open \cup {clients + 1}
        /\ UNCHANGED <<bridge, thread, ready, runtimePc, inHand, started, closed>>
    BY <1>1 DEF StartBegins, Becomes, NewClient, bridgeVars, flags, clientVars
  <2>1. RuntimeTypeOK'
    <3>1. reranker' \in 1 .. MaxClients \cup {None} /\ clients' \in 0 .. MaxClients /\ open' \subseteq 1 .. MaxClients
      <4>1. /\ reranker \in 1 .. MaxClients \cup {None} /\ clients \in 0 .. MaxClients /\ open \subseteq 1 .. MaxClients
            /\ MaxClients \in Nat
        BY RuntimeAssumption DEF RuntimeInv, RuntimeTypeOK
      <4>2. CASE UNCHANGED <<reranker, clients, open>>
        BY <4>1, <4>2
      <4>3. CASE clients < MaxClients /\ reranker' = clients + 1 /\ clients' = clients + 1 /\ open' = open \cup {clients + 1}
        <5>1. clients + 1 \in 1 .. MaxClients /\ clients + 1 \in 0 .. MaxClients
          BY <4>1, <4>3
        <5> QED
          BY <4>1, <4>3, <5>1
      <4> QED
        BY <2>0, <4>2, <4>3
    <3>2. runtimeTask' \in [Threads -> RuntimeTaskStates]
      BY <2>0 DEF RuntimeInv, RuntimeTypeOK, RuntimeTaskStates
    <3> QED
      BY <2>0, <3>1, <3>2 DEF RuntimeInv, RuntimeTypeOK
  <2>2. /\ runtimePc[t] = "wait" /\ UNCHANGED inHand
        /\ \A v \in Threads \ {t} : runtimeTask'[v] = runtimeTask[v]
    BY <1>1, <2>0 DEF RuntimeInv, RuntimeTypeOK, StartBegins, OnLoop
  <2>3. open' \subseteq {reranker'}
    <3>1. reranker = None => open = {}
      BY RuntimeAssumption DEF RuntimeInv, RuntimeTypeOK, HandInv
    <3> QED
      BY <2>0, <3>1 DEF RuntimeInv, HandInv
  <2>4. ASSUME NEW v \in Threads, runtimePc'[v] = "cwait", runtimeTask'[v] = "first"
        PROVE  reranker' # None /\ inHand'[v] = reranker'
    <3>1. v # t /\ runtimePc[v] = "cwait" /\ runtimeTask[v] = "first"
      BY <1>0, <2>2, <2>4
    <3> QED
      BY <2>0, <3>1 DEF RuntimeInv, HandInv
  <2>5. HandInv'
    BY <1>0, <2>2, <2>3, <2>4 DEF RuntimeInv, HandInv
  <2> QED
    BY <1>0, <2>1, <2>5, OnLoopKeeps
<1>2. CASE StartEnds(t)
  <2>1. RuntimeTypeOK'
    BY <1>2 DEF RuntimeInv, RuntimeTypeOK, RuntimeTaskStates, StartEnds, Becomes, bridgeVars, clientVars
  <2>2. HandInv'
    BY <1>0, <1>2 DEF RuntimeInv, RuntimeTypeOK, HandInv, StartEnds, OnLoop, Becomes, clientVars
  <2> QED
    BY <1>0, <2>1, <2>2, OnLoopKeeps
<1>3. CASE CloseBegins(t)
  <2>1. RuntimeTypeOK'
    BY <1>3 DEF RuntimeInv, RuntimeTypeOK, RuntimeTaskStates, CloseBegins, Becomes, bridgeVars, flags, clientVars
  <2>2. HandInv'
    BY <1>0, <1>3 DEF RuntimeInv, RuntimeTypeOK, HandInv, CloseBegins, OnLoop, Becomes, clientVars
  <2> QED
    BY <1>0, <2>1, <2>2, OnLoopKeeps
<1>4. CASE ClientClosed(t)
  <2> DEFINE together == {v \in Threads : runtimeTask[v] = "first" /\ inHand[v] = inHand[t]}
  <2>1. /\ runtimePc[t] = "cwait" /\ runtimeTask[t] = "first"
        /\ runtimeTask' = [v \in Threads |-> IF v \in together THEN "second" ELSE runtimeTask[v]]
        /\ inHand' = [v \in Threads |-> IF v \in together THEN None ELSE inHand[v]]
        /\ open' = open \ {inHand[t]} /\ reranker' = None
        /\ UNCHANGED <<bridgeVars, runtimePc, flags, clients>>
    BY <1>4 DEF ClientClosed, OnLoop
  <2>2. RuntimeTypeOK'
    BY <2>1 DEF RuntimeInv, RuntimeTypeOK, RuntimeTaskStates, bridgeVars, flags
  <2>3. reranker # None /\ inHand[t] = reranker
    BY <2>1 DEF RuntimeInv, HandInv
  <2>4. open' = {}
    BY <2>1, <2>3 DEF RuntimeInv, HandInv
  <2>5. \A v \in Threads : runtimePc[v] = "cwait" => runtimeTask'[v] # "first"
    BY <2>1, <2>3 DEF RuntimeInv, HandInv
  <2>6. \A v \in Threads : runtimePc[v] # "cwait" => inHand'[v] = None
    BY <2>1 DEF RuntimeInv, HandInv
  <2>7. HandInv'
    BY <1>0, <2>4, <2>5, <2>6 DEF HandInv
  <2> QED
    BY <1>0, <2>2, <2>7, OnLoopKeeps
<1>5. CASE RuntimeCloseEnds(t)
  <2>1. RuntimeTypeOK'
    BY <1>5 DEF RuntimeInv, RuntimeTypeOK, RuntimeTaskStates, RuntimeCloseEnds, Becomes, bridgeVars, clientVars
  <2>2. HandInv'
    BY <1>0, <1>5 DEF RuntimeInv, RuntimeTypeOK, HandInv, RuntimeCloseEnds, OnLoop, Becomes, clientVars
  <2> QED
    BY <1>0, <2>1, <2>2, OnLoopKeeps
<1> QED
  BY <1>1, <1>2, <1>3, <1>4, <1>5 DEF Coroutine

\* A caller that moves between places where it neither joins nor holds a client, and
\* leaves loop and tasks alone.
LEMMA MovingKeeps ==
  ASSUME RuntimeInv, NEW t \in Threads,
         NEW place \in {"idle", "start", "submit", "close", "csubmit", "cstop"},
         runtimePc[t] # "cwait", Goto(t, place),
         UNCHANGED <<bridgeVars, runtimeTask, inHand, flags, clientVars>>
  PROVE  RuntimeInv'
<1>1. RuntimeTypeOK'
  BY DEF RuntimeInv, RuntimeTypeOK, Goto, bridgeVars, flags, clientVars
<1>2. BridgeInv'
  BY DEF RuntimeInv, RuntimeTypeOK, BridgeInv, Goto, bridgeVars, flags
<1>3. WorkInv' /\ HandInv'
  BY DEF RuntimeInv, RuntimeTypeOK, WorkInv, HandInv, Goto, bridgeVars, clientVars
<1> QED
  BY <1>1, <1>2, <1>3 DEF RuntimeInv

\* The same for a caller that starts the bridge on its way.
LEMMA StartingKeeps ==
  ASSUME RuntimeInv, NEW t \in Threads, NEW place \in {"submit", "csubmit"},
         runtimePc[t] # "cwait", ~closed, Startable, BridgeStart, Goto(t, place),
         UNCHANGED <<ready, runtimeTask, inHand, flags, clientVars>>
  PROVE  RuntimeInv'
<1>1. RuntimeTypeOK'
  BY DEF RuntimeInv, RuntimeTypeOK, BridgeStart, Goto, flags, clientVars
<1>2. BridgeInv'
  BY DEF RuntimeInv, RuntimeTypeOK, BridgeInv, Startable, BridgeStart, Goto, flags
<1>3. WorkInv' /\ HandInv'
  BY DEF RuntimeInv, RuntimeTypeOK, BridgeInv, WorkInv, HandInv, BridgeStart, Goto, clientVars
<1> QED
  BY <1>1, <1>2, <1>3 DEF RuntimeInv

\* The bridge is closed, by a start that timed out or at the end of a close.
LEMMA BridgeCloseKeeps ==
  ASSUME RuntimeInv, NEW t \in Threads, NEW place \in {"idle", "cjoin"},
         runtimePc[t] # "cwait", BridgeClose, Goto(t, place), UNCHANGED <<inHand, flags, clientVars>>
  PROVE  RuntimeInv'
<1>1. /\ bridge' \in {"closing", "closed"} /\ thread' \in {"none", "boot", "stop", "ended"} /\ ready' \in BOOLEAN
      /\ bridge = "closed" => bridge' = "closed"
      /\ bridge' = "closing" => thread' \in {"boot", "stop"}
      /\ bridge' = "closed" => thread' \in {"none", "ended"}
  BY DEF RuntimeInv, RuntimeTypeOK, BridgeInv, BridgeClose, bridgeVars
<1>2. runtimeTask' \in [Threads -> RuntimeTaskStates \ {"queued", "first", "second"}]
  <2>1. CASE bridge \in {"closed", "new"}
    BY <2>1 DEF RuntimeInv, RuntimeTypeOK, WorkInv, BridgeClose
  <2>2. CASE bridge \notin {"closed", "new"}
    BY <2>2 DEF RuntimeInv, RuntimeTypeOK, RuntimeTaskStates, BridgeClose, Cancelled, Unsettled
  <2> QED
    BY <2>1, <2>2
<1>3. RuntimeTypeOK'
  BY <1>1, <1>2 DEF RuntimeInv, RuntimeTypeOK, Goto, flags, clientVars
<1>4. BridgeInv'
  BY <1>1 DEF RuntimeInv, RuntimeTypeOK, BridgeInv, Goto, flags
<1>5. WorkInv' /\ HandInv'
  BY <1>2 DEF RuntimeInv, RuntimeTypeOK, WorkInv, HandInv, Goto, clientVars
<1> QED
  BY <1>3, <1>4, <1>5 DEF RuntimeInv

\* A coroutine is submitted to the running loop.
LEMMA SubmittingKeeps ==
  ASSUME RuntimeInv, NEW t \in Threads, NEW place \in {"wait", "cwait"},
         runtimePc[t] # "cwait", bridge = "running", Becomes(t, "queued"), Goto(t, place),
         UNCHANGED <<bridgeVars, inHand, flags, clientVars>>
  PROVE  RuntimeInv'
<1>1. RuntimeTypeOK'
  BY DEF RuntimeInv, RuntimeTypeOK, RuntimeTaskStates, Becomes, Goto, bridgeVars, flags, clientVars
<1>2. BridgeInv'
  BY DEF RuntimeInv, RuntimeTypeOK, BridgeInv, Goto, bridgeVars, flags
<1>3. WorkInv' /\ HandInv'
  BY DEF RuntimeInv, RuntimeTypeOK, WorkInv, HandInv, Becomes, Goto, bridgeVars, clientVars
<1> QED
  BY <1>1, <1>2, <1>3 DEF RuntimeInv

\* A caller reads the outcome of its coroutine and lets go of what that held.
LEMMA AwaitingKeeps ==
  ASSUME RuntimeInv, NEW t \in Threads, NEW place \in {"idle", "close", "cstop"},
         Becomes(t, "none"), Goto(t, place),
         \A v \in Threads : inHand'[v] = IF v = t THEN None ELSE inHand[v],
         inHand' \in [Threads -> 1 .. MaxClients \cup {None}],
         UNCHANGED <<bridgeVars, flags, clientVars>>
  PROVE  RuntimeInv'
<1>1. RuntimeTypeOK'
  BY DEF RuntimeInv, RuntimeTypeOK, RuntimeTaskStates, Becomes, Goto, bridgeVars, flags, clientVars
<1>2. BridgeInv'
  BY DEF RuntimeInv, RuntimeTypeOK, BridgeInv, Goto, bridgeVars, flags
<1>3. WorkInv' /\ HandInv'
  BY DEF RuntimeInv, RuntimeTypeOK, WorkInv, HandInv, Becomes, Goto, bridgeVars, clientVars
<1> QED
  BY <1>1, <1>2, <1>3 DEF RuntimeInv

\* The join: only a thread that has ended, or never began, closes the runtime.
LEMMA JoinKeeps == ASSUME RuntimeInv, NEW t \in Threads, JoinThread(t) PROVE RuntimeInv'
<1>1. runtimePc[t] = "cjoin" /\ bridge \in {"closing", "closed"}
  BY DEF RuntimeInv, BridgeInv, JoinThread
<1>2. thread \in {"none", "ended"} => bridge = "closed"
  BY <1>1 DEF RuntimeInv, BridgeInv
<1>3. RuntimeTypeOK'
  BY DEF RuntimeInv, RuntimeTypeOK, JoinThread, Goto, bridgeVars, flags, clientVars
<1>4. BridgeInv'
  BY <1>1, <1>2 DEF RuntimeInv, RuntimeTypeOK, BridgeInv, JoinThread, Goto, bridgeVars, flags
<1>5. WorkInv' /\ HandInv'
  BY <1>1 DEF RuntimeInv, RuntimeTypeOK, WorkInv, HandInv, JoinThread, Goto, bridgeVars, clientVars
<1> QED
  BY <1>3, <1>4, <1>5 DEF RuntimeInv

\* The steps of the calling threads.
LEMMA CallerKeeps ==
  ASSUME RuntimeInv, NEW t \in Threads,
         RuntimeAsk(t) \/ RuntimeCallerStep(t) \/ StartTimesOut(t) \/ CloseTimesOut(t) \/ (t = App /\ AskClose)
  PROVE  RuntimeInv'
<1>1. CASE RuntimeAsk(t)
  BY <1>1, MovingKeeps DEF RuntimeAsk
<1>2. CASE StartBridge(t)
  <2>1. CASE Startable
    <3>1. ~closed
      BY <2>1 DEF RuntimeInv, BridgeInv, Startable
    <3> QED
      BY <1>2, <2>1, <3>1, StartingKeeps DEF StartBridge
  <2>2. CASE ~Startable
    <3>1. UNCHANGED bridgeVars
      BY <1>2, <2>2 DEF StartBridge, bridgeVars
    <3> QED
      BY <1>2, <2>2, <3>1, MovingKeeps DEF StartBridge
  <2> QED
    BY <2>1, <2>2
<1>3. CASE SubmitStart(t)
  BY <1>3, SubmittingKeeps, MovingKeeps DEF SubmitStart
<1>4. CASE AwaitStart(t)
  <2>1. inHand[t] = None /\ inHand \in [Threads -> 1 .. MaxClients \cup {None}]
    BY <1>4 DEF RuntimeInv, RuntimeTypeOK, HandInv, AwaitStart
  <2> QED
    BY <1>4, <2>1, AwaitingKeeps DEF AwaitStart
<1>5. CASE RuntimeBeginClose(t)
  <2>1. CASE ~closed /\ Startable
    BY <1>5, <2>1, StartingKeeps DEF RuntimeBeginClose
  <2>2. CASE closed \/ ~Startable
    <3>1. UNCHANGED bridgeVars
      BY <1>5, <2>2 DEF RuntimeBeginClose, bridgeVars
    <3> QED
      BY <1>5, <2>2, <3>1, MovingKeeps DEF RuntimeBeginClose
  <2> QED
    BY <2>1, <2>2
<1>6. CASE SubmitClose(t)
  BY <1>6, SubmittingKeeps, MovingKeeps DEF SubmitClose
<1>7. CASE AwaitClose(t)
  <2>1. inHand' \in [Threads -> 1 .. MaxClients \cup {None}] /\ \A v \in Threads : inHand'[v] = IF v = t THEN None ELSE inHand[v]
    BY <1>7 DEF RuntimeInv, RuntimeTypeOK, AwaitClose
  <2> QED
    BY <1>7, <2>1, AwaitingKeeps DEF AwaitClose
<1>8. CASE StopBridge(t)
  BY <1>8, BridgeCloseKeeps DEF StopBridge
<1>9. CASE JoinThread(t)
  BY <1>9, JoinKeeps
<1>10. CASE StartTimesOut(t)
  BY <1>10, BridgeCloseKeeps DEF StartTimesOut
<1>11. CASE CloseTimesOut(t)
  BY <1>11, MovingKeeps DEF CloseTimesOut
<1>12. CASE t = App /\ AskClose
  BY <1>12, MovingKeeps DEF AskClose
<1> QED
  BY <1>1, <1>2, <1>3, <1>4, <1>5, <1>6, <1>7, <1>8, <1>9, <1>10, <1>11, <1>12 DEF RuntimeCallerStep

\* RuntimeInv is an invariant of the runtime.
LEMMA RuntimeInvariant == RuntimeSpec => []RuntimeInv
<1>1. RuntimeInv /\ [RuntimeNext]_runtimeVars => RuntimeInv'
  <2> SUFFICES ASSUME RuntimeInv, [RuntimeNext]_runtimeVars PROVE RuntimeInv'
    OBVIOUS
  <2>1. CASE UNCHANGED runtimeVars
    BY <2>1 DEF runtimeVars, RuntimeInv, RuntimeTypeOK, BridgeInv, WorkInv, HandInv
  <2>2. App \in Threads
    BY DEF Threads
  <2> QED
    BY <2>1, <2>2, LoopKeeps, CoroutineKeeps, CallerKeeps DEF RuntimeNext
<1> QED
  BY <1>1, RuntimeInitial, PTL DEF RuntimeSpec

\* Whatever threads start and close the runtime at once, however often a start times out
\* or a close is cut short: one HTTP client is open at a time, a closed bridge has left
\* nobody waiting and no thread behind, and a closed runtime stays closed
\* (ProviderRuntime, ProviderLoopBridge.close and _run_loop).
THEOREM ClosedRuntimeSettledHolds == RuntimeSpec => []ClosedRuntimeSettled
<1>1. RuntimeInv => ClosedRuntimeSettled
  <2> SUFFICES ASSUME RuntimeInv PROVE ClosedRuntimeSettled
    OBVIOUS
  <2>1. open = {} \/ open = {reranker}
    BY DEF RuntimeInv, HandInv
  <2>2. OneClient
    <3>1. Cardinality({}) = 0
      BY FS_EmptySet
    <3>2. Cardinality({reranker}) = 1
      BY FS_Singleton
    <3> QED
      BY <2>1, <3>1, <3>2 DEF OneClient
  <2>3. ClosedBridgeSettled /\ ClosedStaysClosed
    BY DEF RuntimeInv, BridgeInv, WorkInv, ClosedBridgeSettled, ClosedStaysClosed, Unsettled
  <2> QED
    BY <2>2, <2>3 DEF RuntimeInv, ClosedRuntimeSettled
<1> QED
  BY <1>1, RuntimeInvariant, PTL

=============================================================================
