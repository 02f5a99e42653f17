--------------------------- MODULE RerankCircuit ---------------------------
(***************************************************************************)
(* The circuit breaker and the life cycle of HttpxRerankerAdapter          *)
(* (providers/rerank.py).  Concurrent rerank calls on one event loop get a *)
(* permit, talk to the provider, and record what happened in a task of     *)
(* their own; permits carry the generation of the circuit.                 *)
(***************************************************************************)
EXTENDS Naturals, FiniteSets

CONSTANTS
  CircuitCalls,           \* concurrent callers of rerank
  CircuitThreshold,       \* circuit_failure_threshold
  MaxGeneration    \* bound on the generations explored

ASSUME CircuitAssumption == CircuitThreshold \in Nat \ {0} /\ MaxGeneration \in Nat

VARIABLES
  failures,    \* _circuit_failures
  openUntil,   \* _circuit_open_until: "none", in the "future" or "past"
  halfOpen,    \* _half_open_in_flight
  generation,  \* _circuit_generation
  call,        \* the rerank calls and their permits
  adapter      \* the HTTP client: "open", "closing" or "closed"

circuitVars == <<failures, openUntil, halfOpen, generation, call, adapter>>

CircuitResults == {"success", "retryable", "fatal", "cancelled"}

\* at: outside, waiting for the provider, or with its result to be recorded.
CircuitCall == [at : {"out", "sent", "record"}, gen : Nat, half : BOOLEAN, result : CircuitResults]

NoCall == [at |-> "out", gen |-> 0, half |-> FALSE, result |-> "success"]

CircuitInit ==
  /\ failures = 0 /\ openUntil = "none" /\ halfOpen = FALSE /\ generation = 0
  /\ call = [c \in CircuitCalls |-> NoCall]
  /\ adapter = "open"

-----------------------------------------------------------------------------
(* Calls *)

Permit(c, half, gen) ==
  call' = [call EXCEPT ![c] = [NoCall EXCEPT !.at = "sent", !.gen = gen, !.half = half]]

\* _before_circuit_call on a closed circuit.
Admit(c) ==
  /\ call[c].at = "out" /\ adapter = "open"
  /\ ~halfOpen /\ openUntil = "none"
  /\ Permit(c, FALSE, generation)
  /\ UNCHANGED <<failures, openUntil, halfOpen, generation, adapter>>

\* _before_circuit_call after the reset time: one probe is let through.
AdmitProbe(c) ==
  /\ call[c].at = "out" /\ adapter = "open" /\ generation < MaxGeneration
  /\ ~halfOpen /\ openUntil = "past"
  /\ halfOpen' = TRUE /\ openUntil' = "none"
  /\ generation' = generation + 1
  /\ Permit(c, TRUE, generation + 1)
  /\ UNCHANGED <<failures, adapter>>

\* The executor delivers items, an error or a cancellation.
CircuitAnswered(c) ==
  /\ call[c].at = "sent"
  /\ \E result \in CircuitResults : call' = [call EXCEPT ![c] = [@ EXCEPT !.at = "record", !.result = result]]
  /\ UNCHANGED <<failures, openUntil, halfOpen, generation, adapter>>

-----------------------------------------------------------------------------
(* What a call records; each is a task that the call's cancellation cannot stop *)

Recorded(c) == call[c].at = "record" /\ call' = [call EXCEPT ![c] = NoCall]

Stale(c) == call[c].gen # generation

\* A call of an earlier generation, or an aborted ordinary call, changes nothing.
RecordNothing(c) ==
  /\ Recorded(c)
  /\ Stale(c) \/ (call[c].result = "cancelled" /\ ~call[c].half)
  /\ UNCHANGED <<failures, openUntil, halfOpen, generation, adapter>>

\* _record_circuit_success, and _record_circuit_failure of an error that is no
\* sign of an unavailable provider: the circuit closes.
RecordClosed(c) ==
  /\ Recorded(c)
  /\ ~Stale(c) /\ call[c].result \in {"success", "fatal"}
  /\ call[c].half => generation < MaxGeneration
  /\ failures' = 0 /\ openUntil' = "none" /\ halfOpen' = FALSE
  /\ generation' = IF call[c].half THEN generation + 1 ELSE generation
  /\ UNCHANGED adapter

Trips(n) == n >= CircuitThreshold

RecordFailure(c) ==
  /\ Recorded(c)
  /\ ~Stale(c) /\ call[c].result = "retryable"
  /\ Trips(failures + 1) => generation < MaxGeneration
  /\ halfOpen' = FALSE
  /\ failures' = failures + 1
  /\ openUntil' = IF Trips(failures + 1) THEN "future" ELSE openUntil
  /\ generation' = IF Trips(failures + 1) THEN generation + 1 ELSE generation
  /\ UNCHANGED adapter

\* Faulty variant of AbortTrial: the cancelled probe only gives up its generation.
AbortTrialForgotten(c) ==
  /\ Recorded(c)
  /\ ~Stale(c) /\ call[c].result = "cancelled" /\ call[c].half
  /\ generation < MaxGeneration
  /\ generation' = generation + 1
  /\ UNCHANGED <<failures, openUntil, halfOpen, adapter>>

\* _abort_circuit_trial: the next caller may probe at once.
AbortTrial(c) ==
  /\ Recorded(c)
  /\ ~Stale(c) /\ call[c].result = "cancelled" /\ call[c].half
  /\ generation < MaxGeneration
  /\ halfOpen' = FALSE /\ openUntil' = "past" /\ generation' = generation + 1
  /\ UNCHANGED <<failures, adapter>>

Record(c) == RecordNothing(c) \/ RecordClosed(c) \/ RecordFailure(c) \/ AbortTrial(c)

-----------------------------------------------------------------------------
(* Time and close *)

ResetTimePasses ==
  /\ openUntil = "future"
  /\ openUntil' = "past"
  /\ UNCHANGED <<failures, halfOpen, generation, call, adapter>>

\* aclose: every caller joins one close task; a failed close can be repeated.
Close ==
  /\ adapter = "open" /\ adapter' = "closing"
  /\ UNCHANGED <<failures, openUntil, halfOpen, generation, call>>

CircuitCloseEnds ==
  /\ adapter = "closing" /\ adapter' \in {"closed", "open"}
  /\ UNCHANGED <<failures, openUntil, halfOpen, generation, call>>

CircuitNext ==
  \/ \E c \in CircuitCalls : Admit(c) \/ AdmitProbe(c)
  \/ \E c \in CircuitCalls : CircuitAnswered(c)
  \/ \E c \in CircuitCalls : Record(c)
  \/ ResetTimePasses
  \/ Close
  \/ CircuitCloseEnds

CircuitSpec == CircuitInit /\ [][CircuitNext]_circuitVars

\* Provider calls have a deadline, the event loop runs its tasks, time passes.
CircuitFairness ==
  /\ \A c \in CircuitCalls : WF_circuitVars(CircuitAnswered(c)) /\ WF_circuitVars(Record(c))
  /\ WF_circuitVars(ResetTimePasses)

-----------------------------------------------------------------------------
(* Properties *)

\* Type invariant of the circuit.
CircuitTypeOK ==
  /\ failures \in Nat /\ generation \in Nat
  /\ openUntil \in {"none", "future", "past"} /\ halfOpen \in BOOLEAN
  /\ call \in [CircuitCalls -> CircuitCall]
  /\ adapter \in {"open", "closing", "closed"}

\* The call holds the permit of a probe in the current generation.
IsProbe(c) == call[c].at # "out" /\ call[c].half /\ call[c].gen = generation

\* The circuit is half open exactly while one probe is under way: no second
\* probe is let through, and however the probe ends, cancelled in the middle of
\* its bookkeeping included, the half-open state ends with it.
HalfOpenIsOneProbe ==
  /\ halfOpen <=> \E c \in CircuitCalls : IsProbe(c)
  /\ \A c, d \in CircuitCalls : IsProbe(c) /\ IsProbe(d) => c = d

\* A closed circuit has seen fewer failures in a row than the threshold, and an
\* open or half-open one at least as many.
ClosedBelowThreshold ==
  (openUntil = "none" /\ ~halfOpen) <=> failures < CircuitThreshold

\* Once open, the circuit is closed only by the answer of its own probe: late
\* answers of calls that were admitted before it opened do not count.
OnlyProbeCloses ==
  [][failures >= CircuitThreshold /\ failures' < CircuitThreshold =>
       \E c \in CircuitCalls : IsProbe(c) /\ call[c].at = "record" /\ call[c].result \in {"success", "fatal"}]_circuitVars

\* A half-open circuit settles: it never refuses callers for ever.
HalfOpenSettles == halfOpen ~> ~halfOpen \/ generation = MaxGeneration

=============================================================================
