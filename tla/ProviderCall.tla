---------------------------- MODULE ProviderCall ----------------------------
(***************************************************************************)
(* One call of an external provider through ProviderExecutor.acall         *)
(* (providers/core.py): attempts, back-off, Retry-After, the deadline and  *)
(* the cancellation probe.  Time is a clock of whole ticks.                *)
(***************************************************************************)
EXTENDS Absence, Naturals

CONSTANTS
  MaxAttempts,      \* policy.max_attempts
  InitialBackoff,   \* policy.initial_backoff_seconds, in ticks
  MaxBackoff,       \* policy.max_backoff_seconds
  MaxRetryAfter,    \* policy.max_retry_after_seconds
  Poll,             \* policy.cancellation_poll_seconds
  RetryAfters,      \* the Retry-After values a provider may send
  Deadline,         \* context.deadline
  MaxTime,          \* bound on the clock
  Prompt,           \* whether the event loop runs a step as soon as it is due
  Probed            \* whether the caller gave a cancellation probe

ASSUME ProviderCallAssumption ==
  /\ MaxAttempts \in Nat \ {0} /\ Poll \in Nat \ {0}
  /\ InitialBackoff \in Nat /\ MaxBackoff \in Nat /\ InitialBackoff <= MaxBackoff
  /\ MaxRetryAfter \in Nat /\ RetryAfters \subseteq Nat
  /\ Deadline \in Nat /\ MaxTime \in Nat /\ Deadline < MaxTime
  /\ Probed \in BOOLEAN /\ Prompt \in BOOLEAN
  /\ None \notin Nat

VARIABLES
  at,         \* where the call is: before an attempt, in it, sleeping, or done
  attempt,    \* number of the current attempt
  now,
  cancelled,  \* what the cancellation probe answers
  sleep,      \* ticks the current back-off still has to sleep
  wake,       \* when the sleeper returns
  outcome     \* what the caller gets

callVars == <<at, attempt, now, cancelled, sleep, wake, outcome>>

CallInit ==
  /\ at = "checkpoint" /\ attempt = 1
  /\ now = 0 /\ cancelled = FALSE
  /\ sleep = 0 /\ wake = 0
  /\ outcome = None

Done(result) == at' = "done" /\ outcome' = result

\* backoff_multiplier is 2; a provider's Retry-After can only lengthen the wait.
Exponential(n) == InitialBackoff * 2^(n - 1)
AtMost(a, b) == IF a < b THEN a ELSE b
AtLeast(a, b) == IF a > b THEN a ELSE b

RetryDelay(n, after) ==
  LET delay == AtMost(Exponential(n), MaxBackoff)
  IN  IF after = None THEN delay ELSE AtLeast(delay, after)

-----------------------------------------------------------------------------

\* _checkpoint: the cancellation is looked at before the deadline.
Blocked ==
  IF Probed /\ cancelled THEN "cancelled"
  ELSE IF now >= Deadline THEN "deadline" ELSE None

BeginAttempt ==
  /\ at = "checkpoint"
  /\ IF Blocked = None THEN at' = "attempt" /\ UNCHANGED outcome ELSE Done(Blocked)
  /\ UNCHANGED <<attempt, now, cancelled, sleep, wake>>

\* fn returned before the timeout scope expired; the last checkpoint follows.
AttemptSucceeds ==
  /\ at = "attempt"
  /\ Done(IF Blocked = None THEN "result" ELSE Blocked)
  /\ UNCHANGED <<attempt, now, cancelled, sleep, wake>>

\* An error that classify_provider_exception finds not retryable.
AttemptRejected ==
  /\ at = "attempt"
  /\ Done("rejected")
  /\ UNCHANGED <<attempt, now, cancelled, sleep, wake>>

\* _ensure_retry_fits_deadline.
FitsDeadline(delay) == now < Deadline /\ delay < Deadline - now

Exhausted == attempt >= MaxAttempts

AttemptFails(after) ==
  /\ at = "attempt"
  /\ IF Exhausted \/ (after # None /\ after > MaxRetryAfter)
     THEN Done("exhausted") /\ UNCHANGED <<sleep, wake>>
     ELSE IF ~FitsDeadline(RetryDelay(attempt, after))
     THEN Done("deadline") /\ UNCHANGED <<sleep, wake>>
     ELSE /\ at' = "sleep" /\ sleep' = RetryDelay(attempt, after) /\ wake' = now
          /\ UNCHANGED outcome
  /\ UNCHANGED <<attempt, now, cancelled>>

\* asyncio.timeout(remaining) and the watcher of the cancellation probe.
AttemptTimesOut ==
  /\ at = "attempt" /\ now >= Deadline
  /\ Done("deadline")
  /\ UNCHANGED <<attempt, now, cancelled, sleep, wake>>

AttemptCancelled ==
  /\ at = "attempt" /\ Probed /\ cancelled
  /\ Done("cancelled")
  /\ UNCHANGED <<attempt, now, cancelled, sleep, wake>>

\* _asleep_with_cancellation: with a probe, in slices with a checkpoint before
\* each and one at the end; without one, in a single sleep.
SleepSlice ==
  /\ at = "sleep" /\ now >= wake /\ sleep > 0
  /\ IF Probed /\ Blocked # None
     THEN Done(Blocked) /\ UNCHANGED <<sleep, wake>>
     ELSE LET slice == IF Probed THEN AtMost(sleep, Poll) ELSE sleep
          IN  /\ sleep' = sleep - slice /\ wake' = now + slice
              /\ UNCHANGED <<at, outcome>>
  /\ UNCHANGED <<attempt, now, cancelled>>

\* The loop continues with the next attempt, whose checkpoint also stands for
\* the one at the end of the sleep.
SleepEnds ==
  /\ at = "sleep" /\ now >= wake /\ sleep = 0
  /\ at' = "checkpoint" /\ attempt' = attempt + 1
  /\ UNCHANGED <<now, cancelled, sleep, wake, outcome>>

\* A step of the executor is waiting for nothing but the event loop.
Due ==
  \/ at = "checkpoint"
  \/ at = "attempt" /\ (now >= Deadline \/ (Probed /\ cancelled))
  \/ at = "sleep" /\ now >= wake

Tick ==
  /\ at # "done" /\ now < MaxTime
  /\ ~(Prompt /\ Due)
  /\ now' = now + 1
  /\ UNCHANGED <<at, attempt, cancelled, sleep, wake, outcome>>

RequestCancel ==
  /\ at # "done" /\ ~cancelled
  /\ cancelled' = TRUE
  /\ UNCHANGED <<at, attempt, now, sleep, wake, outcome>>

ExecutorStep ==
  \/ BeginAttempt
  \/ AttemptTimesOut
  \/ AttemptCancelled
  \/ SleepSlice
  \/ SleepEnds

ProviderAnswers ==
  \/ AttemptSucceeds
  \/ AttemptRejected
  \/ \E after \in RetryAfters \cup {None} : AttemptFails(after)

CallFinished == at = "done" /\ UNCHANGED callVars

CallNext == ExecutorStep \/ ProviderAnswers \/ Tick \/ RequestCancel \/ CallFinished

\* The event loop and the clock go on; the provider need not answer.
CallFairness == WF_callVars(ExecutorStep) /\ WF_callVars(Tick)
CallSpec == CallInit /\ [][CallNext]_callVars /\ CallFairness

-----------------------------------------------------------------------------
(* Properties *)

\* Every call ends at its deadline, also when the provider never answers.
CallEnds == <>(at = "done")

=============================================================================
