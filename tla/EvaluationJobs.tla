-------------------------- MODULE EvaluationJobs --------------------------
(***************************************************************************)
(* The persistent RAG evaluation jobs over one dataset                     *)
(* (evaluation/repository.py) and the workers that execute them            *)
(* (evaluation/worker.py).  Every repository call is one transaction under *)
(* the job's row lock and one action here; a worker performs many of them  *)
(* for one job, and leases, cancellations and other workers come between.  *)
(***************************************************************************)
EXTENDS Absence, Naturals, FiniteSets, FiniteSetsExt

CONSTANTS
  Jobs,          \* identities of evaluation jobs
  NCases,        \* number of cases in the dataset
  EvalWorkers,       \* worker processes
  EvalMaxAttempts,   \* max_attempts: how often a job may be claimed
  MaxFailures,   \* bound on worker processes that die and database calls that fail
  MaxLostReplies \* bound on commits whose confirmation the worker never gets

ASSUME EvaluationAssumption ==
  /\ NCases \in Nat \ {0}
  /\ EvalMaxAttempts \in Nat \ {0}
  /\ MaxFailures \in Nat
  /\ MaxLostReplies \in Nat
  /\ None \notin Jobs \cup EvalWorkers \cup Nat

VARIABLES
  evalJob,      \* the rows of rag_evaluation_jobs
  cases,    \* the status of every case row of every job
  evalWorker,   \* the worker processes: main loop and heartbeat thread
  failures, \* how many processes died and calls failed
  lostReplies

evalVars == <<evalJob, cases, evalWorker, failures, lostReplies>>
faults == <<failures, lostReplies>>

Cases == 1 .. NCases       \* a case is its position in the dataset

JobStatuses == {"absent", "queued", "running", "cancelling", "cancelled", "succeeded", "failed"}
CaseStatuses == {"queued", "running", "completed", "failed", "cancelled"}
Finished == {"cancelled", "succeeded", "failed"}
OpenCase == {"queued", "running"}

\* observed: the cases with an observation.  report: those the saved report scores.
EvalJob == [status : JobStatuses, owner : EvalWorkers \cup {None}, lease : {"none", "live", "expired"},
            fence : Nat, attempts : Nat, completed : Nat,
            observed : SUBSET Cases, report : {None} \cup SUBSET Cases, base : Jobs \cup {None}]

EvalAbsentJob == [status |-> "absent", owner |-> None, lease |-> "none", fence |-> 0, attempts |-> 0,
              completed |-> 0, observed |-> {}, report |-> None, base |-> None]

\* Where the main loop of a worker is, named for the repository call it makes next;
\* "stopped" in a deployment that runs no evaluation worker.
WorkerPlaces == {"idle", "claim", "loop", "case", "execute", "complete", "drained", "observe",
                 "finish", "cancel", "error", "cancel_error", "partial", "fail", "dead", "stopped"}

\* active: _active_case_id.  lost: heartbeat_error.  beats: the heartbeat thread lives.
EvalWorker == [at : WorkerPlaces, j : Jobs \cup {None}, fence : Nat, active : Cases \cup {None},
               lost : BOOLEAN, beats : BOOLEAN, report : {None} \cup SUBSET Cases]

IdleEvaluator == [at |-> "idle", j |-> None, fence |-> 0, active |-> None,
                  lost |-> FALSE, beats |-> FALSE, report |-> None]

EvalInit ==
  /\ evalJob = [j \in Jobs |-> EvalAbsentJob]
  /\ cases = [j \in Jobs |-> [c \in Cases |-> "queued"]]
  /\ evalWorker = [w \in EvalWorkers |-> IdleEvaluator]
  /\ failures = 0
  /\ lostReplies = 0

-----------------------------------------------------------------------------
(* Guards and row effects *)

\* _assert_owner; the lease's expiry is not looked at.
Owns(w) ==
  LET j == evalWorker[w].j
  IN  /\ evalJob[j].owner = w
      /\ evalJob[j].fence = evalWorker[w].fence
      /\ evalJob[j].status \in {"running", "cancelling"}

CancelRequested(w) == evalJob[evalWorker[w].j].status \in {"cancelling", "cancelled"}

Released(row, status) == [row EXCEPT !.status = status, !.owner = None, !.lease = "none"]

\* The case rows after every row in one of the given statuses moved to another.
Moved(rows, from, to) == [c \in Cases |-> IF rows[c] \in from THEN to ELSE rows[c]]

EvalCancelled(row) == Released(row, "cancelled")
CancelledCases(rows) == Moved(rows, OpenCase, "cancelled")

WorkerAt(w, place) == evalWorker' = [evalWorker EXCEPT ![w].at = place]
WorkerFree(w) == evalWorker' = [evalWorker EXCEPT ![w] = IdleEvaluator]
WorkerDies(w) == evalWorker' = [evalWorker EXCEPT ![w] = [IdleEvaluator EXCEPT !.at = "dead"]]

-----------------------------------------------------------------------------
(* Requests *)

\* A baseline must be a succeeded job of the same dataset with a report.
CreateJob(j, b) ==
  /\ evalJob[j].status = "absent"
  /\ b = None \/ (b \in Jobs /\ evalJob[b].status = "succeeded" /\ evalJob[b].report # None)
  /\ evalJob' = [evalJob EXCEPT ![j] = [EvalAbsentJob EXCEPT !.status = "queued", !.base = b]]
  /\ UNCHANGED <<cases, evalWorker, faults>>

CancelJob(j) ==
  /\ evalJob[j].status \in {"queued", "running"}
  /\ IF evalJob[j].status = "queued"
     THEN /\ evalJob' = [evalJob EXCEPT ![j] = EvalCancelled(@)]
          /\ cases' = [cases EXCEPT ![j] = CancelledCases(@)]
     ELSE /\ evalJob' = [evalJob EXCEPT ![j].status = "cancelling"]
          /\ UNCHANGED cases
  /\ UNCHANGED <<evalWorker, faults>>

-----------------------------------------------------------------------------
(* Recovery and claims *)

Orphaned(j) == evalJob[j].status \in {"running", "cancelling"} /\ evalJob[j].lease = "expired"

Spent(j) == evalJob[j].attempts >= EvalMaxAttempts

\* built: _orphaned_partial_report succeeded; otherwise the failure is logged.
RecoveredJob(j, built) ==
  CASE evalJob[j].status = "cancelling" -> EvalCancelled(evalJob[j])
    [] evalJob[j].status # "cancelling" /\ Spent(j) ->
         [Released(evalJob[j], "failed") EXCEPT !.report = IF built THEN evalJob[j].observed ELSE @]
    [] OTHER -> Released(evalJob[j], "queued")

\* Faulty variant of RecoveredCases: the case in hand is not put back.
RecoveredCasesKept(j) ==
  CASE evalJob[j].status = "cancelling" -> CancelledCases(cases[j])
    [] evalJob[j].status # "cancelling" /\ Spent(j) -> Moved(cases[j], OpenCase, "failed")
    [] OTHER -> cases[j]

RecoveredCases(j) ==
  CASE evalJob[j].status = "cancelling" -> CancelledCases(cases[j])
    [] evalJob[j].status # "cancelling" /\ Spent(j) -> Moved(cases[j], OpenCase, "failed")
    [] OTHER -> Moved(cases[j], {"running"}, "queued")

\* reconcile_expired, the first transaction of claim_next.
Reconcile(w) ==
  /\ evalWorker[w].at = "idle"
  /\ \E built \in BOOLEAN :
       evalJob' = [j \in Jobs |-> IF Orphaned(j) THEN RecoveredJob(j, built) ELSE evalJob[j]]
  /\ cases' = [j \in Jobs |-> IF Orphaned(j) THEN RecoveredCases(j) ELSE cases[j]]
  /\ WorkerAt(w, "claim")
  /\ UNCHANGED faults

EvalClaimedJob(row, w) ==
  [row EXCEPT !.status = "running", !.owner = w, !.lease = "live",
              !.fence = @ + 1, !.attempts = @ + 1]

\* The second transaction of claim_next: the oldest queued job that no other
\* transaction has locked (skip_locked), hence any queued job.
ClaimNext(w) ==
  /\ evalWorker[w].at = "claim"
  /\ \E j \in Jobs :
       /\ evalJob[j].status = "queued"
       /\ evalJob' = [evalJob EXCEPT ![j] = EvalClaimedJob(@, w)]
       /\ evalWorker' = [evalWorker EXCEPT ![w] =
            [IdleEvaluator EXCEPT !.at = "loop", !.j = j, !.fence = evalJob[j].fence + 1,
                                  !.beats = TRUE]]
  /\ UNCHANGED <<cases, faults>>

NothingToClaim(w) ==
  /\ evalWorker[w].at = "claim"
  /\ \A j \in Jobs : evalJob[j].status # "queued"
  /\ WorkerAt(w, "idle")
  /\ UNCHANGED <<evalJob, cases, faults>>

-----------------------------------------------------------------------------
(* The cases of a claimed job *)

\* Top of the loop: a lost heartbeat is an error, a cancellation ends the job.
CheckLoop(w) ==
  /\ evalWorker[w].at = "loop"
  /\ WorkerAt(w, IF evalWorker[w].lost THEN "error"
                 ELSE IF CancelRequested(w) THEN "cancel" ELSE "case")
  /\ UNCHANGED <<evalJob, cases, faults>>

QueuedCases(j) == {c \in Cases : cases[j][c] = "queued"}

HasNextCase(w) ==
  /\ Owns(w)
  /\ evalJob[evalWorker[w].j].status # "cancelling"
  /\ QueuedCases(evalWorker[w].j) # {}

NextCase(w) == Min(QueuedCases(evalWorker[w].j))

\* The first queued case in dataset order; a cancellation looks like the end.
ClaimCase(w) ==
  /\ evalWorker[w].at = "case"
  /\ IF HasNextCase(w)
     THEN /\ cases' = [cases EXCEPT ![evalWorker[w].j][NextCase(w)] = "running"]
          /\ evalWorker' = [evalWorker EXCEPT ![w] = [@ EXCEPT !.at = "execute", !.active = NextCase(w)]]
     ELSE /\ WorkerAt(w, IF Owns(w) THEN "drained" ELSE "error")
          /\ UNCHANGED cases
  /\ UNCHANGED <<evalJob, faults>>

\* execute_case: an observation, be it of a provider failure, or an exception,
\* which a cancellation and a lost heartbeat raise as well.
ExecuteCase(w) ==
  /\ evalWorker[w].at = "execute"
  /\ \E outcome \in {"complete", "error"} : WorkerAt(w, outcome)
  /\ UNCHANGED <<evalJob, cases, faults>>

ObservedCase(row, c, status) ==
  IF status = "completed" THEN row
  ELSE [row EXCEPT !.completed = @ + 1, !.observed = @ \cup {c}]

Completable(w) ==
  Owns(w) /\ cases[evalWorker[w].j][evalWorker[w].active] \in {"running", "completed"}

SaveObservation(w) ==
  LET j == evalWorker[w].j
      c == evalWorker[w].active
  IN  /\ evalJob' = [evalJob EXCEPT ![j] = ObservedCase(@, c, cases[j][c])]
      /\ cases' = [cases EXCEPT ![j][c] = "completed"]

CompleteCase(w) ==
  /\ evalWorker[w].at = "complete"
  /\ IF Completable(w)
     THEN /\ SaveObservation(w)
          /\ evalWorker' = [evalWorker EXCEPT ![w] = [@ EXCEPT !.at = "loop", !.active = None]]
     ELSE WorkerAt(w, "error") /\ UNCHANGED <<evalJob, cases>>
  /\ UNCHANGED faults

-----------------------------------------------------------------------------
(* The end of a job *)

CheckDrained(w) ==
  /\ evalWorker[w].at = "drained"
  /\ WorkerAt(w, IF CancelRequested(w) THEN "cancel" ELSE "observe")
  /\ UNCHANGED <<evalJob, cases, faults>>

\* observations, baseline_report and evaluate_rag: every case must have been
\* observed and the baseline must have succeeded.
Observe(w) ==
  LET j == evalWorker[w].j
      b == evalJob[j].base
  IN  /\ evalWorker[w].at = "observe"
      /\ IF evalJob[j].observed = Cases /\ (b = None \/ (evalJob[b].status = "succeeded" /\ evalJob[b].report # None))
         THEN evalWorker' = [evalWorker EXCEPT ![w] = [@ EXCEPT !.at = "finish", !.report = evalJob[j].observed]]
         ELSE WorkerAt(w, "error")
      /\ UNCHANGED <<evalJob, cases, faults>>

Finishable(w) ==
  /\ Owns(w)
  /\ evalJob[evalWorker[w].j].completed = NCases
  /\ evalWorker[w].report = Cases

SaveSuccess(w) ==
  evalJob' = [evalJob EXCEPT ![evalWorker[w].j] = [Released(@, "succeeded") EXCEPT !.report = evalWorker[w].report]]

\* A cancellation that arrives after CheckDrained does not stop the job from succeeding.
FinishJob(w) ==
  /\ evalWorker[w].at = "finish"
  /\ IF Finishable(w)
     THEN SaveSuccess(w) /\ WorkerFree(w)
     ELSE WorkerAt(w, "error") /\ UNCHANGED evalJob
  /\ UNCHANGED <<cases, faults>>

SaveCancellation(w) ==
  /\ evalJob' = [evalJob EXCEPT ![evalWorker[w].j] = EvalCancelled(@)]
  /\ cases' = [cases EXCEPT ![evalWorker[w].j] = CancelledCases(@)]

\* finish_cancelled, from the loop: a refusal is an error of the execution.
FinishCancelled(w) ==
  /\ evalWorker[w].at = "cancel"
  /\ IF Owns(w)
     THEN SaveCancellation(w) /\ WorkerFree(w)
     ELSE WorkerAt(w, "error") /\ UNCHANGED <<evalJob, cases>>
  /\ UNCHANGED faults

-----------------------------------------------------------------------------
(* The exception handler of run_once *)

EvalHandleError(w) ==
  /\ evalWorker[w].at = "error"
  /\ WorkerAt(w, IF CancelRequested(w) THEN "cancel_error" ELSE "partial")
  /\ UNCHANGED <<evalJob, cases, faults>>

\* finish_cancelled, from the handler: nothing catches a refusal here, which
\* leaves run_once and run_forever and ends the process.
CancelAfterError(w) ==
  /\ evalWorker[w].at = "cancel_error"
  /\ IF Owns(w)
     THEN SaveCancellation(w) /\ WorkerFree(w)
     ELSE WorkerDies(w) /\ UNCHANGED <<evalJob, cases>>
  /\ UNCHANGED faults

\* _partial_report scores what list_cases shows; a failure to build it is logged.
PartialReport(w) ==
  /\ evalWorker[w].at = "partial"
  /\ \E report \in {None, evalJob[evalWorker[w].j].observed} :
       evalWorker' = [evalWorker EXCEPT ![w] = [@ EXCEPT !.at = "fail", !.report = report]]
  /\ UNCHANGED <<evalJob, cases, faults>>

FailedCases(rows, active) ==
  [c \in Cases |-> IF c = active THEN "failed" ELSE IF rows[c] = "queued" THEN "cancelled" ELSE rows[c]]

\* fail_job: the job is not tried again.  A refusal is logged and swallowed.
FailJob(w) ==
  LET j == evalWorker[w].j
  IN  /\ evalWorker[w].at = "fail"
      /\ IF Owns(w)
         THEN /\ evalJob' = [evalJob EXCEPT ![j] = [Released(@, "failed") EXCEPT
                           !.report = IF evalWorker[w].report # None THEN evalWorker[w].report ELSE @]]
              /\ cases' = [cases EXCEPT ![j] = FailedCases(@, evalWorker[w].active)]
         ELSE UNCHANGED <<evalJob, cases>>
      /\ WorkerFree(w)
      /\ UNCHANGED faults

-----------------------------------------------------------------------------
(* The heartbeat thread, time, and the worker processes *)

\* A heartbeat renews the lease, also one that has expired unnoticed; a refused
\* or failed one ends the thread and tells the main loop.
Heartbeat(w) ==
  /\ evalWorker[w].beats
  /\ IF Owns(w)
     THEN /\ evalJob' = [evalJob EXCEPT ![evalWorker[w].j].lease = "live"]
          /\ UNCHANGED evalWorker
     ELSE /\ evalWorker' = [evalWorker EXCEPT ![w] = [@ EXCEPT !.beats = FALSE, !.lost = TRUE]]
          /\ UNCHANGED evalJob
  /\ UNCHANGED <<cases, faults>>

HeartbeatFails(w) ==
  /\ evalWorker[w].beats
  /\ evalWorker' = [evalWorker EXCEPT ![w] = [@ EXCEPT !.beats = FALSE, !.lost = TRUE]]
  /\ UNCHANGED <<evalJob, cases, faults>>

LeaseExpires(j) ==
  /\ evalJob[j].lease = "live"
  /\ evalJob' = [evalJob EXCEPT ![j].lease = "expired"]
  /\ UNCHANGED <<cases, evalWorker, faults>>

EvalCrash(w) ==
  /\ evalWorker[w].at # "dead"
  /\ failures < MaxFailures
  /\ WorkerDies(w)
  /\ failures' = failures + 1
  /\ UNCHANGED <<evalJob, cases, lostReplies>>

\* Where an exception out of the repository leads from each place.
AfterException(place) ==
  CASE place \in {"loop", "case", "execute", "complete", "drained", "observe", "finish", "cancel"} -> "error"
    [] place \in {"idle", "claim", "error", "cancel_error"} -> "dead"
    [] place = "partial" -> "fail"
    [] OTHER -> "idle"

ThrownFrom(w) ==
  LET place == AfterException(evalWorker[w].at)
  IN  evalWorker' = [evalWorker EXCEPT ![w] =
        IF place \in {"idle", "dead"} THEN [IdleEvaluator EXCEPT !.at = place] ELSE [@ EXCEPT !.at = place]]

\* The database refuses the next call and rolls it back.
CallFails(w) ==
  /\ evalWorker[w].at # "dead"
  /\ failures < MaxFailures
  /\ ThrownFrom(w)
  /\ failures' = failures + 1
  /\ UNCHANGED <<evalJob, cases, lostReplies>>

\* The next call commits and the connection is lost before the worker knows.
ReplyLost(w) ==
  /\ lostReplies < MaxLostReplies
  /\ \/ /\ evalWorker[w].at = "case" /\ HasNextCase(w)
        /\ cases' = [cases EXCEPT ![evalWorker[w].j][NextCase(w)] = "running"]
        /\ UNCHANGED evalJob
     \/ /\ evalWorker[w].at = "complete" /\ Completable(w)
        /\ SaveObservation(w)
     \/ /\ evalWorker[w].at = "finish" /\ Finishable(w)
        /\ SaveSuccess(w)
        /\ UNCHANGED cases
     \/ /\ evalWorker[w].at \in {"cancel", "cancel_error"} /\ Owns(w)
        /\ SaveCancellation(w)
  /\ ThrownFrom(w)
  /\ lostReplies' = lostReplies + 1
  /\ UNCHANGED failures

\* The supervisor starts a new process.  Its worker_id is new; the fencing
\* token already tells its claims from those of the old one.
Restart(w) ==
  /\ evalWorker[w].at = "dead"
  /\ WorkerFree(w)
  /\ UNCHANGED <<evalJob, cases, faults>>

EvalWorkerStep(w) ==
  \/ Reconcile(w)
  \/ ClaimNext(w)
  \/ NothingToClaim(w)
  \/ CheckLoop(w)
  \/ ClaimCase(w)
  \/ ExecuteCase(w)
  \/ CompleteCase(w)
  \/ CheckDrained(w)
  \/ Observe(w)
  \/ FinishJob(w)
  \/ FinishCancelled(w)
  \/ EvalHandleError(w)
  \/ CancelAfterError(w)
  \/ PartialReport(w)
  \/ FailJob(w)

EvalNext ==
  \/ \E j \in Jobs, b \in Jobs \cup {None} : CreateJob(j, b)
  \/ \E j \in Jobs : CancelJob(j)
  \/ \E j \in Jobs : LeaseExpires(j)
  \/ \E w \in EvalWorkers : EvalWorkerStep(w)
  \/ \E w \in EvalWorkers : Heartbeat(w)
  \/ \E w \in EvalWorkers : HeartbeatFails(w)
  \/ \E w \in EvalWorkers : EvalCrash(w)
  \/ \E w \in EvalWorkers : CallFails(w)
  \/ \E w \in EvalWorkers : ReplyLost(w)
  \/ \E w \in EvalWorkers : Restart(w)

EvalSpec == EvalInit /\ [][EvalNext]_evalVars

\* A lease nobody renews runs out; workers make progress; a dead process is replaced.
Unrenewed(j) == \A w \in EvalWorkers : ~(evalWorker[w].beats /\ evalWorker[w].j = j)

EvalFairness ==
  /\ \A w \in EvalWorkers : WF_evalVars(EvalWorkerStep(w))
  /\ \A w \in EvalWorkers : WF_evalVars(Restart(w))
  /\ \A j \in Jobs : WF_evalVars(Unrenewed(j) /\ LeaseExpires(j))

-----------------------------------------------------------------------------
(* Properties *)

\* Type invariant of the evaluation tables and the worker processes.
EvalTypeOK ==
  /\ evalJob \in [Jobs -> EvalJob]
  /\ cases \in [Jobs -> [Cases -> CaseStatuses]]
  /\ evalWorker \in [EvalWorkers -> EvalWorker]
  /\ failures \in Nat /\ lostReplies \in Nat

\* completed_cases, the progress every reader sees and the gate of finish_job,
\* counts exactly the cases with a saved observation, however often a job was
\* requeued, its cases were claimed again and stale workers reported late.
ProgressIsExact ==
  \A j \in Jobs :
    /\ evalJob[j].completed = Cardinality(evalJob[j].observed)
    /\ {c \in Cases : cases[j][c] = "completed"} \subseteq evalJob[j].observed

\* A job succeeds only with every case completed and a report that covers all
\* of them; a partial report never scores a case that has no observation.
SuccessIsComplete ==
  \A j \in Jobs :
    /\ evalJob[j].status = "succeeded" =>
         /\ evalJob[j].report = Cases
         /\ \A c \in Cases : cases[j][c] = "completed"
    /\ evalJob[j].report # None => evalJob[j].report \subseteq evalJob[j].observed

\* At most one case of a job is in hand, and only while a worker holds the job:
\* a requeue, a cancellation or a takeover never leaves a second one running.
OneCaseInHand ==
  \A j \in Jobs : lostReplies = 0 =>
    /\ Cardinality({c \in Cases : cases[j][c] = "running"}) <= 1
    /\ \A c \in Cases : cases[j][c] = "running" => evalJob[j].status \in {"running", "cancelling"}

\* The case a worker executes or is about to report is still running in its
\* name as long as _assert_owner lets it write: recovery cannot put the case
\* back in the queue, or hand it to another worker, under an accepted owner.
ActiveCaseIsRunning ==
  \A w \in EvalWorkers : evalWorker[w].at \in {"execute", "complete"} /\ Owns(w) =>
    cases[evalWorker[w].j][evalWorker[w].active] = "running"

\* A report rests on exactly the cases that were observed, each by the worker
\* that held the job.
ResultsAreComplete == EvalTypeOK /\ ProgressIsExact /\ SuccessIsComplete /\ OneCaseInHand /\ ActiveCaseIsRunning

\* Every job reaches a final status: a crashed, stalled or failing worker cannot
\* leave it queued, running or cancelling for ever.
EveryJobEnds == \A j \in Jobs : evalJob[j].status # "absent" ~> evalJob[j].status \in Finished

=============================================================================
