------------------------------ MODULE RunStore ------------------------------
(***************************************************************************)
(* The PostgreSQL side of a Run: the transactions of RunRepository, of     *)
(* HitlCheckpointRepository and of RunEventJournal.append, each one action *)
(* because each holds the Run row (and, where it creates or finishes a     *)
(* run, the Thread row) FOR UPDATE until it commits.  A call the code      *)
(* refuses with an AppError changes nothing, so it is simply not enabled;  *)
(* the Can... operators name the refusal conditions for the callers that   *)
(* react to them.                                                          *)
(*                                                                         *)
(* Callers are unconstrained here: any worker may present any fencing      *)
(* token at any time.  RunExecution restricts them to what the executors,  *)
(* dispatchers and HTTP handlers really do.                                *)
(*                                                                         *)
(* Time is abstract: a lease is "none" (NULL), "valid" or "expired", and   *)
(* LeaseExpires may fire whenever a lease is valid, because nothing in the *)
(* code bounds how late a heartbeat can be.  Runs are named by the order   *)
(* in which their requests read the clock (created_at, repository.py:390), *)
(* which is before the Thread lock: run 2 may well be reserved first.      *)
(***************************************************************************)
EXTENDS RunState, Naturals, Sequences, FiniteSets

CONSTANTS
  RunIds,      \* numbers of the requests, in the order of their created_at
  Threads,
  Workers,     \* executor identities; a restarted process has a new one
  Keys,        \* idempotency keys of create_run
  ResumeKeys,  \* idempotency keys of resume
  Answers,     \* HITL answers
  Skills,      \* (name, version, hash, source) snapshots a run may be pinned to
  None,        \* SQL NULL
  MaxEvents,   \* bound: no claim, pause, resume or progress beyond this length
  MaxRounds    \* bound: HITL rounds of one run

ASSUME RunIdsAssumption == RunIds \subseteq Nat

ASSUME NoneAssumption ==
  /\ None \notin Workers \cup Threads \cup Keys \cup ResumeKeys \cup Answers \cup Skills
  /\ None \notin RunIds

ASSUME BoundsAssumption == MaxEvents \in Nat /\ MaxRounds \in Nat

VARIABLES
  run,         \* the runs table with its assistant message status
  checkpoints, \* run_checkpoints of each run, in insertion order
  events,      \* run_events of each run, in sequence order
  version      \* threads.version (= last_sequence = message_count here)

storeVars == <<run, checkpoints, events, version>>

LeaseStates == {"none", "valid", "expired"}

MessageStatuses == {"none", "queued", "streaming", "waiting_input", "completed",
                    "incomplete", "failed", "cancelled"}

EventTypes == {"run.created", "run.started", "run.waiting_input", "hitl.required",
               "hitl.resumed", "warning.created", "progress", "message.completed",
               "run.completed", "run.failed", "run.cancelled"}

TerminalEvents == {"run.completed", "run.failed", "run.cancelled"}

\* A journal row; fence is the token of the run when the row was written.
Event == [type : EventTypes, fence : Nat]

Checkpoint == [consumed : BOOLEAN, key : ResumeKeys \cup {None},
               answer : Answers \cup {None}, done : BOOLEAN]

RunRecord == [status : RunStatuses \cup {"absent"}, thread : Threads \cup {None},
              key : Keys \cup {None}, supersedes : RunIds \cup {None},
              owner : Workers \cup {None}, fence : Nat, lease : LeaseStates,
              message : MessageStatuses, skill : Skills \cup {None}]

AbsentRun == [status |-> "absent", thread |-> None, key |-> None, supersedes |-> None,
              owner |-> None, fence |-> 0, lease |-> "none", message |-> "none",
              skill |-> None]

Init ==
  /\ run = [r \in RunIds |-> AbsentRun]
  /\ checkpoints = [r \in RunIds |-> <<>>]
  /\ events = [r \in RunIds |-> <<>>]
  /\ version = [t \in Threads |-> 0]

-----------------------------------------------------------------------------
(* Helpers *)

Exists(r) == run[r].status # "absent"

RunsOf(t) == {r \in RunIds : run[r].thread = t}

ActiveRuns(t) == {r \in RunsOf(t) : run[r].status \in ActiveStatuses}

QueuedRuns(t) == {r \in RunsOf(t) : run[r].status = "queued"}

\* ORDER BY created_at ASC LIMIT 1: empty or a singleton.
Oldest(S) == {r \in S : \A q \in S : r <= q}

\* append_event_in_session for each of the given types, in order.
WithEvents(r, types, fence) ==
  events[r] \o [i \in 1..Len(types) |-> [type |-> types[i], fence |-> fence]]

\* A repetition bound, not a condition of the code.
Room(r) == Len(events[r]) < MaxEvents

-----------------------------------------------------------------------------
(* RunRepository *)

CanReserve(r, t, k, strategy, expected) ==
  /\ ~Exists(r)
  /\ \A q \in RunsOf(t) : run[q].key # k
  /\ expected \in {None, version[t]}
  /\ ActiveRuns(t) # {} => strategy # "reject"

\* The rows reserve inserts: a run that starts, or one that waits in the queue.
StartableRun(t, k) ==
  [AbsentRun EXCEPT !.status = "pending", !.message = "streaming",
                    !.thread = t, !.key = k, !.fence = version[t] + 2]

QueuedRun(t, k, superseded) ==
  [AbsentRun EXCEPT !.status = "queued", !.message = "queued",
                    !.thread = t, !.key = k, !.fence = version[t] + 2,
                    !.supersedes = superseded]

Reserve(r, t, k, strategy, expected) ==
  /\ CanReserve(r, t, k, strategy, expected)
  /\ version' = [version EXCEPT ![t] = @ + 2]
  /\ \/ /\ ActiveRuns(t) = {}
        /\ run' = [run EXCEPT ![r] = StartableRun(t, k)]
     \/ \E active \in Oldest(ActiveRuns(t)) :
          run' = [run EXCEPT ![r] =
                    QueuedRun(t, k, IF strategy = "cancel_previous" THEN active ELSE None)]
  /\ events' = [events EXCEPT ![r] = WithEvents(r, <<"run.created">>, version[t] + 2)]
  /\ UNCHANGED checkpoints

\* The tail of claim and of the two worker branches of consume_resume.
StartedBy(r, w) == [run[r] EXCEPT !.status = "running", !.owner = w,
                                  !.fence = @ + 1, !.lease = "valid"]

\* Asking again for a run one already owns changes nothing.
AlreadyClaimed(r, w) ==
  run[r].status = "running" /\ run[r].owner = w /\ run[r].lease # "expired"

\* Faulty variant of CanClaim: a waiting run looks claimable.
ClaimsWaiting(r, w) == run[r].status \in {"pending", "waiting_input"}

\* claim takes a pending run, or a running one whose lease is not in force.
CanClaim(r, w) ==
  \/ run[r].status = "pending"
  \/ run[r].status = "running" /\ run[r].lease # "valid" /\ ~AlreadyClaimed(r, w)

Claim(r, w) ==
  /\ Room(r)
  /\ CanClaim(r, w)
  /\ run' = [run EXCEPT ![r] = StartedBy(r, w)]
  /\ events' = [events EXCEPT ![r] = WithEvents(r, <<"run.started">>, run[r].fence + 1)]
  /\ UNCHANGED <<checkpoints, version>>

\* Faulty variant of OwnsLive: the fence is not compared.
OwnsByName(r, w, f) == run[r].owner = w /\ run[r].status \in {"running", "cancelling"}

\* heartbeat, and the owner test of RunEventJournal.append.
OwnsLive(r, w, f) ==
  /\ run[r].owner = w
  /\ run[r].fence = f
  /\ run[r].status \in {"running", "cancelling"}

Heartbeat(r, w, f) ==
  /\ OwnsLive(r, w, f)
  /\ run' = [run EXCEPT ![r].lease = "valid"]
  /\ UNCHANGED <<checkpoints, events, version>>

Publish(r, w, f) ==
  /\ Room(r)
  /\ OwnsLive(r, w, f)
  /\ events' = [events EXCEPT ![r] = WithEvents(r, <<"progress">>, f)]
  /\ UNCHANGED <<run, checkpoints, version>>

\* load_execution_snapshot, pin_skill_activation and record_tool_audit.
OwnsRunning(r, w, f) ==
  /\ run[r].owner = w
  /\ run[r].fence = f
  /\ run[r].status = "running"

PinSkill(r, w, f, s) ==
  /\ OwnsRunning(r, w, f)
  /\ run[r].skill = None
  /\ run' = [run EXCEPT ![r].skill = s]
  /\ UNCHANGED <<checkpoints, events, version>>

\* The effect of record_pause on the row (and of set_waiting_input, which no
\* production code calls).
Paused(r) == [run[r] EXCEPT !.status = "waiting_input", !.owner = None,
                            !.lease = "none", !.message = "waiting_input"]

CanMarkCancelling(r) ==
  /\ run[r].status \notin TerminalStatuses \cup {"cancelling"}
  /\ CanTransition(run[r].status, "cancelling")

\* mark_cancelling leaves the owner and the lease as they are.
MarkCancelling(r) ==
  /\ CanMarkCancelling(r)
  /\ run' = [run EXCEPT ![r].status = "cancelling"]
  /\ events' = [events EXCEPT ![r] = WithEvents(r, <<"warning.created">>, run[r].fence)]
  /\ UNCHANGED <<checkpoints, version>>

MessageStatus(target, partial) ==
  IF partial THEN "incomplete"
  ELSE CASE target = "succeeded" -> "completed"
         [] target = "cancelled" -> "cancelled"
         [] OTHER                -> "failed"

TerminalEvent(target) ==
  CASE target = "succeeded" -> "run.completed"
    [] target = "failed"    -> "run.failed"
    [] OTHER                -> "run.cancelled"

\* Faulty variant of FinalStatus: the caller's target is taken as it is.
FinalStatusAsAsked(r, target) == target

\* A cancelling run ends as cancelled whatever the caller asked for.
FinalStatus(r, target) == IF run[r].status = "cancelling" THEN "cancelled" ELSE target

FinalPartial(r, target, partial) ==
  partial \/ (run[r].status = "cancelling" /\ target # "cancelled")

\* Faulty variant of Promoted: only a finished execution wakes the queue.
PromotedAfterExecution(r) ==
  IF run[r].owner = None THEN {} ELSE Oldest(QueuedRuns(run[r].thread) \ {r})

\* _promote_next_queued: the oldest queued run of the thread, other than r.
Promoted(r) == Oldest(QueuedRuns(run[r].thread) \ {r})

\* Faulty variant of PromotionFits: the unique index is missing.
PromotionUnchecked(r) == TRUE

\* uq_runs_one_active_per_thread: promoting next to another active run violates
\* the partial unique index, and the transaction rolls back.
PromotionFits(r) ==
  Promoted(r) = {} \/ ActiveRuns(run[r].thread) \subseteq {r}

\* finalize, for a run that is not terminal yet (a repeated finalize with the
\* same target returns the row unchanged, one with another target is refused).
CanFinalize(r, target, f) ==
  /\ Exists(r) /\ run[r].status \notin TerminalStatuses
  /\ f \in {None, run[r].fence}
  /\ CanTransition(run[r].status, FinalStatus(r, target))
  /\ PromotionFits(r)

Ended(r, target, partial) ==
  [run[r] EXCEPT !.status = FinalStatus(r, target), !.lease = "none",
                 !.message = MessageStatus(FinalStatus(r, target),
                                           FinalPartial(r, target, partial))]

Woken(q) == [run[q] EXCEPT !.status = "pending", !.message = "streaming"]

Finalize(r, target, f, partial) ==
  /\ CanFinalize(r, target, f)
  /\ run' = [q \in RunIds |-> CASE q = r            -> Ended(r, target, partial)
                               [] q \in Promoted(r) -> Woken(q)
                               [] OTHER            -> run[q]]
  /\ events' = [events EXCEPT ![r] =
       WithEvents(r, <<"message.completed", TerminalEvent(FinalStatus(r, target))>>,
                  run[r].fence)]
  /\ UNCHANGED <<checkpoints, version>>

\* finalize as reconcile_orphans calls it: the lease must still be expired.
FinalizeOrphan(r, f) ==
  /\ run[r].status \in {"running", "cancelling"}
  /\ run[r].lease = "expired"
  /\ f # None
  /\ Finalize(r, "failed", f, TRUE)

-----------------------------------------------------------------------------
(* HitlCheckpointRepository *)

\* checkpoint_id is run:hitl:round with round = number of answers so far, so the
\* round-th checkpoint sits at index round + 1.
CanPause(r, w, f, round) ==
  /\ round = Len(checkpoints[r])
  /\ OwnsRunning(r, w, f)

\* A pause whose checkpoint is there and still open returns it unchanged.
RecordPause(r, w, f, round) ==
  /\ Room(r) /\ round < MaxRounds
  /\ CanPause(r, w, f, round)
  /\ run' = [run EXCEPT ![r] = Paused(r)]
  /\ checkpoints' = [checkpoints EXCEPT ![r] =
       Append(@, [consumed |-> FALSE, key |-> None, answer |-> None, done |-> FALSE])]
  /\ events' = [events EXCEPT ![r] =
       WithEvents(r, <<"run.waiting_input", "hitl.required">>, f)]
  /\ UNCHANGED version

KeyFree(r, i, k) == \A j \in DOMAIN checkpoints[r] : j # i => checkpoints[r][j].key # k

\* consume_resume, checkpoint still open.  worker = None is the HTTP handler
\* (RunResumeCoordinator.accept), which re-queues the run.
CanAccept(r, i, k) ==
  /\ i \in DOMAIN checkpoints[r]
  /\ ~checkpoints[r][i].consumed
  /\ run[r].status = "waiting_input"
  /\ KeyFree(r, i, k)

ConsumeResume(r, i, k, a, w) ==
  /\ Room(r)
  /\ CanAccept(r, i, k)
  /\ checkpoints' = [checkpoints EXCEPT ![r][i] = [@ EXCEPT !.consumed = TRUE,
                                                    !.key = k, !.answer = a]]
  /\ LET resumed == IF w = None
                    THEN [run[r] EXCEPT !.status = "pending", !.owner = None, !.lease = "none"]
                    ELSE StartedBy(r, w)
     IN /\ run' = [run EXCEPT ![r] = [resumed EXCEPT !.message = "streaming"]]
        /\ events' = [events EXCEPT ![r] =
             WithEvents(r, IF w = None THEN <<"hitl.resumed">>
                           ELSE <<"hitl.resumed", "run.started">>, resumed.fence)]
  /\ UNCHANGED version

SameResume(r, i, k, a) ==
  /\ i \in DOMAIN checkpoints[r]
  /\ checkpoints[r][i].consumed
  /\ checkpoints[r][i].key = k /\ checkpoints[r][i].answer = a

\* consume_resume by a worker, checkpoint consumed before: takes the pending run.
CanTakeResume(r, i, k, a) ==
  /\ SameResume(r, i, k, a)
  /\ i = Len(checkpoints[r])
  /\ run[r].status = "pending"

\* The worker that already runs the resumed run changes nothing by asking again.
TakeResume(r, i, k, a, w) ==
  /\ Room(r)
  /\ CanTakeResume(r, i, k, a)
  /\ run' = [run EXCEPT ![r] = StartedBy(r, w)]
  /\ events' = [events EXCEPT ![r] = WithEvents(r, <<"run.started">>, run[r].fence + 1)]
  /\ UNCHANGED <<checkpoints, version>>

\* record_resume_result: an unstarted status is accepted as long as the fence is.
RecordResumeResult(r, i, w, f) ==
  /\ i \in DOMAIN checkpoints[r]
  /\ run[r].fence = f
  /\ run[r].status = "running" => run[r].owner = w
  /\ checkpoints' = [checkpoints EXCEPT ![r][i].done = TRUE]
  /\ UNCHANGED <<run, events, version>>

-----------------------------------------------------------------------------
\* Time passes: a lease that nobody renewed runs out.
LeaseExpires(r) ==
  /\ run[r].lease = "valid"
  /\ run' = [run EXCEPT ![r].lease = "expired"]
  /\ UNCHANGED <<checkpoints, events, version>>

Fences(r) == {run[r].fence} \cup {events[r][i].fence : i \in DOMAIN events[r]}

WorkerNext(r, w) ==
  \/ Claim(r, w)
  \/ \E f \in Fences(r) :
       \/ Heartbeat(r, w, f)
       \/ Publish(r, w, f)
       \/ \E s \in Skills : PinSkill(r, w, f, s)
       \/ \E round \in 0..Len(checkpoints[r]) : RecordPause(r, w, f, round)
       \/ \E i \in DOMAIN checkpoints[r] : RecordResumeResult(r, i, w, f)
  \/ \E i \in DOMAIN checkpoints[r], k \in ResumeKeys, a \in Answers :
       TakeResume(r, i, k, a, w)

RequestNext(r) ==
  \/ \E t \in Threads, k \in Keys, s \in MultitaskStrategies :
       \E expected \in {None, version[t]} : Reserve(r, t, k, s, expected)
  \/ MarkCancelling(r)
  \/ \E i \in DOMAIN checkpoints[r], k \in ResumeKeys, a \in Answers,
        w \in Workers \cup {None} : ConsumeResume(r, i, k, a, w)

\* complete_run never passes partial, both cancel paths always do.
FinishNext(r) ==
  \/ \E f \in Fences(r) \cup {None} :
       \/ Finalize(r, "succeeded", f, FALSE)
       \/ \E partial \in BOOLEAN : Finalize(r, "failed", f, partial)
       \/ Finalize(r, "cancelled", f, TRUE)
  \/ \E f \in Fences(r) : FinalizeOrphan(r, f)

Next ==
  \E r \in RunIds :
    \/ RequestNext(r)
    \/ \E w \in Workers : WorkerNext(r, w)
    \/ FinishNext(r)
    \/ LeaseExpires(r)

Spec == Init /\ [][Next]_storeVars

-----------------------------------------------------------------------------
(* Properties *)

\* Every row has the shape the schema gives it.
TypeOK ==
  /\ run \in [RunIds -> RunRecord]
  /\ checkpoints \in [RunIds -> Seq(Checkpoint)]
  /\ events \in [RunIds -> Seq(Event)]
  /\ version \in [Threads -> Nat]

\* Runs of a thread execute one at a time: reserve enqueues behind the active
\* run and finalize promotes only when no other run of the thread is active.
OneActivePerThread ==
  \A r, q \in RunIds :
    (/\ run[r].thread = run[q].thread
     /\ run[r].status \in ActiveStatuses /\ run[q].status \in ActiveStatuses) => r = q

\* A queued run always has an active run ahead of it whose finalize will
\* promote it: no interleaving of reserve, cancel and finalize strands a queue.
NoStrandedQueue ==
  \A r \in RunIds : run[r].status = "queued" =>
    \E q \in RunIds : run[q].thread = run[r].thread /\ run[q].status \in ActiveStatuses

\* The runs of a thread take turns: one at a time, and every one gets its turn.
QueueIsSound == OneActivePerThread /\ NoStrandedQueue

\* Ownership columns agree with the status: a running run has an owner and a
\* lease to expire, a run that waits for a worker or for input has neither.
OwnershipConsistent ==
  \A r \in RunIds :
    /\ run[r].status = "running" => run[r].owner # None /\ run[r].lease # "none"
    /\ run[r].status \in {"queued", "pending", "waiting_input"} =>
         run[r].owner = None /\ run[r].lease = "none"
    /\ run[r].status \in TerminalStatuses => run[r].lease = "none"

\* The journal of a run ends with exactly one terminal event, written with its
\* message.completed, and only when the run is terminal: finalize is the only
\* writer of either and no publisher gets in after it.
TerminalEventLast ==
  \A r \in RunIds :
    /\ run[r].status \in TerminalStatuses =>
         /\ Len(events[r]) > 1
         /\ events[r][Len(events[r])].type = TerminalEvent(run[r].status)
         /\ events[r][Len(events[r]) - 1].type = "message.completed"
    /\ \A i \in 1..Len(events[r]) :
         events[r][i].type \in TerminalEvents =>
           i = Len(events[r]) /\ run[r].status \in TerminalStatuses

\* Events of two executions of a run never interleave: what a worker publishes
\* carries the fence of the latest run.started before it, so a worker that was
\* superseded adds nothing after its successor has started.
NoInterleavedExecutions ==
  \A r \in RunIds : \A i, j \in 1..Len(events[r]) :
    (i < j /\ events[r][i].type = "run.started" /\ events[r][j].type = "progress")
      => events[r][i].fence <= events[r][j].fence

\* Nothing is published between run.waiting_input and the next run.started.
QuietWhileWaiting ==
  \A r \in RunIds : \A i, j \in 1..Len(events[r]) :
    (i < j /\ events[r][i].type = "run.waiting_input" /\ events[r][j].type = "progress")
      => \E k \in i..j : events[r][k].type = "run.started"

\* The journal of a run reads as its executions one after the other, each closed
\* before the next: what a superseded or a paused worker sends is not in it.
ExecutionsFollow == NoInterleavedExecutions /\ QuietWhileWaiting

\* A run waits for input exactly while its latest checkpoint is open, and no
\* earlier checkpoint is ever open.
OneOpenCheckpoint ==
  \A r \in RunIds :
    /\ run[r].status = "waiting_input" =>
         checkpoints[r] # <<>> /\ ~checkpoints[r][Len(checkpoints[r])].consumed
    /\ run[r].status \in {"pending", "running"} =>
         \A i \in DOMAIN checkpoints[r] : checkpoints[r][i].consumed
    /\ \A i \in DOMAIN checkpoints[r] :
         ~checkpoints[r][i].consumed => i = Len(checkpoints[r])

\* The assistant message tells the reader what the run is doing.
MessageAgrees ==
  \A r \in RunIds :
    /\ run[r].status = "queued" => run[r].message = "queued"
    /\ run[r].status \in {"pending", "running"} => run[r].message = "streaming"
    /\ run[r].status = "waiting_input" => run[r].message = "waiting_input"
    /\ run[r].status = "succeeded" <=> run[r].message = "completed"
    /\ run[r].status = "cancelled" => run[r].message \in {"cancelled", "incomplete"}
    /\ run[r].status = "failed" => run[r].message \in {"failed", "incomplete"}

\* The row, the journal, the message and the checkpoints of a run tell the same
\* story, although six transactions of as many callers write them.
RowsAgree == OwnershipConsistent /\ TerminalEventLast /\ OneOpenCheckpoint /\ MessageAgrees

\* A terminal run is never reopened, rewritten or written to.
TerminalIsFinal ==
  [][\A r \in RunIds : run[r].status \in TerminalStatuses =>
        run'[r] = run[r] /\ events'[r] = events[r]]_storeVars

\* Once cancellation is durable it wins over completion and over failure.
CancelWins ==
  [][\A r \in RunIds : run[r].status = "cancelling" =>
        run'[r].status \in {"cancelling", "cancelled"}]_storeVars

\* The fence never goes back, and a change of owner to another worker moves it.
FenceGuardsOwnership ==
  [][\A r \in RunIds :
       /\ run'[r].fence >= run[r].fence
       /\ (run'[r].owner # run[r].owner /\ run'[r].owner # None)
            => run'[r].fence > run[r].fence]_storeVars

\* What was decided about a run stands: an ending, a cancellation, a takeover.
DecisionsStand == TerminalIsFinal /\ CancelWins /\ FenceGuardsOwnership

-----------------------------------------------------------------------------
(* RunStore implements RunLifecycle: the row of a run is its status, thread    *)
(* and ownership columns plus the number of its checkpoints and whether the    *)
(* last of them still waits for its answer.                                    *)

RowOf(r) == [status |-> run[r].status, thread |-> run[r].thread, owner |-> run[r].owner,
             fence |-> run[r].fence, lease |-> run[r].lease,
             rounds |-> Len(checkpoints[r]),
             open |-> checkpoints[r] # <<>> /\ ~checkpoints[r][Len(checkpoints[r])].consumed]

AbstractRows == [r \in RunIds |-> RowOf(r)]

Lifecycle == INSTANCE RunLifecycle WITH row <- AbstractRows

\* Every transaction of the repositories is a step of the run's life cycle or
\* leaves it alone: publishing, pinning a Skill and recording a resume result
\* change no row, and no transaction moves a run in a way its life cycle does not.
ImplementsLifecycle == Lifecycle!LifecycleSpec
=============================================================================
