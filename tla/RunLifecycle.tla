---------------------------- MODULE RunLifecycle ----------------------------
(***************************************************************************)
(* What the run store promises its callers: the life of each Run, its      *)
(* owner, fencing token and lease, the number of HITL checkpoints it has   *)
(* taken and whether the last one is open, and the queue of its thread.    *)
(* The journal, messages, keys, answers and Skills of RunStore are left    *)
(* out; RunStore implements this module (ImplementsLifecycle), and         *)
(* RunExecution runs the executors against it.                             *)
(***************************************************************************)
EXTENDS RunState, Naturals

CONSTANTS RunIds, Threads, Workers, None

ASSUME LifecycleAssumption ==
  /\ RunIds \subseteq Nat
  /\ None \notin Workers \cup Threads \cup RunIds

VARIABLE row

AbsentRow == [status |-> "absent", thread |-> None, owner |-> None, fence |-> 0,
              lease |-> "none", rounds |-> 0, open |-> FALSE]

Rows == [status : RunStatuses \cup {"absent"}, thread : Threads \cup {None},
         owner : Workers \cup {None}, fence : Nat, lease : {"none", "valid", "expired"},
         rounds : Nat, open : BOOLEAN]

NoRuns == row = [r \in RunIds |-> AbsentRow]

Terminal(r) == row[r].status \in TerminalStatuses

ActiveIn(t) == {r \in RunIds : row[r].thread = t /\ row[r].status \in ActiveStatuses}

QueuedIn(t) == {r \in RunIds : row[r].thread = t /\ row[r].status = "queued"}

FirstOf(S) == {r \in S : \A q \in S : r <= q}

\* A request is admitted: it runs when its thread is idle, otherwise it queues.
Create(r, t, f) ==
  /\ row[r].status = "absent"
  /\ row' = [row EXCEPT ![r] = [AbsentRow EXCEPT
       !.thread = t, !.fence = f,
       !.status = IF ActiveIn(t) = {} THEN "pending" ELSE "queued"]]

\* Faulty variant of Running: the fencing token is not renewed.
RunningUnfenced(r, w) == [row[r] EXCEPT !.status = "running", !.owner = w,
                                        !.lease = "valid"]

Running(r, w) == [row[r] EXCEPT !.status = "running", !.owner = w,
                                !.fence = @ + 1, !.lease = "valid"]

OwnedAlready(r, w) ==
  row[r].status = "running" /\ row[r].owner = w /\ row[r].lease # "expired"

Claimable(r, w) ==
  \/ row[r].status = "pending"
  \/ row[r].status = "running" /\ row[r].lease # "valid" /\ ~OwnedAlready(r, w)

\* claim: a worker takes a pending run, or one whose lease ran out.
Start(r, w) == Claimable(r, w) /\ row' = [row EXCEPT ![r] = Running(r, w)]

\* An answered run is pending again and its last checkpoint is closed.
Answered(r) == row[r].status = "pending" /\ row[r].rounds > 0 /\ ~row[r].open

\* consume_resume by a worker: takes an answered run.
Take(r, w) == Answered(r) /\ row' = [row EXCEPT ![r] = Running(r, w)]

HoldsLive(r, w, f) ==
  row[r].owner = w /\ row[r].fence = f /\ row[r].status \in {"running", "cancelling"}

Renew(r, w, f) == HoldsLive(r, w, f) /\ row' = [row EXCEPT ![r].lease = "valid"]

Expire(r) == row[r].lease = "valid" /\ row' = [row EXCEPT ![r].lease = "expired"]

Pausable(r, w, f, n) ==
  /\ row[r].status = "running" /\ row[r].owner = w /\ row[r].fence = f
  /\ row[r].rounds = n

\* record_pause finds the checkpoint of this round already recorded and open.
PausedAlready(r, f, n) == row[r].fence = f /\ row[r].open /\ n + 1 = row[r].rounds

Pause(r, w, f, n) ==
  /\ Pausable(r, w, f, n)
  /\ row' = [row EXCEPT ![r] = [@ EXCEPT !.status = "waiting_input", !.owner = None,
                                         !.lease = "none", !.rounds = n + 1, !.open = TRUE]]

\* The answer arrives: over HTTP (w = None), or through a worker.
Accept(r, w) ==
  /\ row[r].status = "waiting_input" /\ row[r].open
  /\ row' = [row EXCEPT ![r] =
       IF w = None
       THEN [@ EXCEPT !.status = "pending", !.owner = None, !.lease = "none", !.open = FALSE]
       ELSE [Running(r, w) EXCEPT !.open = FALSE]]

CancelRequestable(r) == row[r].status \in {"pending", "running", "waiting_input"}

RequestCancel(r) ==
  CancelRequestable(r) /\ row' = [row EXCEPT ![r].status = "cancelling"]

\* A run whose cancellation was requested ends as cancelled.
Outcome(r, target) == IF row[r].status = "cancelling" THEN "cancelled" ELSE target

\* Faulty variant of Next1: nobody is promoted by a cancelled run.
Next1Unless(r) ==
  IF row[r].status = "cancelling" THEN {} ELSE FirstOf(QueuedIn(row[r].thread) \ {r})

\* The longest waiting run of the thread takes the place of r.
Next1(r) == FirstOf(QueuedIn(row[r].thread) \ {r})

Finishable(r, target, f) ==
  /\ row[r].status # "absent" /\ ~Terminal(r)
  /\ f \in {None, row[r].fence}
  /\ CanTransition(row[r].status, Outcome(r, target))
  /\ Next1(r) = {} \/ ActiveIn(row[r].thread) \subseteq {r}

Finish(r, target, f) ==
  /\ Finishable(r, target, f)
  /\ row' = [q \in RunIds |->
       CASE q = r           -> [row[r] EXCEPT !.status = Outcome(r, target), !.lease = "none"]
         [] q \in Next1(r)  -> [row[q] EXCEPT !.status = "pending"]
         [] OTHER           -> row[q]]

OrphanedCancelling(r) == row[r].status = "cancelling" /\ row[r].lease = "expired"

\* reconcile_orphans: the owner of an expired lease is taken to be gone.
Orphaned(r) == row[r].status \in {"running", "cancelling"} /\ row[r].lease = "expired"

LifecycleNext ==
  \E r \in RunIds :
    \/ \E t \in Threads : row'[r].fence \in Nat /\ Create(r, t, row'[r].fence)
    \/ \E w \in Workers :
         \/ Start(r, w) \/ Take(r, w)
         \/ Renew(r, w, row[r].fence) \/ Pause(r, w, row[r].fence, row[r].rounds)
    \/ \E w \in Workers \cup {None} : Accept(r, w)
    \/ Expire(r) \/ RequestCancel(r)
    \/ \E target \in TerminalStatuses : Finish(r, target, None)

LifecycleSpec == NoRuns /\ [][LifecycleNext]_row
=============================================================================
