---------------------------- MODULE RunExecution ----------------------------
(***************************************************************************)
(* The processes that act on Runs: HTTP handlers, RunAgentExecutor with    *)
(* its tasks, heartbeats and dispatcher, and RunExecutionManager with the  *)
(* cancellation registry.  The store they share is RunLifecycle; every     *)
(* step below makes at most one store transaction, so the state a task     *)
(* read may be stale when it acts.                                         *)
(*                                                                         *)
(* asyncio cannot stop a thread: a store call made with to_thread goes on  *)
(* after its task was cancelled.  Such calls are kept in strays.           *)
(***************************************************************************)
EXTENDS RunLifecycle, FiniteSets

CONSTANTS
  Slots,        \* max_concurrent_runs of an executor
  Settings      \* bounds of a behaviour: workers that may crash (a successor is
                \* another worker), that may be shut down, whose recovery pass runs
                \* at all; HITL rounds of a run, cancel requests and replayed POSTs

ASSUME ExecutionAssumption ==
  /\ Slots \in Nat \ {0}
  /\ \A s \in Settings : /\ s.crashing \cup s.closing \cup s.dispatching \subseteq Workers
                          /\ s.rounds \in Nat /\ s.requests \in Nat

VARIABLES
  phase,       \* "up", "closing" or "down", per worker
  task,        \* the executor's task for a run, per worker and run
  dispatcher,  \* where the recovery pass of a worker stands, with its stale list
  calls,       \* HTTP handlers between two of their awaits
  strays,      \* store calls whose task was cancelled
  flag,        \* the Redis key run_cancelled, per run
  asked,       \* runs whose cancellation some client requested
  requests,    \* cancel requests and replayed POSTs so far
  setting      \* one of Settings, the same throughout

execVars == <<phase, task, dispatcher, calls, strays, flag, asked, requests>>
allVars == <<row, execVars>>

Crashing == setting.crashing
Closing == setting.closing
Dispatching == setting.dispatching
MaxRounds == setting.rounds
MaxRequests == setting.requests

NoTask == [kind |-> "none", pc |-> "none", fence |-> 0, round |-> 0,
           reason |-> "none", later |-> 0]

\* Between two passes.
Idle == [pc |-> "spawning", todo |-> {}]

Init ==
  /\ NoRuns
  /\ phase = [w \in Workers |-> "up"]
  /\ task = [w \in Workers |-> [r \in RunIds |-> NoTask]]
  /\ dispatcher = [w \in Workers |-> Idle]
  /\ calls = {} /\ strays = {}
  /\ flag = [r \in RunIds |-> FALSE]
  /\ asked = {} /\ requests = 0
  /\ setting \in Settings

-----------------------------------------------------------------------------
(* RunAgentExecutor: scheduling *)

\* A run is known to an executor until its managed() coroutine ends.
HasTask(w, r) == task[w][r].pc # "none"

Scheduled(kind, round) == [NoTask EXCEPT !.kind = kind, !.pc = "waiting", !.round = round]

\* spawn_once: nothing happens in a closing executor or next to a live task.
SpawnOnce(w, r) ==
  IF phase[w] = "up" /\ ~HasTask(w, r)
  THEN [task EXCEPT ![w][r] = Scheduled("execute", 0)] ELSE task

\* resume_once: next to a live execution the answer is kept for its end, next
\* to a live resume it is dropped.  n numbers the checkpoint that was answered.
ResumeOnce(w, r, n) ==
  IF phase[w] # "up" THEN task
  ELSE IF ~HasTask(w, r) THEN [task EXCEPT ![w][r] = Scheduled("resume", n)]
  ELSE IF task[w][r].kind = "execute" THEN [task EXCEPT ![w][r].later = n]
  ELSE task

\* The finally clause of managed(): the kept answer is scheduled.
EndedTask(w, r) ==
  IF phase[w] = "up" /\ task[w][r].later > 0
  THEN Scheduled("resume", task[w][r].later) ELSE NoTask

Move(w, r, tk) == task' = [task EXCEPT ![w][r] = tk]

Goto(w, r, pc) == Move(w, r, [task[w][r] EXCEPT !.pc = pc])

\* The manager is done with the run; what is left is _dispatch_next.
Leaving(w, r) == [NoTask EXCEPT !.kind = task[w][r].kind, !.pc = "dispatching",
                                !.later = task[w][r].later]

At(w, r, pc) == phase[w] # "down" /\ task[w][r].pc = pc

\* Tasks inside `async with self._semaphore`.
Executing(w) == {r \in RunIds : task[w][r].pc \notin {"none", "waiting"}}

RestUnchanged == UNCHANGED <<phase, dispatcher, calls, strays, flag, asked, requests>>

\* execute: claim, or return when the run is not to be had.
BeginExecute(w, r) ==
  /\ At(w, r, "waiting") /\ task[w][r].kind = "execute"
  /\ Cardinality(Executing(w)) < Slots
  /\ \/ /\ Start(r, w)
        /\ Move(w, r, [task[w][r] EXCEPT !.pc = "claimed", !.fence = row'[r].fence])
     \/ /\ OwnedAlready(r, w)
        /\ Move(w, r, [task[w][r] EXCEPT !.pc = "claimed", !.fence = row[r].fence])
        /\ UNCHANGED row
     \/ /\ ~Claimable(r, w) /\ ~OwnedAlready(r, w)
        /\ Move(w, r, EndedTask(w, r))
        /\ UNCHANGED row
  /\ RestUnchanged

\* resume: consume_resume with this worker, for the checkpoint it was given.
BeginResume(w, r) ==
  LET latest == row[r].rounds = task[w][r].round /\ ~row[r].open
  IN /\ At(w, r, "waiting") /\ task[w][r].kind = "resume"
     /\ Cardinality(Executing(w)) < Slots
     /\ \/ /\ latest /\ Take(r, w)
           /\ Move(w, r, [task[w][r] EXCEPT !.pc = "claimed", !.fence = row'[r].fence])
        \/ /\ latest /\ row[r].status = "running" /\ row[r].owner = w
           /\ Move(w, r, [task[w][r] EXCEPT !.pc = "claimed", !.fence = row[r].fence])
           /\ UNCHANGED row
        \/ /\ ~latest \/ ~(Answered(r) \/ (row[r].status = "running" /\ row[r].owner = w))
           /\ Move(w, r, NoTask)
           /\ UNCHANGED row
     /\ RestUnchanged

-----------------------------------------------------------------------------
(* RunExecutionManager.execute around the runner *)

Owns(w, r) ==
  row[r].status = "running" /\ row[r].owner = w /\ row[r].fence = task[w][r].fence

\* register looks at the Redis key; then the runner loads its snapshot.
Register(w, r) ==
  /\ At(w, r, "claimed")
  /\ \/ flag[r] /\ Move(w, r, [task[w][r] EXCEPT !.pc = "interrupted", !.reason = "user"])
     \/ ~flag[r] /\ Owns(w, r) /\ Goto(w, r, "working")
     \/ ~flag[r] /\ ~Owns(w, r) /\ Goto(w, r, "failing")
  /\ UNCHANGED row /\ RestUnchanged

\* The agent produced its answer, or failed.
WorkEnds(w, r) ==
  /\ At(w, r, "working")
  /\ Goto(w, r, "completing") \/ Goto(w, r, "failing")
  /\ UNCHANGED row /\ RestUnchanged

\* The RAG graph asks the user: record_pause for the round it is in.
WorkPauses(w, r) ==
  LET n == task[w][r].round
      f == task[w][r].fence
  IN /\ At(w, r, "working") /\ n < MaxRounds
     /\ \/ Pause(r, w, f, n) /\ Goto(w, r, "paused")
        \/ PausedAlready(r, f, n) /\ Goto(w, r, "paused") /\ UNCHANGED row
        \/ /\ ~Pausable(r, w, f, n) /\ ~PausedAlready(r, f, n)
           /\ Goto(w, r, "failing") /\ UNCHANGED row
     /\ RestUnchanged

\* The waiting_input outcome is checked against the row; a text delta that was
\* still buffered when the pause committed is refused and fails the execution.
AfterPause(w, r) ==
  /\ At(w, r, "paused")
  /\ \/ /\ row[r].status \in {"waiting_input", "pending", "running"}
        /\ Move(w, r, Leaving(w, r))
     \/ /\ \/ row[r].status \notin {"waiting_input", "pending", "running"}
           \/ task[w][r].kind = "execute" /\ ~HoldsLive(r, w, task[w][r].fence)
        /\ Goto(w, r, "failing")
  /\ UNCHANGED row /\ RestUnchanged

EndedAs(r, target, f) == row[r].status = target /\ row[r].fence = f

\* finalize by a task: done, found done, or refused.
Conclude(w, r, target, refused) ==
  LET f == task[w][r].fence
  IN \/ Finish(r, target, f) /\ Move(w, r, Leaving(w, r))
     \/ EndedAs(r, target, f) /\ Move(w, r, Leaving(w, r)) /\ UNCHANGED row
     \/ /\ ~Finishable(r, target, f) /\ ~EndedAs(r, target, f)
        /\ Move(w, r, refused) /\ UNCHANGED row

CompleteRun(w, r) ==
  /\ At(w, r, "completing")
  /\ Conclude(w, r, "succeeded", [task[w][r] EXCEPT !.pc = "failing"])
  /\ RestUnchanged

\* A refusal escapes from execute and skips _dispatch_next.
FailRun(w, r) ==
  /\ At(w, r, "failing")
  /\ Conclude(w, r, "failed", EndedTask(w, r))
  /\ RestUnchanged

\* Faulty variant of InterruptTarget: a shutdown is taken for a user's cancel.
InterruptTargetAlways(reason) == "cancelled"

InterruptTarget(reason) == IF reason = "user" THEN "cancelled" ELSE "failed"

\* The CancelledError branch; a conflict with a terminal run is ignored.
EndInterrupted(w, r) ==
  /\ At(w, r, "interrupted")
  /\ IF task[w][r].reason = "ownership_lost"
     THEN Move(w, r, Leaving(w, r)) /\ UNCHANGED row
     ELSE Conclude(w, r, InterruptTarget(task[w][r].reason),
                   IF Terminal(r) THEN Leaving(w, r)
                   ELSE EndedTask(w, r))
  /\ RestUnchanged

\* _dispatch_next: the oldest pending run of the thread is spawned here.
DispatchNext(w, r) ==
  LET pending == FirstOf({q \in ActiveIn(row[r].thread) : row[q].status = "pending"})
  IN /\ At(w, r, "dispatching")
     /\ task' = [task EXCEPT ![w] = [q \in RunIds |->
          CASE q = r                              -> EndedTask(w, r)
            [] q # r /\ q \in pending             -> SpawnOnce(w, q)[w][q]
            [] OTHER                              -> task[w][q]]]
     /\ UNCHANGED row /\ RestUnchanged

-----------------------------------------------------------------------------
(* CancellationRegistry *)

Registered(w, r) ==
  task[w][r].pc \in {"working", "paused", "completing", "failing", "interrupted"}

Priority(reason) ==
  CASE reason = "none" -> 0 [] reason = "shutdown" -> 1
    [] reason = "user" -> 2 [] OTHER -> 3

Stronger(old, new) == IF Priority(new) > Priority(old) THEN new ELSE old

\* cancel_local: the manager's task gets CancelledError at its await.  In the
\* middle of an error handler nothing catches it and the task ends.
CancelledTask(w, r, reason) ==
  IF ~Registered(w, r) THEN task[w][r]
  ELSE IF task[w][r].pc \in {"failing", "interrupted"} THEN EndedTask(w, r)
  ELSE [task[w][r] EXCEPT !.pc = "interrupted", !.reason = Stronger(@, reason)]

Stray(w, r, op) == [at |-> w, run |-> r, op |-> op,
                    fence |-> task[w][r].fence, round |-> task[w][r].round]

\* The store call that is on its way when the task is cancelled, if there is
\* one.  A call under an old token can never take effect and is left out.
LeftBehind(w, r) ==
  LET pc == task[w][r].pc
      op == CASE pc = "working" -> "pause" [] pc = "completing" -> "succeeded"
              [] pc = "failing" -> "failed"
              [] pc = "interrupted" -> InterruptTarget(task[w][r].reason)
              [] pc = "waiting" -> task[w][r].kind
              [] OTHER -> "none"
  IN IF op = "none" \/ task[w][r].fence \notin {0, row[r].fence}
     THEN {{}} ELSE {{}, {Stray(w, r, op)}}

\* A stray call takes effect or is refused; either way nobody hears of it.
StrayEffect(s) ==
  CASE s.op = "execute" -> Start(s.run, s.at)
    [] s.op = "resume" -> row[s.run].rounds = s.round /\ Take(s.run, s.at)
    [] s.op = "pause" -> s.round < MaxRounds /\ Pause(s.run, s.at, s.fence, s.round)
    [] OTHER -> Finish(s.run, s.op, s.fence)

StrayReady(s) ==
  CASE s.op = "execute" -> Claimable(s.run, s.at)
    [] s.op = "resume" -> row[s.run].rounds = s.round /\ Answered(s.run)
    [] s.op = "pause" -> s.round < MaxRounds /\ Pausable(s.run, s.at, s.fence, s.round)
    [] OTHER -> Finishable(s.run, s.op, s.fence)

StrayCall(w) ==
  \E s \in {z \in strays : z.at = w} :
    /\ StrayEffect(s) \/ (~StrayReady(s) /\ UNCHANGED row)
    /\ strays' = strays \ {s}
    /\ UNCHANGED <<phase, task, dispatcher, calls, flag, asked, requests>>

\* One round of the heartbeat loop, which runs until the manager is done.
Heartbeat(w, r) ==
  /\ phase[w] # "down" /\ Registered(w, r)
  /\ IF HoldsLive(r, w, task[w][r].fence)
     THEN /\ Renew(r, w, task[w][r].fence)
          /\ IF row[r].status = "cancelling"
             THEN /\ Move(w, r, CancelledTask(w, r, "user"))
                  /\ \E left \in LeftBehind(w, r) : strays' = strays \cup left
             ELSE UNCHANGED <<task, strays>>
     ELSE /\ Move(w, r, CancelledTask(w, r, "ownership_lost"))
          /\ \E left \in LeftBehind(w, r) : strays' = strays \cup left
          /\ UNCHANGED row
  /\ UNCHANGED <<phase, dispatcher, calls, flag, asked, requests>>

-----------------------------------------------------------------------------
(* _recover_once and close *)

OnlyDispatcher(w, d) ==
  /\ dispatcher' = [dispatcher EXCEPT ![w] = d]
  /\ UNCHANGED <<phase, calls, strays, flag, asked, requests>>

Pass(w, pc) == w \in Dispatching /\ phase[w] = "up" /\ dispatcher[w].pc = pc

Listed(w, item) == OnlyDispatcher(w, [dispatcher[w] EXCEPT !.todo = @ \ {item}])

\* The start of a pass: reconcile_orphans reads the expired leases ...
ListOrphans(w) ==
  /\ Pass(w, "spawning") /\ dispatcher[w].todo = {}
  /\ OnlyDispatcher(w, [pc |-> "reconciling",
       todo |-> {<<r, row[r].fence>> : r \in {q \in RunIds : Orphaned(q)}}])
  /\ UNCHANGED <<row, task>>

\* ... and finalizes those that are still expired under the same token.
ReconcileListed(w) ==
  /\ Pass(w, "reconciling")
  /\ \E item \in dispatcher[w].todo :
       /\ \/ Orphaned(item[1]) /\ Finish(item[1], "failed", item[2])
          \/ ~(Orphaned(item[1]) /\ row[item[1]].fence = item[2]) /\ UNCHANGED row
       /\ Listed(w, item)
  /\ UNCHANGED task

ListResumes(w) ==
  /\ Pass(w, "reconciling") /\ dispatcher[w].todo = {}
  /\ OnlyDispatcher(w, [pc |-> "resuming",
       todo |-> {<<r, row[r].rounds>> : r \in {q \in RunIds : Answered(q)}}])
  /\ UNCHANGED <<row, task>>

ResumeListed(w) ==
  /\ Pass(w, "resuming")
  /\ \E item \in dispatcher[w].todo :
       task' = ResumeOnce(w, item[1], item[2]) /\ Listed(w, item)
  /\ UNCHANGED row

\* list_pending does not look at checkpoints.
ListPending(w) ==
  /\ Pass(w, "resuming") /\ dispatcher[w].todo = {}
  /\ OnlyDispatcher(w, [pc |-> "spawning",
       todo |-> {<<r, 0>> : r \in {q \in RunIds : row[q].status = "pending"}}])
  /\ UNCHANGED <<row, task>>

SpawnListed(w) ==
  /\ Pass(w, "spawning")
  /\ \E item \in dispatcher[w].todo :
       task' = SpawnOnce(w, item[1]) /\ Listed(w, item)
  /\ UNCHANGED row

\* close: no new task, the dispatcher is cancelled, then each task in turn.
Close(w) ==
  /\ w \in Closing /\ phase[w] = "up"
  /\ phase' = [phase EXCEPT ![w] = "closing"]
  /\ dispatcher' = [dispatcher EXCEPT ![w] =
       [pc |-> "closing", todo |-> {<<r, 0>> : r \in {q \in RunIds : HasTask(w, q)}}]]
  /\ UNCHANGED <<row, task, calls, strays, flag, asked, requests>>

\* A task that is registered is interrupted, any other is simply cancelled.
CloseTask(w) ==
  /\ dispatcher[w].pc = "closing"
  /\ \E item \in dispatcher[w].todo :
       LET r == item[1]
       IN /\ dispatcher' = [dispatcher EXCEPT ![w].todo = @ \ {item}]
          /\ Move(w, r, IF Registered(w, r) THEN CancelledTask(w, r, "shutdown") ELSE NoTask)
          /\ \E left \in LeftBehind(w, r) : strays' = strays \cup left
  /\ UNCHANGED <<row, phase, calls, flag, asked, requests>>

Exit(w) ==
  /\ phase[w] = "closing" /\ dispatcher[w].todo = {}
  /\ \A r \in RunIds : ~HasTask(w, r)
  /\ \A s \in strays : s.at # w
  /\ \A c \in calls : c.at # w
  /\ phase' = [phase EXCEPT ![w] = "down"]
  /\ UNCHANGED <<row, task, dispatcher, calls, strays, flag, asked, requests>>

Crash(w) ==
  /\ w \in Crashing /\ phase[w] # "down"
  /\ phase' = [phase EXCEPT ![w] = "down"]
  /\ task' = [task EXCEPT ![w] = [r \in RunIds |-> NoTask]]
  /\ dispatcher' = [dispatcher EXCEPT ![w] = Idle]
  /\ calls' = {c \in calls : c.at # w}
  /\ strays' = {s \in strays : s.at # w}
  /\ UNCHANGED <<row, flag, asked, requests>>

-----------------------------------------------------------------------------
(* HTTP handlers: api/routes/runs.py *)

\* A handler at worker `at` is about to do op for run; seen is the status or the
\* checkpoint number it read, then is the run it will spawn at its end.
Call(op, w, r, seen, then) ==
  [op |-> op, at |-> w, run |-> r, seen |-> seen, then |-> then]

Spawning(w, r) == IF r = None THEN {} ELSE {Call("spawn", w, r, None, None)}

OnlyCalls(new) == calls' = new /\ UNCHANGED <<phase, dispatcher, flag>>

Serving(w) == phase[w] # "down"

\* POST runs: reserve, then cancel the superseded run, then spawn_once.
PostRun(w, r, t) ==
  /\ Serving(w) /\ Create(r, t, 0)
  /\ \/ OnlyCalls(calls \cup Spawning(w, r)) /\ UNCHANGED asked
     \/ \E q \in FirstOf(ActiveIn(t)) :
          /\ OnlyCalls(calls \cup {Call("read", w, q, None, r)})
          /\ asked' = asked \cup {q}
  /\ UNCHANGED <<task, strays, requests>>

\* The same POST again: the reservation exists, spawn_once is called again.
ReplayPost(w, r) ==
  /\ Serving(w) /\ row[r].status # "absent" /\ requests < MaxRequests
  /\ OnlyCalls(calls \cup Spawning(w, r))
  /\ requests' = requests + 1
  /\ UNCHANGED <<row, task, strays, asked>>

\* POST cancel.
PostCancel(w, r) ==
  /\ Serving(w) /\ row[r].status # "absent" /\ requests < MaxRequests
  /\ OnlyCalls(calls \cup {Call("read", w, r, None, None)})
  /\ requests' = requests + 1
  /\ asked' = asked \cup {r}
  /\ UNCHANGED <<row, task, strays>>

\* POST resume: accept, then resume_once.
PostAnswer(w, r) ==
  /\ Serving(w) /\ Accept(r, None)
  /\ OnlyCalls(calls \cup {Call("resume", w, r, row[r].rounds, None)})
  /\ UNCHANGED <<task, strays, asked, requests>>

\* request_cancel reads the run in a transaction of its own ...
ReadCall(c) ==
  /\ c.op = "read"
  /\ OnlyCalls((calls \ {c}) \cup
       {Call(IF Terminal(c.run) THEN "signal" ELSE "cancel", c.at, c.run,
             row[c.run].status, c.then)})
  /\ UNCHANGED <<row, task, strays, asked, requests>>

\* ... and then finalizes or marks it, going by what it read.
CancelCall(c) ==
  LET r == c.run
      direct == c.seen \in {"queued", "pending", "waiting_input"}
      done == OnlyCalls((calls \ {c}) \cup {Call("signal", c.at, r, row'[r].status, c.then)})
      refused == OnlyCalls(calls \ {c}) /\ UNCHANGED row
  IN /\ c.op = "cancel"
     /\ \/ direct /\ Finish(r, "cancelled", None) /\ done
        \/ direct /\ row[r].status = "cancelled" /\ UNCHANGED row /\ done
        \/ /\ direct /\ ~Finishable(r, "cancelled", None)
           /\ row[r].status # "cancelled" /\ refused
        \/ ~direct /\ RequestCancel(r) /\ done
        \/ ~direct /\ ~CancelRequestable(r) /\ UNCHANGED row /\ done
     /\ UNCHANGED <<task, strays, asked, requests>>

\* cancel_local for a user's request.
CancelLocal(w, r) ==
  /\ Move(w, r, CancelledTask(w, r, "user"))
  /\ \E left \in LeftBehind(w, r) :
       strays' = IF Registered(w, r) THEN strays \cup left ELSE strays

\* The registry of the handler's own process comes first; cancel_run skips it
\* for a run that ended otherwise, reserve does not.
SignalCall(c) ==
  /\ c.op = "signal"
  /\ IF c.then # None \/ c.seen \in {"cancelling", "cancelled"}
     THEN /\ CancelLocal(c.at, c.run)
          /\ OnlyCalls((calls \ {c}) \cup {Call("notify", c.at, c.run, None, c.then)})
     ELSE OnlyCalls(calls \ {c}) /\ UNCHANGED <<task, strays>>
  /\ UNCHANGED <<row, asked, requests>>

\* The Redis request: it may fail, and pub/sub may miss any worker.
NotifyCall(c) ==
  /\ c.op = "notify"
  /\ \/ calls' = (calls \ {c}) \cup Spawning(c.at, c.then) /\ UNCHANGED flag
     \/ /\ flag' = [flag EXCEPT ![c.run] = TRUE]
        /\ \E heard \in SUBSET {w \in Workers : phase[w] # "down"} :
             calls' = (calls \ {c}) \cup Spawning(c.at, c.then)
                        \cup {Call("heard", w, c.run, None, None) : w \in heard}
  /\ UNCHANGED <<row, phase, task, dispatcher, strays, asked, requests>>

HeardCall(c) ==
  /\ c.op = "heard" /\ CancelLocal(c.at, c.run)
  /\ OnlyCalls(calls \ {c}) /\ UNCHANGED <<row, asked, requests>>

SpawnCall(c) ==
  /\ c.op = "spawn" /\ task' = SpawnOnce(c.at, c.run)
  /\ OnlyCalls(calls \ {c}) /\ UNCHANGED <<row, strays, asked, requests>>

ResumeCall(c) ==
  /\ c.op = "resume" /\ task' = ResumeOnce(c.at, c.run, c.seen)
  /\ OnlyCalls(calls \ {c}) /\ UNCHANGED <<row, strays, asked, requests>>

-----------------------------------------------------------------------------
LeaseRunsOut(r) == Expire(r) /\ UNCHANGED execVars

Begin(w, r) == BeginExecute(w, r) \/ BeginResume(w, r)

TaskStep(w, r) ==
  \/ Register(w, r) \/ WorkEnds(w, r) \/ AfterPause(w, r) \/ CompleteRun(w, r)
  \/ FailRun(w, r) \/ EndInterrupted(w, r) \/ DispatchNext(w, r)

DispatcherStep(w) ==
  \/ ListOrphans(w) \/ ReconcileListed(w) \/ ListResumes(w) \/ ResumeListed(w)
  \/ ListPending(w) \/ SpawnListed(w)

CallStep ==
  \E c \in calls : \/ ReadCall(c) \/ CancelCall(c) \/ SignalCall(c) \/ NotifyCall(c)
                   \/ HeardCall(c) \/ SpawnCall(c) \/ ResumeCall(c)

Next ==
  \/ \E w \in Workers, r \in RunIds :
       \/ Begin(w, r) \/ TaskStep(w, r) \/ WorkPauses(w, r) \/ Heartbeat(w, r)
       \/ \E t \in Threads : PostRun(w, r, t)
       \/ ReplayPost(w, r) \/ PostCancel(w, r) \/ PostAnswer(w, r)
  \/ \E w \in Workers :
       \/ DispatcherStep(w) \/ StrayCall(w)
       \/ Close(w) \/ CloseTask(w) \/ Exit(w) \/ Crash(w)
  \/ CallStep
  \/ \E r \in RunIds : LeaseRunsOut(r)

Spec == Init /\ [][Next /\ UNCHANGED setting]_<<allVars, setting>>

\* A lease runs out when nobody renews it.
Abandoned(r) == \A w \in Workers : row[r].owner = w => ~Registered(w, r)

\* As long as a process lives its event loop runs its tasks, its heartbeats, its
\* dispatcher and its threads; the agent's deadline ends every execution, and
\* the semaphore serves its waiters in turn.
Fairness ==
  /\ \A w \in Workers, r \in RunIds :
       /\ SF_allVars(Begin(w, r)) /\ WF_allVars(TaskStep(w, r))
       /\ WF_allVars(Heartbeat(w, r))
  /\ \A w \in Workers : WF_allVars(DispatcherStep(w)) /\ WF_allVars(StrayCall(w))
  /\ \A r \in RunIds : WF_allVars(Abandoned(r) /\ LeaseRunsOut(r))

FairSpec == Spec /\ Fairness

-----------------------------------------------------------------------------
(* Properties *)

\* Every variable has the shape its class or table gives it.
TypeOK ==
  /\ row \in [RunIds -> Rows]
  /\ phase \in [Workers -> {"up", "closing", "down"}]
  /\ \A w \in Workers, r \in RunIds : task[w][r].kind \in {"none", "execute", "resume"}
  /\ \A c \in calls : c.at \in Workers /\ c.run \in RunIds
  /\ \A s \in strays : s.at \in Workers /\ s.run \in RunIds

\* The tasks that may still present their token to the store.
Holding(w, r) == task[w][r].pc = "claimed" \/ Registered(w, r)

\* Two executors never hold the same token of a run: whatever claims, resumes,
\* crashes and expired leases came before, at most one of the tasks that still
\* run can pass a fencing check.
TokenIsExclusive ==
  \A v, w \in Workers, r \in RunIds :
    (v # w /\ Holding(v, r) /\ Holding(w, r)) => task[v][r].fence # task[w][r].fence

\* The tasks, calls and rows of the executors are ones the code can hold, and a Run
\* is worked on under one token at a time.
TokensHold == TypeOK /\ TokenIsExclusive

\* A run is cancelled only for a client: a shutdown, a crash, a lost lease or a
\* late thread never ends a run as cancelled.
NeverCancelledUnasked ==
  \A r \in RunIds : row[r].status \in {"cancelling", "cancelled"} => r \in asked

\* A queued run gets its turn, unless a run ahead of it waits for its user or
\* is cancelling without a lease: every way a run can end promotes the next one
\* and somebody then picks the promoted run up.
QueueAdvances ==
  \A r \in RunIds :
    row[r].status = "queued" ~>
      \/ Terminal(r) \/ row[r].status = "running"
      \/ \E q \in ActiveIn(row[r].thread) :
           \/ row[q].status = "waiting_input"
           \/ row[q].status = "cancelling" /\ row[q].lease = "none"

\* A cancellation that reached a run some executor owns.
CancelOwned(r) == row[r].status = "cancelling" /\ row[r].lease # "none"

\* Whatever crashes, as long as one executor stays, a started or answered run
\* ends or asks its user, and an owned run that is cancelled ends, even when the
\* local signal, the pub/sub message and the Redis key are all lost; a cancelling
\* run without a lease is left aside.
RunSettles ==
  \A r \in RunIds :
    (row[r].status \in {"pending", "running"} \/ CancelOwned(r)) ~>
      \/ Terminal(r) \/ row[r].status = "waiting_input"
      \/ row[r].status = "cancelling" /\ row[r].lease = "none"

\* An accepted cancellation ends the run: the client that goes on listening
\* gets its terminal event.
CancelEnds == \A r \in RunIds : row[r].status = "cancelling" ~> Terminal(r)
=============================================================================
