-------------------------- MODULE RunExecutionProofs --------------------------
(***************************************************************************)
(* The executors for any number of processes, Runs, crashes, shutdowns and *)
(* client requests: two tasks never hold the same token of a Run, and a    *)
(* Run is cancelled for a client only.                                     *)
(***************************************************************************)
EXTENDS RunExecution, TLAPS

(* The inductive invariant *)

Cancels == {"cancelling", "cancelled"}

Tasks == [kind : {"none", "execute", "resume"},
          pc : {"none", "waiting", "claimed", "working", "paused", "completing", "failing",
                "interrupted", "dispatching"},
          fence : Nat, round : Nat,
          reason : {"none", "shutdown", "user", "ownership_lost"}, later : Nat]

Passes == [pc : {"spawning", "reconciling", "resuming", "closing"}, todo : SUBSET (RunIds \X Nat)]

CallRecords == [op : {"spawn", "read", "cancel", "signal", "notify", "heard", "resume"},
                at : Workers, run : RunIds,
                seen : RunStatuses \cup {"absent", None} \cup Nat, then : RunIds \cup {None}]

StrayRecords == [at : Workers, run : RunIds,
                 op : {"execute", "resume", "pause"} \cup TerminalStatuses, fence : Nat, round : Nat]

\* Handlers that serve a request to cancel.
CancelOps == {"read", "cancel", "signal", "notify", "heard"}

\* The token of a run that nobody has reserved is 0.
RowsFit ==
  /\ row \in [RunIds -> Rows]
  /\ \A r \in RunIds : row[r].status = "absent" => row[r].fence = 0

TasksFit == task \in [Workers -> [RunIds -> Tasks]]

\* A task holds a token that was issued, and who holds the last one is the owner in
\* the row, if it has one.
TokensFit ==
  /\ \A w \in Workers, r \in RunIds : Holding(w, r) =>
       /\ task[w][r].fence <= row[r].fence
       /\ task[w][r].fence = row[r].fence => row[r].owner \in {w, None}
  /\ TokenIsExclusive

\* Everything that stands for a user's cancellation goes back to a request.
AskedFit ==
  /\ NeverCancelledUnasked
  /\ \A r \in RunIds : flag[r] => r \in asked
  /\ \A w \in Workers, r \in RunIds : task[w][r].reason = "user" => r \in asked
  /\ \A s \in strays : s.op = "cancelled" => s.run \in asked
  /\ \A c \in calls : c.op \in CancelOps => c.run \in asked

RestFit ==
  /\ phase \in [Workers -> {"up", "closing", "down"}]
  /\ dispatcher \in [Workers -> Passes]
  /\ calls \subseteq CallRecords /\ strays \subseteq StrayRecords
  /\ \A c \in calls : c.op = "resume" => c.seen \in Nat
  /\ flag \in [RunIds -> BOOLEAN] /\ asked \subseteq RunIds

ExecInv == RowsFit /\ TasksFit /\ TokensFit /\ AskedFit /\ RestFit

-----------------------------------------------------------------------------
(* What a transaction does to the rows *)

\* Tokens only grow, and the owner changes with the token or leaves.
RowsKept ==
  /\ row' \in [RunIds -> Rows]
  /\ \A r \in RunIds :
       /\ row'[r].status = "absent" => row'[r].fence = 0
       /\ row[r].fence <= row'[r].fence
       /\ row'[r].fence = row[r].fence => row'[r].owner \in {row[r].owner, None}

\* Only runs of S become cancelling or cancelled.
CancelsOnly(S) == \A r \in RunIds : row'[r].status \in Cancels => row[r].status \in Cancels \/ r \in S

LEMMA SameRows ==
  ASSUME RowsFit, UNCHANGED row
  PROVE  RowsKept /\ CancelsOnly({})
BY DEF RowsFit, RowsKept, CancelsOnly, Rows

LEMMA OneRow ==
  ASSUME RowsFit, NEW r \in RunIds, NEW x \in Rows, NEW S,
         row' = [row EXCEPT ![r] = x],
         x.status = "absent" => x.fence = 0,
         row[r].fence <= x.fence,
         x.fence = row[r].fence => x.owner \in {row[r].owner, None},
         x.status \in Cancels => row[r].status \in Cancels \/ r \in S
  PROVE  RowsKept /\ CancelsOnly(S)
<1>1. row' \in [RunIds -> Rows] /\ row'[r] = x /\ \A q \in RunIds \ {r} : row'[q] = row[q]
  BY DEF RowsFit
<1>2. \A q \in RunIds : row[q].fence \in Nat
  BY DEF RowsFit, Rows
<1>3. \A q \in RunIds \ {r} :
       /\ row'[q].status = "absent" => row'[q].fence = 0
       /\ row[q].fence <= row'[q].fence
       /\ row'[q].fence = row[q].fence => row'[q].owner \in {row[q].owner, None}
  BY <1>1, <1>2 DEF RowsFit
<1> QED
  BY <1>1, <1>3 DEF RowsKept, CancelsOnly

\* claim and consume_resume: a new token, and the worker owns the row.
LEMMA RunningKeeps ==
  ASSUME RowsFit, NEW r \in RunIds, NEW w \in Workers, row' = [row EXCEPT ![r] = Running(r, w)]
  PROVE  /\ RowsKept /\ CancelsOnly({})
         /\ row'[r].fence = row[r].fence + 1 /\ row'[r].owner = w
         /\ \A q \in RunIds \ {r} : row'[q] = row[q]
<1>1. row[r] \in Rows
  BY DEF RowsFit
<1> DEFINE x == Running(r, w)
<1>2. /\ x.status = "running" /\ x.owner = w /\ x.fence = row[r].fence + 1 /\ x.lease = "valid"
      /\ row[r].fence \in Nat
  BY <1>1 DEF Running, Rows
<1>3. "running" \in RunStatuses \cup {"absent"} /\ row[r].fence + 1 \in Nat
  BY <1>2 DEF RunStatuses, ActiveStatuses
<1>4. x \in Rows
  BY <1>1, <1>3 DEF Running, Rows
<1> HIDE DEF x
<1>5. row' = [row EXCEPT ![r] = x]
  BY DEF x
<1>6. row[r].fence <= x.fence /\ x.fence # row[r].fence /\ x.status \notin Cancels /\ x.status # "absent"
  BY <1>2 DEF Cancels
<1>7. row'[r] = x /\ \A q \in RunIds \ {r} : row'[q] = row[q]
  BY <1>5 DEF RowsFit
<1>8. RowsKept /\ CancelsOnly({})
  BY <1>4, <1>5, <1>6, OneRow
<1> QED
  BY <1>2, <1>7, <1>8

\* Heartbeats, expiry, pause and answer keep the token and the owner, or take it away.
LEMMA RenewKeeps ==
  ASSUME RowsFit, NEW r \in RunIds, NEW w, NEW f, Renew(r, w, f) \/ Expire(r)
  PROVE  RowsKept /\ CancelsOnly({})
<1>1. row[r] \in Rows
  BY DEF RowsFit
<1>2. PICK l \in {"valid", "expired"} : row' = [row EXCEPT ![r] = [row[r] EXCEPT !.lease = l]]
  BY DEF Renew, Expire, RowsFit
<1> DEFINE x == [row[r] EXCEPT !.lease = l]
<1>3. x \in Rows /\ x.status = row[r].status /\ x.owner = row[r].owner /\ x.fence = row[r].fence
  BY <1>1 DEF Rows
<1>4. row[r].fence <= row[r].fence
  BY <1>1 DEF Rows
<1> HIDE DEF x
<1>5. row' = [row EXCEPT ![r] = x]
  BY <1>2 DEF x
<1> QED
  BY <1>3, <1>4, <1>5, OneRow DEF RowsFit

LEMMA PauseKeeps ==
  ASSUME RowsFit, NEW r \in RunIds, NEW w, NEW f, NEW n \in Nat, Pause(r, w, f, n)
  PROVE  RowsKept /\ CancelsOnly({})
<1>1. row[r] \in Rows
  BY DEF RowsFit
<1> DEFINE x == [row[r] EXCEPT !.status = "waiting_input", !.owner = None,
                               !.lease = "none", !.rounds = n + 1, !.open = TRUE]
<1>2. x.status = "waiting_input" /\ x.owner = None /\ x.fence = row[r].fence /\ row[r].fence \in Nat
  BY <1>1 DEF Rows
<1>3. "waiting_input" \in RunStatuses \cup {"absent"} /\ n + 1 \in Nat
  BY DEF RunStatuses, ActiveStatuses
<1>4. x \in Rows
  BY <1>1, <1>3 DEF Rows
<1>5. row' = [row EXCEPT ![r] = x]
  BY DEF Pause
<1> HIDE DEF x
<1>6. row[r].fence <= x.fence /\ x.status # "absent" /\ x.status \notin Cancels
  BY <1>2 DEF Cancels
<1> QED
  BY <1>2, <1>4, <1>5, <1>6, OneRow

LEMMA AcceptKeeps ==
  ASSUME RowsFit, NEW r \in RunIds, Accept(r, None)
  PROVE  RowsKept /\ CancelsOnly({})
<1>1. row[r] \in Rows
  BY DEF RowsFit
<1> DEFINE x == [row[r] EXCEPT !.status = "pending", !.owner = None, !.lease = "none", !.open = FALSE]
<1>2. x.status = "pending" /\ x.owner = None /\ x.fence = row[r].fence /\ row[r].fence \in Nat
  BY <1>1 DEF Rows
<1>3. "pending" \in RunStatuses \cup {"absent"}
  BY DEF RunStatuses, ActiveStatuses
<1>4. x \in Rows
  BY <1>1, <1>3 DEF Rows
<1>5. row' = [row EXCEPT ![r] = x]
  BY DEF Accept
<1> HIDE DEF x
<1>6. row[r].fence <= x.fence /\ x.status # "absent" /\ x.status \notin Cancels
  BY <1>2 DEF Cancels
<1> QED
  BY <1>2, <1>4, <1>5, <1>6, OneRow

LEMMA CreateKeeps ==
  ASSUME RowsFit, NEW r \in RunIds, NEW t \in Threads, Create(r, t, 0)
  PROVE  RowsKept /\ CancelsOnly({})
<1>1. PICK s \in {"pending", "queued"} :
        row' = [row EXCEPT ![r] = [AbsentRow EXCEPT !.thread = t, !.fence = 0, !.status = s]]
  BY DEF Create
<1> DEFINE x == [AbsentRow EXCEPT !.thread = t, !.fence = 0, !.status = s]
<1>2. x.status = s /\ x.owner = None /\ x.fence = 0
  BY DEF AbsentRow
<1>3. s \in RunStatuses
  BY DEF RunStatuses, ActiveStatuses, QueuedStatus
<1>4. x \in Rows
  BY <1>3 DEF AbsentRow, Rows
<1>5. row[r].fence = 0
  BY DEF Create, RowsFit
<1>6. row' = [row EXCEPT ![r] = x]
  BY <1>1
<1> HIDE DEF x
<1>7. row[r].fence <= x.fence /\ x.status \notin Cancels
  BY <1>2, <1>5 DEF Cancels
<1> QED
  BY <1>2, <1>4, <1>6, <1>7, OneRow

\* mark_cancelling
LEMMA RequestCancelKeeps ==
  ASSUME RowsFit, NEW r \in RunIds, RequestCancel(r)
  PROVE  RowsKept /\ CancelsOnly({r})
<1>1. row[r] \in Rows
  BY DEF RowsFit
<1> DEFINE x == [row[r] EXCEPT !.status = "cancelling"]
<1>2. x.status = "cancelling" /\ x.owner = row[r].owner /\ x.fence = row[r].fence /\ row[r].fence \in Nat
  BY <1>1 DEF Rows
<1>3. "cancelling" \in RunStatuses \cup {"absent"}
  BY DEF RunStatuses, ActiveStatuses
<1>4. x \in Rows
  BY <1>1, <1>3 DEF Rows
<1>5. row' = [row EXCEPT ![r] = x]
  BY DEF RequestCancel
<1> HIDE DEF x
<1>6. row[r].fence <= x.fence /\ x.status # "absent"
  BY <1>2
<1> QED
  BY <1>2, <1>4, <1>5, <1>6, OneRow

\* finalize: the run ends, as cancelled only if that was asked or is already under
\* way, and the next one of its thread becomes pending.
LEMMA FinishKeeps ==
  ASSUME RowsFit, NEW r \in RunIds, NEW target \in TerminalStatuses, NEW f, Finish(r, target, f)
  PROVE  RowsKept /\ CancelsOnly(IF target = "cancelled" THEN {r} ELSE {})
<1>1. \A q \in RunIds : row[q] \in Rows /\ row[q].fence \in Nat
  BY DEF RowsFit, Rows
<1>2. PICK o \in TerminalStatuses : o = Outcome(r, target)
  BY DEF Outcome, TerminalStatuses
<1> DEFINE x == [row[r] EXCEPT !.status = o, !.lease = "none"]
           y(q) == [row[q] EXCEPT !.status = "pending"]
<1>3. row' = [q \in RunIds |-> CASE q = r -> x [] q \in Next1(r) -> y(q) [] OTHER -> row[q]]
  BY <1>2 DEF Finish
<1>4. x \in Rows /\ x.status = o /\ x.owner = row[r].owner /\ x.fence = row[r].fence
  <2>1. o \in RunStatuses \cup {"absent"} BY DEF RunStatuses
  <2> QED BY <1>1, <2>1 DEF Rows
<1>5. \A q \in RunIds : y(q) \in Rows /\ y(q).status = "pending" /\ y(q).owner = row[q].owner
                        /\ y(q).fence = row[q].fence
  <2>1. "pending" \in RunStatuses \cup {"absent"} BY DEF RunStatuses, ActiveStatuses
  <2> QED BY <1>1, <2>1 DEF Rows
<1>6. o \in Cancels => row[r].status \in Cancels \/ target = "cancelled"
  BY <1>2 DEF Outcome, Cancels, TerminalStatuses
<1>7. o # "absent"
  BY DEF TerminalStatuses
<1> HIDE DEF x, y
<1>8. row'[r] = x /\ \A q \in RunIds \ {r} : row'[q] \in {y(q), row[q]}
  <2>1. row'[r] = x
    BY <1>3 DEF Next1, FirstOf
  <2>2. ASSUME NEW q \in RunIds \ {r}, q \in Next1(r) PROVE row'[q] = y(q)
    BY <1>3, <2>2
  <2>3. ASSUME NEW q \in RunIds \ {r}, q \notin Next1(r) PROVE row'[q] = row[q]
    BY <1>3, <2>3
  <2> QED
    BY <2>1, <2>2, <2>3
<1>9. row' \in [RunIds -> Rows]
  BY <1>1, <1>3, <1>4, <1>5
<1>10. \A q \in RunIds : /\ row'[q].status = "absent" => row'[q].fence = 0
                         /\ row'[q].fence = row[q].fence /\ row'[q].owner = row[q].owner
  BY <1>4, <1>5, <1>7, <1>8 DEF RowsFit
<1>11. CancelsOnly(IF target = "cancelled" THEN {r} ELSE {})
  BY <1>4, <1>5, <1>6, <1>8 DEF CancelsOnly, Cancels
<1> QED
  BY <1>1, <1>9, <1>10, <1>11 DEF RowsKept

-----------------------------------------------------------------------------
(* What a step does to the tasks *)

\* A record that stands for a task with a token.
Held(tk) ==
  tk.pc \in {"claimed", "working", "paused", "completing", "failing", "interrupted"}

\* No task gets a token, and none gets a user's reason without a request.
TasksKept ==
  /\ task' \in [Workers -> [RunIds -> Tasks]]
  /\ \A w \in Workers, r \in RunIds :
       /\ Held(task'[w][r]) => Held(task[w][r]) /\ task'[w][r].fence = task[w][r].fence
       /\ task'[w][r].reason = "user" => r \in asked'

\* What may take the place of the task of w for r.
Successor(w, r, tk) ==
  /\ tk \in Tasks
  /\ Held(tk) => Held(task[w][r]) /\ tk.fence = task[w][r].fence
  /\ tk.reason = "user" => r \in asked'

LEMMA HoldingIsHeld ==
  ASSUME NEW w \in Workers, NEW r \in RunIds
  PROVE  Holding(w, r) <=> Held(task[w][r])
BY DEF Holding, Registered, Held

LEMMA SameTasks ==
  ASSUME ExecInv, UNCHANGED task, asked \subseteq asked'
  PROVE  TasksKept
BY DEF ExecInv, TasksFit, AskedFit, TasksKept

LEMMA Moved ==
  ASSUME TasksFit, NEW w \in Workers, NEW r \in RunIds, NEW tk \in Tasks, Move(w, r, tk)
  PROVE  /\ task' \in [Workers -> [RunIds -> Tasks]] /\ task'[w][r] = tk
         /\ \A v \in Workers, q \in RunIds : v # w \/ q # r => task'[v][q] = task[v][q]
BY DEF Move, TasksFit

LEMMA MoveKeeps ==
  ASSUME ExecInv, asked \subseteq asked', NEW w \in Workers, NEW r \in RunIds, NEW tk,
         Successor(w, r, tk), Move(w, r, tk)
  PROVE  TasksKept
<1>2. /\ task' \in [Workers -> [RunIds -> Tasks]] /\ task'[w][r] = tk
      /\ \A v \in Workers, q \in RunIds : v # w \/ q # r => task'[v][q] = task[v][q]
  BY Moved DEF ExecInv, Successor
<1>3. \A v \in Workers, q \in RunIds : task[v][q].reason = "user" => q \in asked
  BY DEF ExecInv, AskedFit
<1>4. ASSUME NEW v \in Workers, NEW q \in RunIds
      PROVE  /\ Held(task'[v][q]) => Held(task[v][q]) /\ task'[v][q].fence = task[v][q].fence
             /\ task'[v][q].reason = "user" => q \in asked'
  <2>1. CASE v = w /\ q = r
    BY <1>2, <2>1 DEF Successor
  <2>2. CASE v # w \/ q # r
    BY <1>2, <1>3, <2>2
  <2> QED BY <2>1, <2>2
<1> QED
  BY <1>2, <1>4 DEF TasksKept

\* The records that tasks end with.
LEMMA Endings ==
  ASSUME ExecInv, NEW w \in Workers, NEW r \in RunIds
  PROVE  /\ NoTask \in Tasks /\ Successor(w, r, NoTask)
         /\ Successor(w, r, EndedTask(w, r)) /\ Successor(w, r, Leaving(w, r))
<1>1. task[w][r] \in Tasks
  BY DEF ExecInv, TasksFit
<1>2. PICK x \in Tasks : x = task[w][r]
  BY <1>1
<1>3. NoTask \in Tasks /\ NoTask.pc = "none" /\ NoTask.reason = "none"
  BY DEF NoTask, Tasks
<1>4. Successor(w, r, NoTask)
  BY <1>3 DEF Successor, Held
<1>5. ASSUME NEW n \in Nat
      PROVE  Successor(w, r, Scheduled("resume", n))
  <2> DEFINE y == Scheduled("resume", n)
  <2>1. y.pc = "waiting" /\ y.reason = "none" /\ y \in Tasks
    BY DEF Scheduled, NoTask, Tasks
  <2> QED
    BY <2>1 DEF Successor, Held
<1>6. x.later \in Nat /\ x.kind \in {"none", "execute", "resume"}
  BY DEF Tasks
<1>7. Successor(w, r, EndedTask(w, r))
  BY <1>2, <1>4, <1>5, <1>6 DEF EndedTask
<1>8. Successor(w, r, Leaving(w, r))
  <2> DEFINE y == [NoTask EXCEPT !.kind = x.kind, !.pc = "dispatching", !.later = x.later]
  <2>1. y.pc = "dispatching" /\ y.reason = "none"
    BY DEF NoTask
  <2>2. y \in Tasks
    BY <1>6 DEF NoTask, Tasks
  <2>3. Leaving(w, r) = y
    BY <1>2 DEF Leaving
  <2> HIDE DEF y
  <2> QED
    BY <2>1, <2>2, <2>3 DEF Successor, Held
<1> QED
  BY <1>3, <1>4, <1>7, <1>8

\* A task that goes on with its token, or is interrupted for a reason.
LEMMA GoesOn ==
  ASSUME ExecInv, asked \subseteq asked', NEW w \in Workers, NEW r \in RunIds,
         NEW pc \in {"working", "paused", "completing", "failing", "interrupted"},
         NEW reason \in {"none", "shutdown", "user", "ownership_lost"},
         Held(task[w][r]), reason = "user" => r \in asked'
  PROVE  /\ Successor(w, r, [task[w][r] EXCEPT !.pc = pc])
         /\ Successor(w, r, [task[w][r] EXCEPT !.pc = pc, !.reason = reason])
<1>1. PICK x \in Tasks : x = task[w][r]
  BY DEF ExecInv, TasksFit
<1>2. x.reason = "user" => r \in asked'
  BY <1>1 DEF ExecInv, AskedFit
<1> DEFINE y == [x EXCEPT !.pc = pc]
           z == [x EXCEPT !.pc = pc, !.reason = reason]
<1>3. y \in Tasks /\ z \in Tasks
  BY DEF Tasks
<1>4. y.fence = x.fence /\ z.fence = x.fence /\ y.reason = x.reason /\ z.reason = reason
  BY DEF Tasks
<1> HIDE DEF y, z
<1>5. Successor(w, r, y) /\ Successor(w, r, z)
  BY <1>1, <1>2, <1>3, <1>4 DEF Successor
<1> QED
  BY <1>1, <1>5 DEF y, z

\* cancel_local
LEMMA CancelledKeeps ==
  ASSUME ExecInv, asked \subseteq asked', NEW w \in Workers, NEW r \in RunIds,
         NEW reason \in {"shutdown", "user", "ownership_lost"}, reason = "user" => r \in asked'
  PROVE  Successor(w, r, CancelledTask(w, r, reason))
<1>1. task[w][r] \in Tasks /\ (task[w][r].reason = "user" => r \in asked')
  BY DEF ExecInv, TasksFit, AskedFit
<1>2. CASE ~Registered(w, r)
  BY <1>1, <1>2 DEF CancelledTask, Successor
<1>3. CASE Registered(w, r) /\ task[w][r].pc \in {"failing", "interrupted"}
  BY <1>3, Endings DEF CancelledTask
<1>4. CASE Registered(w, r) /\ task[w][r].pc \notin {"failing", "interrupted"}
  <2>1. PICK s \in {task[w][r].reason, reason} : s = Stronger(task[w][r].reason, reason)
    BY DEF Stronger
  <2>2. s \in {"none", "shutdown", "user", "ownership_lost"} /\ (s = "user" => r \in asked')
    BY <1>1 DEF Tasks
  <2>3. Held(task[w][r])
    BY <1>4 DEF Registered, Held
  <2>4. CancelledTask(w, r, reason) = [task[w][r] EXCEPT !.pc = "interrupted", !.reason = s]
    BY <1>4, <2>1 DEF CancelledTask
  <2>5. Successor(w, r, [task[w][r] EXCEPT !.pc = "interrupted", !.reason = s])
    BY <2>2, <2>3, GoesOn
  <2> QED
    BY <2>4, <2>5
<1> QED
  BY <1>2, <1>3, <1>4

\* spawn_once and resume_once
LEMMA ScheduleKeeps ==
  ASSUME ExecInv, asked \subseteq asked', NEW w \in Workers, NEW r \in RunIds, NEW n \in Nat
  PROVE  /\ task' = SpawnOnce(w, r) => TasksKept
         /\ task' = ResumeOnce(w, r, n) => TasksKept
         /\ Successor(w, r, SpawnOnce(w, r)[w][r])
<1>1. task[w][r] \in Tasks /\ (task[w][r].reason = "user" => r \in asked')
  BY DEF ExecInv, TasksFit, AskedFit
<1>2. PICK x \in Tasks : x = task[w][r]
  BY <1>1
<1>3. ASSUME NEW kind \in {"execute", "resume"}, NEW m \in Nat
      PROVE  Successor(w, r, Scheduled(kind, m))
  <2> DEFINE y == Scheduled(kind, m)
  <2>1. y.pc = "waiting" /\ y.reason = "none" /\ y \in Tasks
    BY DEF Scheduled, NoTask, Tasks
  <2> QED
    BY <2>1 DEF Successor, Held
<1>4. Successor(w, r, [task[w][r] EXCEPT !.later = n])
  <2> DEFINE y == [x EXCEPT !.later = n]
  <2>1. y \in Tasks /\ y.pc = x.pc /\ y.fence = x.fence /\ y.reason = x.reason
    BY DEF Tasks
  <2> HIDE DEF y
  <2>2. Successor(w, r, y)
    BY <1>1, <1>2, <2>1 DEF Successor, Held
  <2> QED
    BY <1>2, <2>2 DEF y
<1>5. Successor(w, r, task[w][r])
  BY <1>1 DEF Successor
<1>6. task' = [task EXCEPT ![w][r] = Scheduled("execute", 0)] => TasksKept
  BY <1>3, MoveKeeps DEF Move
<1>7. task' = [task EXCEPT ![w][r] = Scheduled("resume", n)] => TasksKept
  BY <1>3, MoveKeeps DEF Move
<1>8. task' = [task EXCEPT ![w][r] = [task[w][r] EXCEPT !.later = n]] => TasksKept
  BY <1>4, MoveKeeps DEF Move
<1>9. [task EXCEPT ![w][r].later = n] = [task EXCEPT ![w][r] = [task[w][r] EXCEPT !.later = n]]
  BY DEF ExecInv, TasksFit
<1>10. task' = task => TasksKept
  BY SameTasks
<1>11. SpawnOnce(w, r)[w][r] \in {task[w][r], Scheduled("execute", 0)}
  BY DEF SpawnOnce, ExecInv, TasksFit
<1>12. Successor(w, r, Scheduled("execute", 0))
  BY <1>3
<1>13. Successor(w, r, SpawnOnce(w, r)[w][r])
  BY <1>5, <1>11, <1>12
<1>14. task' = SpawnOnce(w, r) => TasksKept
  BY <1>6, <1>10 DEF SpawnOnce
<1>15. task' = ResumeOnce(w, r, n) => TasksKept
  BY <1>7, <1>8, <1>9, <1>10 DEF ResumeOnce
<1> QED
  BY <1>13, <1>14, <1>15

-----------------------------------------------------------------------------
(* A step as a whole *)

\* The handlers on their way, and the calls left behind, are typed and go back to
\* a request where they cancel.
CallsFit(new) ==
  /\ new \subseteq CallRecords
  /\ \A c \in new : (c.op \in CancelOps => c.run \in asked') /\ (c.op = "resume" => c.seen \in Nat)

StraysFit(new) ==
  /\ new \subseteq StrayRecords
  /\ \A s \in new : s.op = "cancelled" => s.run \in asked'

ProcessesFit ==
  /\ phase' \in [Workers -> {"up", "closing", "down"}]
  /\ dispatcher' \in [Workers -> Passes]
  /\ flag' \in [RunIds -> BOOLEAN]
  /\ \A r \in RunIds : flag'[r] => r \in asked'
  /\ asked' \subseteq RunIds

LEMMA TokensKeep ==
  ASSUME ExecInv, RowsKept, TasksKept
  PROVE  TokensFit'
<1>1. \A w \in Workers, r \in RunIds :
        /\ task[w][r].fence \in Nat /\ row[r].fence \in Nat /\ row'[r].fence \in Nat
        /\ Holding(w, r)' => /\ Holding(w, r) /\ task'[w][r].fence = task[w][r].fence
  BY DEF ExecInv, RowsFit, TasksFit, RowsKept, Rows, TasksKept, Tasks, Holding, Registered, Held
<1>2. \A w \in Workers, r \in RunIds :
        /\ row[r].fence <= row'[r].fence
        /\ row'[r].fence = row[r].fence => row'[r].owner \in {row[r].owner, None}
  BY DEF RowsKept
<1>3. \A w \in Workers, r \in RunIds : Holding(w, r) =>
        /\ task[w][r].fence <= row[r].fence
        /\ task[w][r].fence = row[r].fence => row[r].owner \in {w, None}
  BY DEF ExecInv, TokensFit
<1>4. ASSUME NEW w \in Workers, NEW r \in RunIds, Holding(w, r)'
      PROVE  /\ task'[w][r].fence <= row'[r].fence
             /\ task'[w][r].fence = row'[r].fence => row'[r].owner \in {w, None}
  <2>1. Holding(w, r) /\ task'[w][r].fence = task[w][r].fence
    BY <1>1, <1>4
  <2>2. task'[w][r].fence <= row'[r].fence
    BY <1>1, <1>2, <1>3, <2>1
  <2>3. ASSUME task'[w][r].fence = row'[r].fence
        PROVE  row'[r].owner \in {w, None}
    <3> DEFINE a == task[w][r].fence
               b == row[r].fence
               d == row'[r].fence
    <3>0. a \in Nat /\ b \in Nat /\ d \in Nat /\ a <= b /\ b <= d /\ a = d
      BY <1>1, <1>2, <1>3, <2>1, <2>3
    <3> HIDE DEF a, b, d
    <3>4. a = b /\ d = b
      BY <3>0
    <3>1. task[w][r].fence = row[r].fence /\ row'[r].fence = row[r].fence
      BY <3>4 DEF a, b, d
    <3>2. row[r].owner \in {w, None}
      BY <1>3, <2>1, <3>1
    <3>3. row'[r].owner \in {row[r].owner, None}
      BY <1>2, <3>1
    <3> QED
      BY <3>2, <3>3
  <2> QED
    BY <2>2, <2>3
<1>5. TokenIsExclusive'
  BY <1>1 DEF ExecInv, TokensFit, TokenIsExclusive
<1> QED
  BY <1>4, <1>5 DEF TokensFit

LEMMA Combined ==
  ASSUME ExecInv, RowsKept, CancelsOnly(asked'), asked \subseteq asked',
         TokensFit', TasksFit',
         \A w \in Workers, r \in RunIds : task'[w][r].reason = "user" => r \in asked',
         CallsFit(calls'), StraysFit(strays'), ProcessesFit
  PROVE  ExecInv'
<1>1. RowsFit'
  BY DEF RowsKept, RowsFit
<1>2. NeverCancelledUnasked'
  BY DEF ExecInv, AskedFit, NeverCancelledUnasked, CancelsOnly, Cancels
<1>3. AskedFit'
  BY <1>2 DEF AskedFit, CallsFit, StraysFit, ProcessesFit
<1>4. RestFit'
  BY DEF RestFit, CallsFit, StraysFit, ProcessesFit
<1> QED
  BY <1>1, <1>3, <1>4 DEF ExecInv

LEMMA StepKeeps ==
  ASSUME ExecInv, RowsKept, CancelsOnly(asked'), asked \subseteq asked', TasksKept,
         CallsFit(calls'), StraysFit(strays'), ProcessesFit
  PROVE  ExecInv'
<1>1. TasksFit' /\ \A w \in Workers, r \in RunIds : task'[w][r].reason = "user" => r \in asked'
  BY DEF TasksKept, TasksFit
<1> QED
  BY <1>1, TokensKeep, Combined

\* What a step leaves alone still fits.
LEMMA Unmoved ==
  ASSUME ExecInv, asked \subseteq asked', asked' \subseteq RunIds
  PROVE  /\ CallsFit(calls) /\ StraysFit(strays)
         /\ UNCHANGED <<phase, dispatcher, flag>> => ProcessesFit
BY DEF ExecInv, AskedFit, RestFit, CallsFit, StraysFit, ProcessesFit

LEMMA RestKeeps ==
  ASSUME ExecInv, RestUnchanged
  PROVE  /\ asked' = asked /\ asked \subseteq asked'
         /\ CallsFit(calls') /\ StraysFit(strays') /\ ProcessesFit
<1>1. /\ asked' = asked /\ calls' = calls /\ strays' = strays
      /\ UNCHANGED <<phase, dispatcher, flag>> /\ asked \subseteq RunIds
  BY DEF RestUnchanged, ExecInv, RestFit
<1> QED
  BY <1>1, Unmoved

\* A larger set of requests allows more.
LEMMA MoreAsked ==
  ASSUME NEW S, CancelsOnly(S), S \subseteq asked'
  PROVE  CancelsOnly(asked')
BY DEF CancelsOnly

-----------------------------------------------------------------------------
(* The steps of a task *)

\* A task takes a token: a new one, or the one its worker owns already.
LEMMA ClaimKeeps ==
  ASSUME ExecInv, RestUnchanged, NEW w \in Workers, NEW r \in RunIds, NEW f \in Nat,
         RowsKept, CancelsOnly({}),
         Move(w, r, [task[w][r] EXCEPT !.pc = "claimed", !.fence = f]),
         row'[r].fence = f, row'[r].owner = w, f = row[r].fence + 1 \/ UNCHANGED row
  PROVE  ExecInv'
<1>1. PICK x \in Tasks : x = task[w][r]
  BY DEF ExecInv, TasksFit
<1> DEFINE y == [x EXCEPT !.pc = "claimed", !.fence = f]
<1>2. y \in Tasks /\ y.reason = x.reason /\ y.fence = f
  BY DEF Tasks
<1>3. Move(w, r, y)
  BY <1>1
<1> HIDE DEF y
<1>4. /\ task' \in [Workers -> [RunIds -> Tasks]] /\ task'[w][r] = y
      /\ \A v \in Workers, q \in RunIds : v # w \/ q # r => task'[v][q] = task[v][q]
  BY <1>2, <1>3, Moved DEF ExecInv
<1>5. \A v \in Workers, q \in RunIds : task'[v][q].reason = "user" => q \in asked'
  <2>1. \A v \in Workers, q \in RunIds : task[v][q].reason = "user" => q \in asked'
    BY RestKeeps DEF ExecInv, AskedFit
  <2> QED
    BY <1>1, <1>2, <1>4, <2>1
<1>6. TasksFit'
  BY <1>4 DEF TasksFit
<1>7. \A v \in Workers, q \in RunIds :
        task[v][q].fence \in Nat /\ row[q].fence \in Nat /\ row'[q].fence \in Nat
  BY DEF ExecInv, TasksFit, Tasks, RowsFit, RowsKept, Rows
<1>8. \A v \in Workers, q \in RunIds : v # w \/ q # r => (Holding(v, q)' <=> Holding(v, q))
  BY <1>4 DEF Holding, Registered
<1>9. \A q \in RunIds :
        /\ row[q].fence <= row'[q].fence
        /\ row'[q].fence = row[q].fence => row'[q].owner \in {row[q].owner, None}
  BY DEF RowsKept
<1>10. \A v \in Workers, q \in RunIds : Holding(v, q) =>
        /\ task[v][q].fence <= row[q].fence
        /\ task[v][q].fence = row[q].fence => row[q].owner \in {v, None}
  BY DEF ExecInv, TokensFit
<1>11. ASSUME NEW v \in Workers, NEW q \in RunIds, v # w \/ q # r, Holding(v, q)'
       PROVE  /\ task'[v][q].fence <= row'[q].fence
              /\ task'[v][q].fence = row'[q].fence => row'[q].owner \in {v, None}
  <2>1. Holding(v, q) /\ task'[v][q].fence = task[v][q].fence
    BY <1>4, <1>8, <1>11
  <2>2. task'[v][q].fence <= row'[q].fence
    BY <1>7, <1>9, <1>10, <2>1
  <2>3. ASSUME task'[v][q].fence = row'[q].fence
        PROVE  row'[q].owner \in {v, None}
    <3> DEFINE a == task[v][q].fence
               b == row[q].fence
               d == row'[q].fence
    <3>0. a \in Nat /\ b \in Nat /\ d \in Nat /\ a <= b /\ b <= d /\ a = d
      BY <1>7, <1>9, <1>10, <2>1, <2>3
    <3> HIDE DEF a, b, d
    <3>4. a = b /\ d = b
      BY <3>0
    <3>1. task[v][q].fence = row[q].fence /\ row'[q].fence = row[q].fence
      BY <3>4 DEF a, b, d
    <3>2. row[q].owner \in {v, None}
      BY <1>10, <2>1, <3>1
    <3>3. row'[q].owner \in {row[q].owner, None}
      BY <1>9, <3>1
    <3> QED
      BY <3>2, <3>3
  <2> QED
    BY <2>2, <2>3
<1>12. ASSUME NEW v \in Workers, v # w, Holding(v, r)'
       PROVE  task'[v][r].fence # f
  <2>1. Holding(v, r) /\ task'[v][r].fence = task[v][r].fence
    BY <1>4, <1>8, <1>12
  <2>2. CASE f = row[r].fence + 1
    BY <1>7, <1>10, <2>1, <2>2
  <2>3. CASE UNCHANGED row
    <3>1. row[r].fence = f /\ row[r].owner = w
      BY <2>3
    <3>2. task[v][r].fence = f => row[r].owner \in {v, None}
      BY <1>10, <2>1, <3>1
    <3>3. w # None
      BY LifecycleAssumption
    <3> QED
      BY <1>12, <2>1, <3>1, <3>2, <3>3
  <2> QED
    BY <2>2, <2>3
<1>13. TokenIsExclusive'
  <2>1. ASSUME NEW u \in Workers, NEW v \in Workers, NEW q \in RunIds,
               u # v, Holding(u, q)', Holding(v, q)'
        PROVE  task'[u][q].fence # task'[v][q].fence
    <3>1. CASE q # r \/ (u # w /\ v # w)
      BY <1>4, <1>8, <2>1, <3>1 DEF ExecInv, TokensFit, TokenIsExclusive
    <3>2. CASE q = r /\ u = w
      BY <1>2, <1>4, <1>12, <2>1, <3>2
    <3>3. CASE q = r /\ v = w
      BY <1>2, <1>4, <1>12, <2>1, <3>3
    <3> QED
      BY <3>1, <3>2, <3>3
  <2> QED
    BY <2>1 DEF TokenIsExclusive
<1>14. task'[w][r].fence <= row'[r].fence /\ row'[r].owner \in {w, None}
  BY <1>2, <1>4
<1>15. TokensFit'
  BY <1>11, <1>13, <1>14 DEF TokensFit
<1>16. CancelsOnly(asked')
  BY MoreAsked
<1> QED
  BY <1>5, <1>6, <1>15, <1>16, RestKeeps, Combined

\* Every other step of a task: the row is kept and the task goes on or ends.
LEMMA TaskKeeps ==
  ASSUME ExecInv, RestUnchanged, NEW w \in Workers, NEW r \in RunIds, NEW tk,
         Successor(w, r, tk), Move(w, r, tk), RowsKept, CancelsOnly(asked)
  PROVE  ExecInv'
<1>1. asked' = asked /\ asked \subseteq asked' /\ CancelsOnly(asked')
  BY RestKeeps
<1>2. TasksKept
  BY <1>1, MoveKeeps
<1> QED
  BY <1>1, <1>2, RestKeeps, StepKeeps

LEMMA BeginKeeps ==
  ASSUME ExecInv, NEW w \in Workers, NEW r \in RunIds, Begin(w, r)
  PROVE  ExecInv'
<1>1. RowsFit /\ row[r].fence \in Nat /\ RestUnchanged
  BY DEF ExecInv, RowsFit, Rows, Begin, BeginExecute, BeginResume
<1>2. ASSUME row' = [row EXCEPT ![r] = Running(r, w)],
             Move(w, r, [task[w][r] EXCEPT !.pc = "claimed", !.fence = row'[r].fence])
      PROVE  ExecInv'
  <2>1. /\ RowsKept /\ CancelsOnly({})
        /\ row'[r].fence = row[r].fence + 1 /\ row'[r].owner = w
    BY <1>1, <1>2, RunningKeeps
  <2>2. row'[r].fence \in Nat
    BY <1>1, <2>1
  <2> QED
    BY <1>1, <1>2, <2>1, <2>2, ClaimKeeps
<1>3. ASSUME UNCHANGED row
      PROVE  RowsKept /\ CancelsOnly({}) /\ CancelsOnly(asked)
  BY <1>1, <1>3, SameRows DEF CancelsOnly
<1>4. ASSUME row[r].owner = w, UNCHANGED row,
             Move(w, r, [task[w][r] EXCEPT !.pc = "claimed", !.fence = row[r].fence])
      PROVE  ExecInv'
  BY <1>1, <1>3, <1>4, ClaimKeeps
<1>5. ASSUME UNCHANGED row, Move(w, r, EndedTask(w, r)) \/ Move(w, r, NoTask)
      PROVE  ExecInv'
  BY <1>1, <1>3, <1>5, Endings, TaskKeeps
<1>6. CASE BeginExecute(w, r)
  BY <1>2, <1>4, <1>5, <1>6 DEF BeginExecute, Start, OwnedAlready
<1>7. CASE BeginResume(w, r)
  BY <1>2, <1>4, <1>5, <1>7 DEF BeginResume, Take
<1> QED
  BY <1>6, <1>7 DEF Begin

\* A task that goes on under its token, the row unchanged or paused.
LEMMA GotoKeeps ==
  ASSUME ExecInv, RestUnchanged, NEW w \in Workers, NEW r \in RunIds, Held(task[w][r]),
         NEW pc \in {"working", "paused", "completing", "failing", "interrupted"},
         Goto(w, r, pc), RowsKept, CancelsOnly(asked)
  PROVE  ExecInv'
<1>1. asked \subseteq asked'
  BY RestKeeps
<1>2. Successor(w, r, [task[w][r] EXCEPT !.pc = pc])
  BY <1>1, GoesOn
<1> QED
  BY <1>2, TaskKeeps DEF Goto

LEMMA StillRows ==
  ASSUME ExecInv, UNCHANGED row
  PROVE  RowsKept /\ CancelsOnly(asked)
BY SameRows DEF ExecInv, CancelsOnly

\* finalize for a target that is not cancelled unless it was asked for.
LEMMA ConcludeKeeps ==
  ASSUME ExecInv, RestUnchanged, NEW w \in Workers, NEW r \in RunIds,
         NEW target \in TerminalStatuses, target = "cancelled" => r \in asked,
         NEW refused, Successor(w, r, refused), Conclude(w, r, target, refused)
  PROVE  ExecInv'
<1>1. CASE Finish(r, target, task[w][r].fence) /\ Move(w, r, Leaving(w, r))
  <2>1. RowsKept /\ CancelsOnly(IF target = "cancelled" THEN {r} ELSE {})
    BY <1>1, FinishKeeps DEF ExecInv
  <2>2. CancelsOnly(asked)
    BY <2>1 DEF CancelsOnly
  <2> QED
    BY <1>1, <2>1, <2>2, Endings, TaskKeeps
<1>2. CASE Move(w, r, Leaving(w, r)) /\ UNCHANGED row
  BY <1>2, StillRows, Endings, TaskKeeps
<1>3. CASE Move(w, r, refused) /\ UNCHANGED row
  BY <1>3, StillRows, TaskKeeps
<1> QED
  BY <1>1, <1>2, <1>3 DEF Conclude

LEMMA DispatchKeeps ==
  ASSUME ExecInv, NEW w \in Workers, NEW r \in RunIds, DispatchNext(w, r)
  PROVE  ExecInv'
<1>1. RestUnchanged /\ UNCHANGED row
  BY DEF DispatchNext
<1>2. asked' = asked /\ asked \subseteq asked'
  BY <1>1, RestKeeps
<1>3. \A q \in RunIds :
        /\ Successor(w, q, EndedTask(w, q)) /\ Successor(w, q, SpawnOnce(w, q)[w][q])
        /\ Successor(w, q, task[w][q])
  <2>1. \A q \in RunIds : Successor(w, q, task[w][q])
    BY <1>2 DEF ExecInv, TasksFit, AskedFit, Successor
  <2>2. 0 \in Nat
    OBVIOUS
  <2> QED
    BY <1>2, <2>1, <2>2, Endings, ScheduleKeeps
<1>4. PICK S : task' = [task EXCEPT ![w] = [q \in RunIds |->
          CASE q = r          -> EndedTask(w, r)
            [] q # r /\ q \in S -> SpawnOnce(w, q)[w][q]
            [] OTHER          -> task[w][q]]]
  BY DEF DispatchNext
<1> DEFINE g == [q \in RunIds |->
          CASE q = r          -> EndedTask(w, r)
            [] q # r /\ q \in S -> SpawnOnce(w, q)[w][q]
            [] OTHER          -> task[w][q]]
<1>5. \A q \in RunIds : g[q] \in {EndedTask(w, q), SpawnOnce(w, q)[w][q], task[w][q]}
  OBVIOUS
<1>6. DOMAIN g = RunIds /\ g = [q \in RunIds |-> g[q]]
  OBVIOUS
<1>7. task' = [task EXCEPT ![w] = g]
  BY <1>4
<1> HIDE DEF g
<1>8. \A q \in RunIds : Successor(w, q, g[q])
  BY <1>3, <1>5
<1>9. g \in [RunIds -> Tasks]
  BY <1>6, <1>8 DEF Successor
<1>10. /\ task' \in [Workers -> [RunIds -> Tasks]] /\ task'[w] = g
       /\ \A v \in Workers \ {w} : task'[v] = task[v]
  BY <1>7, <1>9 DEF ExecInv, TasksFit
<1>11. TasksKept
  <2>1. ASSUME NEW v \in Workers, NEW q \in RunIds
        PROVE  /\ Held(task'[v][q]) => Held(task[v][q]) /\ task'[v][q].fence = task[v][q].fence
               /\ task'[v][q].reason = "user" => q \in asked'
    <3>1. CASE v = w
      BY <1>8, <1>10, <3>1 DEF Successor
    <3>2. CASE v # w
      BY <1>2, <1>10, <3>2 DEF ExecInv, AskedFit
    <3> QED
      BY <3>1, <3>2
  <2> QED
    BY <1>10, <2>1 DEF TasksKept
<1> QED
  BY <1>1, <1>2, <1>11, StillRows, RestKeeps, StepKeeps

LEMMA TaskStepKeeps ==
  ASSUME ExecInv, NEW w \in Workers, NEW r \in RunIds, TaskStep(w, r) \/ WorkPauses(w, r)
  PROVE  ExecInv'
<1>1. ASSUME RestUnchanged PROVE asked \subseteq asked'
  BY <1>1, RestKeeps
<1>2. CASE Register(w, r)
  <2>1. Held(task[w][r]) /\ RestUnchanged /\ RowsKept /\ CancelsOnly(asked)
    BY <1>2, StillRows DEF Register, At, Held
  <2>2. CASE flag[r] /\ Move(w, r, [task[w][r] EXCEPT !.pc = "interrupted", !.reason = "user"])
    <3>1. asked \subseteq asked' /\ r \in asked'
      BY <1>1, <2>1, <2>2 DEF ExecInv, AskedFit
    <3>2. Successor(w, r, [task[w][r] EXCEPT !.pc = "interrupted", !.reason = "user"])
      BY <2>1, <3>1, GoesOn
    <3> QED
      BY <2>1, <2>2, <3>2, TaskKeeps
  <2>3. CASE Goto(w, r, "working") \/ Goto(w, r, "failing")
    BY <2>1, <2>3, GotoKeeps
  <2> QED
    BY <1>2, <2>2, <2>3 DEF Register
<1>3. CASE WorkEnds(w, r)
  <2>1. Held(task[w][r]) /\ RestUnchanged /\ RowsKept /\ CancelsOnly(asked)
    BY <1>3, StillRows DEF WorkEnds, At, Held
  <2> QED
    BY <1>3, <2>1, GotoKeeps DEF WorkEnds
<1>4. CASE AfterPause(w, r)
  <2>1. Held(task[w][r]) /\ RestUnchanged /\ RowsKept /\ CancelsOnly(asked)
    BY <1>4, StillRows DEF AfterPause, At, Held
  <2>2. CASE Move(w, r, Leaving(w, r))
    BY <2>1, <2>2, Endings, TaskKeeps
  <2>3. CASE Goto(w, r, "failing")
    BY <2>1, <2>3, GotoKeeps
  <2> QED
    BY <1>4, <2>2, <2>3 DEF AfterPause
<1>5. CASE CompleteRun(w, r)
  <2>1. Held(task[w][r]) /\ RestUnchanged
    BY <1>5 DEF CompleteRun, At, Held
  <2>2. Successor(w, r, [task[w][r] EXCEPT !.pc = "failing"])
    BY <1>1, <2>1, GoesOn
  <2>3. "succeeded" \in TerminalStatuses
    BY DEF TerminalStatuses
  <2> QED
    BY <1>5, <2>1, <2>2, <2>3, ConcludeKeeps DEF CompleteRun
<1>6. CASE FailRun(w, r)
  <2>1. "failed" \in TerminalStatuses /\ Successor(w, r, EndedTask(w, r)) /\ RestUnchanged
    BY <1>6, Endings DEF TerminalStatuses, FailRun
  <2> QED
    BY <1>6, <2>1, ConcludeKeeps DEF FailRun
<1>7. CASE EndInterrupted(w, r)
  <2>1. RestUnchanged
    BY <1>7 DEF EndInterrupted
  <2>2. CASE task[w][r].reason = "ownership_lost"
    BY <1>7, <2>1, <2>2, StillRows, Endings, TaskKeeps DEF EndInterrupted
  <2>3. CASE task[w][r].reason # "ownership_lost"
    <3> DEFINE refused == IF Terminal(r) THEN Leaving(w, r) ELSE EndedTask(w, r)
               target == InterruptTarget(task[w][r].reason)
    <3>1. Successor(w, r, refused)
      BY Endings
    <3>2. target \in TerminalStatuses /\ (target = "cancelled" => r \in asked)
      BY DEF InterruptTarget, TerminalStatuses, ExecInv, AskedFit
    <3>3. Conclude(w, r, target, refused)
      BY <1>7, <2>3 DEF EndInterrupted
    <3> QED
      BY <2>1, <3>1, <3>2, <3>3, ConcludeKeeps
  <2> QED
    BY <2>2, <2>3
<1>8. CASE DispatchNext(w, r)
  BY <1>8, DispatchKeeps
<1>9. CASE WorkPauses(w, r)
  <2>1. Held(task[w][r]) /\ RestUnchanged /\ task[w][r].round \in Nat /\ RowsFit
    BY <1>9 DEF WorkPauses, At, Held, ExecInv, TasksFit, Tasks
  <2>2. CASE Pause(r, w, task[w][r].fence, task[w][r].round) /\ Goto(w, r, "paused")
    <3>1. RowsKept /\ CancelsOnly({})
      BY <2>1, <2>2, PauseKeeps
    <3>2. CancelsOnly(asked)
      BY <3>1 DEF CancelsOnly
    <3> QED
      BY <2>1, <2>2, <3>1, <3>2, GotoKeeps
  <2>3. CASE UNCHANGED row /\ (Goto(w, r, "paused") \/ Goto(w, r, "failing"))
    BY <2>1, <2>3, StillRows, GotoKeeps
  <2> QED
    BY <1>9, <2>2, <2>3 DEF WorkPauses
<1> QED
  BY <1>2, <1>3, <1>4, <1>5, <1>6, <1>7, <1>8, <1>9 DEF TaskStep

-----------------------------------------------------------------------------
(* Cancelled tasks and the store calls they leave behind *)

LEMMA LeftFits ==
  ASSUME ExecInv, asked \subseteq asked', asked' \subseteq RunIds,
         NEW w \in Workers, NEW r \in RunIds, NEW left \in LeftBehind(w, r)
  PROVE  StraysFit(strays \cup left)
<1>1. PICK x \in Tasks : x = task[w][r]
  BY DEF ExecInv, TasksFit
<1>2. x.reason = "user" => r \in asked'
  BY <1>1 DEF ExecInv, AskedFit
<1> DEFINE op == CASE x.pc = "working" -> "pause" [] x.pc = "completing" -> "succeeded"
                   [] x.pc = "failing" -> "failed"
                   [] x.pc = "interrupted" -> InterruptTarget(x.reason)
                   [] x.pc = "waiting" -> x.kind
                   [] OTHER -> "none"
           s == [at |-> w, run |-> r, op |-> op, fence |-> x.fence, round |-> x.round]
<1>3. op \in {"none", "execute", "resume", "pause", "succeeded", "failed", "cancelled"}
  BY DEF Tasks, InterruptTarget
<1>4. op = "cancelled" => x.reason = "user"
  BY DEF Tasks, InterruptTarget
<1>5. left = {} \/ (op # "none" /\ left = {s})
  BY <1>1 DEF LeftBehind, Stray
<1> HIDE DEF op
<1>6. op # "none" => s \in StrayRecords
  BY <1>3 DEF StrayRecords, TerminalStatuses, Tasks
<1>7. s.op = op /\ s.run = r
  OBVIOUS
<1> HIDE DEF s
<1>8. StraysFit(strays)
  BY Unmoved
<1>9. StraysFit(left)
  BY <1>2, <1>4, <1>5, <1>6, <1>7 DEF StraysFit
<1> QED
  BY <1>8, <1>9 DEF StraysFit

\* A call left behind: what it does to the rows.
LEMMA StrayRows ==
  ASSUME ExecInv, NEW s \in strays, StrayEffect(s)
  PROVE  RowsKept /\ CancelsOnly(asked)
<1>1. /\ s.at \in Workers /\ s.run \in RunIds /\ s.round \in Nat
      /\ s.op \in {"execute", "resume", "pause"} \cup TerminalStatuses
      /\ s.op = "cancelled" => s.run \in asked
      /\ RowsFit
  BY DEF ExecInv, RestFit, AskedFit, StrayRecords
<1>2. ASSUME RowsKept, CancelsOnly({}) PROVE RowsKept /\ CancelsOnly(asked)
  BY <1>2 DEF CancelsOnly
<1>3. CASE s.op \in {"execute", "resume"}
  <2>1. row' = [row EXCEPT ![s.run] = Running(s.run, s.at)]
    BY <1>3 DEF StrayEffect, Start, Take
  <2> QED
    BY <1>1, <1>2, <2>1, RunningKeeps
<1>4. CASE s.op = "pause"
  <2>1. Pause(s.run, s.at, s.fence, s.round)
    BY <1>4 DEF StrayEffect
  <2> QED
    BY <1>1, <1>2, <2>1, PauseKeeps
<1>5. CASE s.op \in TerminalStatuses
  <2>1. Finish(s.run, s.op, s.fence)
    BY <1>5 DEF StrayEffect, TerminalStatuses
  <2>2. RowsKept /\ CancelsOnly(IF s.op = "cancelled" THEN {s.run} ELSE {})
    BY <1>1, <1>5, <2>1, FinishKeeps
  <2> QED
    BY <1>1, <2>2 DEF CancelsOnly
<1> QED
  BY <1>1, <1>3, <1>4, <1>5

LEMMA StrayCallKeeps ==
  ASSUME ExecInv, NEW w \in Workers, StrayCall(w)
  PROVE  ExecInv'
<1>1. PICK s \in strays :
        /\ StrayEffect(s) \/ UNCHANGED row
        /\ strays' = strays \ {s}
        /\ UNCHANGED <<phase, task, dispatcher, calls, flag, asked, requests>>
  BY DEF StrayCall
<1>2. asked' = asked /\ asked \subseteq asked' /\ asked' \subseteq RunIds
  BY <1>1 DEF ExecInv, RestFit
<1>3. RowsKept /\ CancelsOnly(asked')
  BY <1>1, <1>2, StrayRows, StillRows
<1>4. CallsFit(calls') /\ ProcessesFit /\ StraysFit(strays)
  BY <1>1, <1>2, Unmoved
<1>5. StraysFit(strays')
  BY <1>1, <1>4 DEF StraysFit
<1>6. TasksKept
  BY <1>1, <1>2, SameTasks
<1> QED
  BY <1>2, <1>3, <1>4, <1>5, <1>6, StepKeeps

LEMMA HeartbeatKeeps ==
  ASSUME ExecInv, NEW w \in Workers, NEW r \in RunIds, Heartbeat(w, r)
  PROVE  ExecInv'
<1>1. /\ asked' = asked /\ asked \subseteq asked' /\ asked' \subseteq RunIds
      /\ calls' = calls /\ UNCHANGED <<phase, dispatcher, flag>>
  BY DEF Heartbeat, ExecInv, RestFit
<1>2. CallsFit(calls') /\ ProcessesFit /\ StraysFit(strays)
  BY <1>1, Unmoved
<1>3. RowsKept /\ CancelsOnly(asked')
  <2>1. CASE Renew(r, w, task[w][r].fence)
    <3>1. RowsKept /\ CancelsOnly({})
      BY <2>1, RenewKeeps DEF ExecInv, Renew
    <3> QED
      BY <3>1, MoreAsked
  <2>2. CASE UNCHANGED row
    BY <1>1, <2>2, StillRows
  <2> QED
    BY <2>1, <2>2 DEF Heartbeat
<1>4. CASE UNCHANGED <<task, strays>>
  BY <1>1, <1>2, <1>3, <1>4, SameTasks, StepKeeps
<1>5. ASSUME NEW reason \in {"user", "ownership_lost"}, reason = "user" => r \in asked',
             Move(w, r, CancelledTask(w, r, reason)),
             NEW left \in LeftBehind(w, r), strays' = strays \cup left
      PROVE  ExecInv'
  <2>1. TasksKept
    BY <1>1, <1>5, CancelledKeeps, MoveKeeps
  <2>2. StraysFit(strays')
    BY <1>1, <1>5, LeftFits
  <2> QED
    BY <1>1, <1>2, <1>3, <2>1, <2>2, StepKeeps
<1>6. row[r].status = "cancelling" => r \in asked'
  BY <1>1 DEF ExecInv, AskedFit, NeverCancelledUnasked
<1> QED
  BY <1>4, <1>5, <1>6 DEF Heartbeat

-----------------------------------------------------------------------------
(* The recovery pass, close, exit and crash *)

LEMMA DispatcherFits ==
  ASSUME ExecInv, NEW w \in Workers, NEW d \in Passes, OnlyDispatcher(w, d)
  PROVE  /\ asked' = asked /\ asked \subseteq asked'
         /\ CallsFit(calls') /\ StraysFit(strays') /\ ProcessesFit
<1>1. /\ asked' = asked /\ asked \subseteq asked' /\ asked' \subseteq RunIds
      /\ calls' = calls /\ strays' = strays
  BY DEF OnlyDispatcher, ExecInv, RestFit
<1>2. ProcessesFit
  BY <1>1 DEF OnlyDispatcher, ExecInv, RestFit, AskedFit, ProcessesFit
<1> QED
  BY <1>1, <1>2, Unmoved

LEMMA ListedFits ==
  ASSUME ExecInv, NEW w \in Workers, NEW item \in dispatcher[w].todo
  PROVE  /\ item[1] \in RunIds /\ item[2] \in Nat
         /\ [dispatcher[w] EXCEPT !.todo = @ \ {item}] \in Passes
<1>1. PICK x \in Passes : x = dispatcher[w]
  BY DEF ExecInv, RestFit
<1>2. item \in RunIds \X Nat
  BY <1>1 DEF Passes
<1>3. [x EXCEPT !.todo = x.todo \ {item}] \in Passes
  BY DEF Passes
<1> QED
  BY <1>1, <1>2, <1>3

LEMMA PassKeeps ==
  ASSUME ExecInv, NEW w \in Workers, DispatcherStep(w)
  PROVE  ExecInv'
<1>1. ASSUME NEW d \in Passes, OnlyDispatcher(w, d), RowsKept, CancelsOnly(asked), TasksKept
      PROVE  ExecInv'
  BY <1>1, DispatcherFits, StepKeeps
<1>2. \A r \in RunIds : row[r].fence \in Nat /\ row[r].rounds \in Nat
  BY DEF ExecInv, RowsFit, Rows
<1>3. ASSUME NEW pc \in {"spawning", "reconciling", "resuming"}, NEW S \in SUBSET (RunIds \X Nat),
             OnlyDispatcher(w, [pc |-> pc, todo |-> S]), UNCHANGED <<row, task>>
      PROVE  ExecInv'
  <2>1. [pc |-> pc, todo |-> S] \in Passes
    BY DEF Passes
  <2>2. asked \subseteq asked'
    BY <1>3 DEF OnlyDispatcher
  <2> QED
    BY <1>1, <1>3, <2>1, <2>2, StillRows, SameTasks
<1>4. CASE ListOrphans(w)
  BY <1>2, <1>3, <1>4 DEF ListOrphans
<1>5. CASE ListResumes(w)
  BY <1>2, <1>3, <1>5 DEF ListResumes
<1>6. CASE ListPending(w)
  BY <1>3, <1>6 DEF ListPending
<1>7. CASE ReconcileListed(w)
  <2>1. PICK item \in dispatcher[w].todo :
          /\ Finish(item[1], "failed", item[2]) \/ UNCHANGED row
          /\ Listed(w, item) /\ UNCHANGED task
    BY <1>7 DEF ReconcileListed
  <2>2. item[1] \in RunIds /\ [dispatcher[w] EXCEPT !.todo = @ \ {item}] \in Passes
    BY ListedFits
  <2>3. RowsKept /\ CancelsOnly(asked)
    <3>1. CASE Finish(item[1], "failed", item[2])
      <4>1. RowsKept /\ CancelsOnly({})
        BY <2>2, <3>1, FinishKeeps DEF ExecInv, TerminalStatuses
      <4> QED
        BY <4>1 DEF CancelsOnly
    <3>2. CASE UNCHANGED row
      BY <3>2, StillRows
    <3> QED
      BY <2>1, <3>1, <3>2
  <2>4. asked \subseteq asked'
    BY <2>1 DEF Listed, OnlyDispatcher
  <2> QED
    BY <1>1, <2>1, <2>2, <2>3, <2>4, SameTasks DEF Listed
<1>8. CASE ResumeListed(w)
  <2>1. PICK item \in dispatcher[w].todo :
          task' = ResumeOnce(w, item[1], item[2]) /\ Listed(w, item) /\ UNCHANGED row
    BY <1>8 DEF ResumeListed
  <2>2. /\ item[1] \in RunIds /\ item[2] \in Nat
        /\ [dispatcher[w] EXCEPT !.todo = @ \ {item}] \in Passes
    BY ListedFits
  <2>3. asked \subseteq asked'
    BY <2>1 DEF Listed, OnlyDispatcher
  <2>4. TasksKept
    BY <2>1, <2>2, <2>3, ScheduleKeeps
  <2> QED
    BY <1>1, <2>1, <2>2, <2>4, StillRows DEF Listed
<1>9. CASE SpawnListed(w)
  <2>1. PICK item \in dispatcher[w].todo :
          task' = SpawnOnce(w, item[1]) /\ Listed(w, item) /\ UNCHANGED row
    BY <1>9 DEF SpawnListed
  <2>2. /\ item[1] \in RunIds /\ item[2] \in Nat
        /\ [dispatcher[w] EXCEPT !.todo = @ \ {item}] \in Passes
    BY ListedFits
  <2>3. asked \subseteq asked'
    BY <2>1 DEF Listed, OnlyDispatcher
  <2>4. TasksKept
    BY <2>1, <2>2, <2>3, ScheduleKeeps
  <2> QED
    BY <1>1, <2>1, <2>2, <2>4, StillRows DEF Listed
<1> QED
  BY <1>4, <1>5, <1>6, <1>7, <1>8, <1>9 DEF DispatcherStep

LEMMA ShutdownKeeps ==
  ASSUME ExecInv, NEW w \in Workers, Close(w) \/ CloseTask(w) \/ Exit(w) \/ Crash(w)
  PROVE  ExecInv'
<1>1. asked' = asked /\ asked \subseteq asked' /\ asked' \subseteq RunIds /\ UNCHANGED <<row, flag>>
  BY DEF Close, CloseTask, Exit, Crash, ExecInv, RestFit
<1>2. RowsKept /\ CancelsOnly(asked')
  BY <1>1, StillRows
<1>3. CallsFit(calls) /\ StraysFit(strays)
  BY <1>1, Unmoved
<1>4. CallsFit(calls')
  BY <1>3 DEF CallsFit, Close, CloseTask, Exit, Crash
<1>5. ASSUME phase' \in [Workers -> {"up", "closing", "down"}], dispatcher' \in [Workers -> Passes]
      PROVE  ProcessesFit
  BY <1>1, <1>5 DEF ProcessesFit, ExecInv, RestFit, AskedFit
<1>6. phase \in [Workers -> {"up", "closing", "down"}] /\ dispatcher \in [Workers -> Passes]
  BY DEF ExecInv, RestFit
<1>7. CASE Close(w)
  <2> DEFINE d == [pc |-> "closing", todo |-> {<<r, 0>> : r \in {q \in RunIds : HasTask(w, q)}}]
  <2>1. d \in Passes
    BY DEF Passes
  <2>2. dispatcher' = [dispatcher EXCEPT ![w] = d]
    BY <1>7 DEF Close
  <2> HIDE DEF d
  <2>3. dispatcher' \in [Workers -> Passes]
    BY <1>6, <2>1, <2>2
  <2>4. phase' \in [Workers -> {"up", "closing", "down"}] /\ UNCHANGED <<task, strays>>
    BY <1>6, <1>7 DEF Close
  <2> QED
    BY <1>1, <1>2, <1>3, <1>4, <1>5, <2>3, <2>4, SameTasks, StepKeeps
<1>8. CASE CloseTask(w)
  <2>1. PICK item \in dispatcher[w].todo :
          /\ dispatcher' = [dispatcher EXCEPT ![w].todo = @ \ {item}]
          /\ Move(w, item[1], IF Registered(w, item[1]) THEN CancelledTask(w, item[1], "shutdown") ELSE NoTask)
          /\ \E left \in LeftBehind(w, item[1]) : strays' = strays \cup left
          /\ UNCHANGED phase
    BY <1>8 DEF CloseTask
  <2>2. item[1] \in RunIds /\ [dispatcher[w] EXCEPT !.todo = @ \ {item}] \in Passes
    BY ListedFits
  <2>3. dispatcher' = [dispatcher EXCEPT ![w] = [dispatcher[w] EXCEPT !.todo = @ \ {item}]]
    BY <1>6, <2>1
  <2>4. dispatcher' \in [Workers -> Passes]
    BY <1>6, <2>2, <2>3
  <2>5. ProcessesFit
    BY <1>5, <1>6, <2>1, <2>4
  <2>6. StraysFit(strays')
    BY <1>1, <2>1, <2>2, LeftFits
  <2>7. /\ Successor(w, item[1], CancelledTask(w, item[1], "shutdown"))
        /\ Successor(w, item[1], NoTask)
    BY <1>1, <2>2, CancelledKeeps, Endings
  <2>8. TasksKept
    BY <1>1, <2>1, <2>2, <2>7, MoveKeeps
  <2> QED
    BY <1>1, <1>2, <1>4, <2>5, <2>6, <2>8, StepKeeps
<1>9. CASE Exit(w)
  <2>1. /\ phase' \in [Workers -> {"up", "closing", "down"}]
        /\ UNCHANGED <<task, strays, dispatcher>>
    BY <1>6, <1>9 DEF Exit
  <2> QED
    BY <1>1, <1>2, <1>3, <1>4, <1>5, <1>6, <2>1, SameTasks, StepKeeps
<1>10. CASE Crash(w)
  <2>1. Idle \in Passes
    BY DEF Idle, Passes
  <2>2. phase' \in [Workers -> {"up", "closing", "down"}] /\ dispatcher' \in [Workers -> Passes]
    BY <1>6, <1>10, <2>1 DEF Crash
  <2>3. StraysFit(strays')
    BY <1>3, <1>10 DEF StraysFit, Crash
  <2>4. NoTask \in Tasks /\ NoTask.reason = "none" /\ ~Held(NoTask)
    BY Endings DEF NoTask, Held, Tasks
  <2>5. task' = [task EXCEPT ![w] = [r \in RunIds |-> NoTask]]
    BY <1>10 DEF Crash
  <2>6. /\ task' \in [Workers -> [RunIds -> Tasks]]
        /\ \A r \in RunIds : task'[w][r] = NoTask
        /\ \A v \in Workers \ {w} : task'[v] = task[v]
    BY <2>4, <2>5 DEF ExecInv, TasksFit
  <2>7. TasksKept
    BY <1>1, <2>4, <2>6 DEF TasksKept, ExecInv, AskedFit
  <2> QED
    BY <1>1, <1>2, <1>4, <1>5, <2>2, <2>3, <2>7, StepKeeps
<1> QED
  BY <1>7, <1>8, <1>9, <1>10

-----------------------------------------------------------------------------
(* The HTTP handlers *)

\* A handler's record.
LEMMA CallFits ==
  ASSUME NEW op \in {"spawn", "read", "cancel", "signal", "notify", "heard", "resume"},
         NEW w \in Workers, NEW r \in RunIds,
         NEW seen \in RunStatuses \cup {"absent", None} \cup Nat, NEW then \in RunIds \cup {None},
         op \in CancelOps => r \in asked', op = "resume" => seen \in Nat
  PROVE  CallsFit({Call(op, w, r, seen, then)})
<1> DEFINE c == Call(op, w, r, seen, then)
<1>1. c \in CallRecords /\ c.op = op /\ c.run = r /\ c.seen = seen
  BY DEF Call, CallRecords
<1> QED
  BY <1>1 DEF CallsFit

LEMMA SpawningFits ==
  ASSUME NEW w \in Workers, NEW r \in RunIds \cup {None}
  PROVE  CallsFit(Spawning(w, r))
<1>1. CASE r = None
  BY <1>1 DEF Spawning, CallsFit
<1>2. CASE r # None
  <2>1. CallsFit({Call("spawn", w, r, None, None)})
    BY <1>2, CallFits DEF CancelOps
  <2> QED
    BY <1>2, <2>1 DEF Spawning
<1> QED
  BY <1>1, <1>2

LEMMA CallsJoin ==
  ASSUME NEW A, NEW B, NEW D, CallsFit(A), CallsFit(B), D \subseteq A \cup B
  PROVE  CallsFit(D)
BY DEF CallsFit

LEMMA CallsUnion ==
  ASSUME NEW A, NEW B, CallsFit(A), CallsFit(B)
  PROVE  CallsFit(A \cup B)
BY DEF CallsFit

\* What POST runs, POST cancel and POST resume do.
LEMMA PostKeeps ==
  ASSUME ExecInv, NEW w \in Workers, NEW r \in RunIds,
         \/ \E t \in Threads : PostRun(w, r, t)
         \/ ReplayPost(w, r) \/ PostCancel(w, r) \/ PostAnswer(w, r)
  PROVE  ExecInv'
<1>1. asked \subseteq RunIds
  BY DEF ExecInv, RestFit
<1>2. ASSUME asked \subseteq asked', asked' \subseteq RunIds, UNCHANGED <<task, strays>>,
             RowsKept, CancelsOnly({}) \/ CancelsOnly(asked'),
             NEW new, CallsFit(new), OnlyCalls(calls \cup new)
      PROVE  ExecInv'
  <2>1. CallsFit(calls) /\ StraysFit(strays') /\ ProcessesFit
    BY <1>2, Unmoved DEF OnlyCalls
  <2>2. CallsFit(calls')
    BY <1>2, <2>1, CallsJoin DEF OnlyCalls
  <2>3. TasksKept /\ CancelsOnly(asked')
    BY <1>2, SameTasks DEF CancelsOnly
  <2> QED
    BY <1>2, <2>1, <2>2, <2>3, StepKeeps
<1>3. ASSUME UNCHANGED row PROVE RowsKept /\ CancelsOnly({})
  BY <1>3, SameRows DEF ExecInv
<1>4. ASSUME NEW t \in Threads, PostRun(w, r, t) PROVE ExecInv'
  <2>1. RowsKept /\ CancelsOnly({}) /\ UNCHANGED <<task, strays>>
    BY <1>4, CreateKeeps DEF PostRun, ExecInv
  <2>2. CASE OnlyCalls(calls \cup Spawning(w, r)) /\ UNCHANGED asked
    BY <1>1, <1>2, <2>1, <2>2, SpawningFits
  <2>3. ASSUME NEW q \in FirstOf(ActiveIn(t)), asked' = asked \cup {q},
               OnlyCalls(calls \cup {Call("read", w, q, None, r)})
        PROVE  ExecInv'
    <3>1. q \in RunIds /\ asked \subseteq asked' /\ asked' \subseteq RunIds /\ q \in asked'
      BY <1>1, <2>3 DEF FirstOf, ActiveIn
    <3>2. CallsFit({Call("read", w, q, None, r)})
      BY <3>1, CallFits
    <3> QED
      BY <1>2, <2>1, <2>3, <3>1, <3>2
  <2> QED
    BY <1>4, <2>2, <2>3 DEF PostRun
<1>5. CASE ReplayPost(w, r)
  BY <1>1, <1>2, <1>3, <1>5, SpawningFits DEF ReplayPost
<1>6. CASE PostCancel(w, r)
  <2>1. /\ asked \subseteq asked' /\ asked' \subseteq RunIds /\ r \in asked'
        /\ UNCHANGED <<row, task, strays>>
        /\ OnlyCalls(calls \cup {Call("read", w, r, None, None)})
    BY <1>1, <1>6 DEF PostCancel
  <2>2. CallsFit({Call("read", w, r, None, None)})
    BY <2>1, CallFits
  <2> QED
    BY <1>2, <1>3, <2>1, <2>2
<1>7. CASE PostAnswer(w, r)
  <2>1. /\ RowsKept /\ CancelsOnly({}) /\ asked' = asked /\ UNCHANGED <<task, strays>>
        /\ OnlyCalls(calls \cup {Call("resume", w, r, row[r].rounds, None)})
    BY <1>7, AcceptKeeps DEF PostAnswer, ExecInv
  <2>2. row[r].rounds \in Nat
    BY DEF ExecInv, RowsFit, Rows
  <2>3. CallsFit({Call("resume", w, r, row[r].rounds, None)})
    BY <2>2, CallFits DEF CancelOps
  <2> QED
    BY <1>1, <1>2, <2>1, <2>3
<1> QED
  BY <1>4, <1>5, <1>6, <1>7

LEMMA CallKeeps ==
  ASSUME ExecInv, NEW c \in calls,
         \/ ReadCall(c) \/ CancelCall(c) \/ SignalCall(c) \/ NotifyCall(c)
         \/ HeardCall(c) \/ SpawnCall(c) \/ ResumeCall(c)
  PROVE  ExecInv'
<1>1. /\ c.at \in Workers /\ c.run \in RunIds /\ c.then \in RunIds \cup {None}
      /\ c.op \in CancelOps => c.run \in asked
      /\ c.op = "resume" => c.seen \in Nat
  BY DEF ExecInv, RestFit, AskedFit, CallRecords
<1>2. asked' = asked /\ asked \subseteq asked' /\ asked' \subseteq RunIds
  BY DEF ReadCall, CancelCall, SignalCall, NotifyCall, HeardCall, SpawnCall, ResumeCall, ExecInv, RestFit
<1>3. CallsFit(calls) /\ StraysFit(strays)
  BY <1>2, Unmoved
<1>4. ASSUME NEW new, CallsFit(new), OnlyCalls((calls \ {c}) \cup new) PROVE CallsFit(calls') /\ ProcessesFit
  BY <1>2, <1>3, <1>4, CallsJoin, Unmoved DEF OnlyCalls
<1>5. ASSUME OnlyCalls(calls \ {c}) PROVE CallsFit(calls') /\ ProcessesFit
  BY <1>2, <1>3, <1>5, Unmoved DEF OnlyCalls, CallsFit
<1>6. ASSUME UNCHANGED row PROVE RowsKept /\ CancelsOnly(asked')
  BY <1>2, <1>6, StillRows
<1>7. \A r \in RunIds : row[r].status \in RunStatuses \cup {"absent"}
  BY DEF ExecInv, RowsFit, Rows
<1>8. ASSUME UNCHANGED <<task, strays>>, CallsFit(calls'), ProcessesFit, RowsKept, CancelsOnly(asked')
      PROVE  ExecInv'
  BY <1>2, <1>3, <1>8, SameTasks, StepKeeps
<1>9. ASSUME CancelLocal(c.at, c.run), c.run \in asked', CallsFit(calls'), ProcessesFit, UNCHANGED row
      PROVE  ExecInv'
  <2>1. PICK left \in LeftBehind(c.at, c.run) : strays' \in {strays, strays \cup left}
    BY <1>9 DEF CancelLocal
  <2>2. StraysFit(strays')
    BY <1>1, <1>2, <1>3, <2>1, LeftFits
  <2>3. Successor(c.at, c.run, CancelledTask(c.at, c.run, "user"))
    BY <1>1, <1>2, <1>9, CancelledKeeps
  <2>4. TasksKept
    BY <1>1, <1>2, <1>9, <2>3, MoveKeeps DEF CancelLocal
  <2> QED
    BY <1>2, <1>6, <1>9, <2>2, <2>4, StepKeeps
<1>10. CASE ReadCall(c)
  <2> DEFINE op == IF Terminal(c.run) THEN "signal" ELSE "cancel"
  <2>1. op \in {"signal", "cancel"} /\ c.run \in asked'
    BY <1>1, <1>2, <1>10 DEF ReadCall, CancelOps
  <2>2. /\ OnlyCalls((calls \ {c}) \cup {Call(op, c.at, c.run, row[c.run].status, c.then)})
        /\ UNCHANGED <<row, task, strays>>
    BY <1>10 DEF ReadCall
  <2> HIDE DEF op
  <2>3. CallsFit({Call(op, c.at, c.run, row[c.run].status, c.then)})
    BY <1>1, <1>7, <2>1, CallFits
  <2> QED
    BY <1>4, <1>6, <1>8, <2>2, <2>3
<1>11. CASE CancelCall(c)
  <2> DEFINE new == {Call("signal", c.at, c.run, row'[c.run].status, c.then)}
  <2>0. /\ c.op = "cancel" /\ UNCHANGED <<task, strays>>
        /\ Finish(c.run, "cancelled", None) \/ RequestCancel(c.run) \/ UNCHANGED row
        /\ OnlyCalls((calls \ {c}) \cup new) \/ OnlyCalls(calls \ {c})
    BY <1>11, Zenon DEF CancelCall
  <2>1. c.run \in asked' /\ UNCHANGED <<task, strays>>
    BY <1>1, <1>2, <2>0 DEF CancelOps
  <2>2. RowsKept /\ CancelsOnly(asked')
    <3>1. CASE Finish(c.run, "cancelled", None)
      <4>1. RowsKept /\ CancelsOnly({c.run})
        BY <1>1, <3>1, FinishKeeps DEF ExecInv, TerminalStatuses
      <4> QED
        BY <2>1, <4>1, MoreAsked
    <3>2. CASE RequestCancel(c.run)
      <4>1. RowsKept /\ CancelsOnly({c.run})
        BY <1>1, <3>2, RequestCancelKeeps DEF ExecInv
      <4> QED
        BY <2>1, <4>1, MoreAsked
    <3>3. CASE UNCHANGED row
      BY <1>6, <3>3
    <3> QED
      BY <2>0, <3>1, <3>2, <3>3
  <2>3. row'[c.run].status \in RunStatuses \cup {"absent"}
    BY <1>1, <2>2 DEF RowsKept, Rows
  <2>4. CallsFit(new)
    BY <1>1, <2>1, <2>3, CallFits
  <2> HIDE DEF new
  <2>5. CallsFit(calls') /\ ProcessesFit
    BY <1>4, <1>5, <2>0, <2>4
  <2> QED
    BY <1>8, <2>1, <2>2, <2>5
<1>12. CASE SignalCall(c)
  <2>1. c.run \in asked' /\ UNCHANGED row
    BY <1>1, <1>2, <1>12 DEF SignalCall, CancelOps
  <2>2. CallsFit({Call("notify", c.at, c.run, None, c.then)})
    BY <1>1, <2>1, CallFits
  <2> QED
    BY <1>4, <1>5, <1>6, <1>8, <1>9, <1>12, <2>1, <2>2 DEF SignalCall
<1>13. CASE NotifyCall(c)
  <2>1. /\ c.run \in asked'
        /\ UNCHANGED <<row, phase, task, dispatcher, strays>>
    BY <1>1, <1>2, <1>13 DEF NotifyCall, CancelOps
  <2>2. flag' \in [RunIds -> BOOLEAN] /\ \A r \in RunIds : flag'[r] => r \in asked'
    BY <1>1, <1>2, <1>13, <2>1 DEF NotifyCall, ExecInv, RestFit, AskedFit
  <2>3. ProcessesFit
    BY <1>2, <2>1, <2>2 DEF ProcessesFit, ExecInv, RestFit
  <2>4. \A w \in Workers : CallsFit({Call("heard", w, c.run, None, None)})
    BY <1>1, <2>1, CallFits
  <2>5. ASSUME NEW heard \in SUBSET Workers PROVE CallsFit({Call("heard", w, c.run, None, None) : w \in heard})
    BY <2>4 DEF CallsFit
  <2>6. CallsFit(Spawning(c.at, c.then)) /\ CallsFit(calls \ {c})
    BY <1>1, <1>3, SpawningFits DEF CallsFit
  <2>7. CallsFit(calls')
    <3> DEFINE kept == (calls \ {c}) \cup Spawning(c.at, c.then)
    <3>0. CallsFit(kept)
      BY <2>6, CallsUnion
    <3>1. CASE calls' = kept
      BY <3>0, <3>1
    <3>2. ASSUME NEW heard \in SUBSET Workers,
                 calls' = kept \cup {Call("heard", w, c.run, None, None) : w \in heard}
          PROVE  CallsFit(calls')
      <4> DEFINE news == {Call("heard", w, c.run, None, None) : w \in heard}
      <4>1. CallsFit(news)
        BY <2>5
      <4> HIDE DEF news, kept
      <4>2. CallsFit(kept \cup news)
        BY <3>0, <4>1, CallsUnion
      <4> QED
        BY <3>2, <4>2 DEF news
    <3> QED
      BY <1>13, <3>1, <3>2 DEF NotifyCall
  <2> QED
    BY <1>6, <1>8, <2>1, <2>3, <2>7
<1>14. CASE HeardCall(c)
  <2>1. c.run \in asked' /\ UNCHANGED row
    BY <1>1, <1>2, <1>14 DEF HeardCall, CancelOps
  <2> QED
    BY <1>5, <1>9, <1>14, <2>1 DEF HeardCall
<1>15. CASE SpawnCall(c) \/ ResumeCall(c)
  <2>1. OnlyCalls(calls \ {c}) /\ UNCHANGED <<row, strays>>
    BY <1>15 DEF SpawnCall, ResumeCall
  <2>2. ASSUME SpawnCall(c) PROVE TasksKept
    <3>1. 0 \in Nat /\ task' = SpawnOnce(c.at, c.run)
      BY <2>2 DEF SpawnCall
    <3> QED
      BY <1>1, <1>2, <3>1, ScheduleKeeps
  <2>3. ASSUME ResumeCall(c) PROVE TasksKept
    <3>1. c.seen \in Nat /\ task' = ResumeOnce(c.at, c.run, c.seen)
      BY <1>1, <2>3 DEF ResumeCall
    <3> QED
      BY <1>1, <1>2, <3>1, ScheduleKeeps
  <2> QED
    BY <1>2, <1>3, <1>5, <1>6, <1>15, <2>1, <2>2, <2>3, StepKeeps
<1> QED
  BY <1>10, <1>11, <1>12, <1>13, <1>14, <1>15

-----------------------------------------------------------------------------
(* The theorems *)

LEMMA InitFits == Init => ExecInv
<1> SUFFICES ASSUME Init PROVE ExecInv
  OBVIOUS
<1>1. AbsentRow \in Rows /\ AbsentRow.status = "absent" /\ AbsentRow.fence = 0
  BY DEF AbsentRow, Rows
<1>2. row = [r \in RunIds |-> AbsentRow]
  BY DEF Init, NoRuns
<1>3. RowsFit /\ NeverCancelledUnasked
  BY <1>1, <1>2 DEF RowsFit, NeverCancelledUnasked
<1>4. NoTask \in Tasks /\ NoTask.pc = "none" /\ NoTask.reason = "none"
  BY DEF NoTask, Tasks
<1>5. task = [w \in Workers |-> [r \in RunIds |-> NoTask]]
  BY DEF Init
<1>6. TasksFit /\ \A w \in Workers, r \in RunIds : task[w][r] = NoTask
  BY <1>4, <1>5 DEF TasksFit
<1>7. TokensFit
  BY <1>4, <1>6 DEF TokensFit, TokenIsExclusive, Holding, Registered
<1>8. Idle \in Passes
  BY DEF Idle, Passes
<1>9. AskedFit
  BY <1>3, <1>4, <1>6 DEF Init, AskedFit
<1>10. RestFit
  BY <1>8 DEF Init, RestFit
<1> QED
  BY <1>3, <1>6, <1>7, <1>9, <1>10 DEF ExecInv

LEMMA StutterFits ==
  ASSUME ExecInv, UNCHANGED allVars
  PROVE  ExecInv'
BY DEF ExecInv, RowsFit, TasksFit, TokensFit, AskedFit, RestFit, TokenIsExclusive, Holding,
       Registered, NeverCancelledUnasked, allVars, execVars

LEMMA LeaseKeeps ==
  ASSUME ExecInv, NEW r \in RunIds, LeaseRunsOut(r)
  PROVE  ExecInv'
<1>1. RowsKept /\ CancelsOnly({}) /\ RestUnchanged /\ UNCHANGED task
  BY RenewKeeps DEF LeaseRunsOut, execVars, RestUnchanged, ExecInv
<1>2. asked \subseteq asked' /\ CancelsOnly(asked')
  BY <1>1, RestKeeps, MoreAsked
<1> QED
  BY <1>1, <1>2, SameTasks, RestKeeps, StepKeeps

LEMMA ExecutionInvariant == Spec => []ExecInv
<1>1. Init => ExecInv
  BY InitFits
<1>2. ExecInv /\ [Next /\ UNCHANGED setting]_<<allVars, setting>> => ExecInv'
  <2> SUFFICES ASSUME ExecInv, [Next /\ UNCHANGED setting]_<<allVars, setting>> PROVE ExecInv'
    OBVIOUS
  <2>1. CASE UNCHANGED <<allVars, setting>>
    BY <2>1, StutterFits
  <2>2. CASE Next
    <3>1. ASSUME NEW w \in Workers, NEW r \in RunIds,
                 \/ Begin(w, r) \/ TaskStep(w, r) \/ WorkPauses(w, r) \/ Heartbeat(w, r)
                 \/ \E t \in Threads : PostRun(w, r, t)
                 \/ ReplayPost(w, r) \/ PostCancel(w, r) \/ PostAnswer(w, r)
          PROVE  ExecInv'
      BY <3>1, BeginKeeps, TaskStepKeeps, HeartbeatKeeps, PostKeeps
    <3>2. ASSUME NEW w \in Workers,
                 \/ DispatcherStep(w) \/ StrayCall(w)
                 \/ Close(w) \/ CloseTask(w) \/ Exit(w) \/ Crash(w)
          PROVE  ExecInv'
      BY <3>2, PassKeeps, StrayCallKeeps, ShutdownKeeps
    <3>3. CASE CallStep
      BY <3>3, CallKeeps DEF CallStep
    <3>4. ASSUME NEW r \in RunIds, LeaseRunsOut(r) PROVE ExecInv'
      BY <3>4, LeaseKeeps
    <3> QED
      BY <2>2, <3>1, <3>2, <3>3, <3>4 DEF Next
  <2> QED
    BY <2>1, <2>2
<1> QED
  BY <1>1, <1>2, PTL DEF Spec

\* Two executors never hold the same token of a Run, whatever claims, resumes,
\* crashes, shutdowns, expired leases and late threads came before; every record of
\* the executors is one that the code can hold.
THEOREM TokensHoldHolds == Spec => []TokensHold
<1>1. ExecInv => TokensHold
  BY DEF ExecInv, RowsFit, TasksFit, TokensFit, RestFit, TokensHold, TypeOK, Tasks, CallRecords,
         StrayRecords
<1> QED
  BY <1>1, ExecutionInvariant, PTL

\* A Run becomes cancelling or cancelled only for a client that asked for it: the
\* local signal, the Redis key, the pub/sub message, the heartbeat and the calls that
\* a cancelled task leaves behind all go back to a request.
THEOREM NeverCancelledUnaskedHolds == Spec => []NeverCancelledUnasked
<1>1. ExecInv => NeverCancelledUnasked
  BY DEF ExecInv, AskedFit
<1> QED
  BY <1>1, ExecutionInvariant, PTL

=============================================================================
