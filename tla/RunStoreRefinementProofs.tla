---------------------- MODULE RunStoreRefinementProofs ----------------------
(***************************************************************************)
(* RunStore implements RunLifecycle: every transaction moves one abstract  *)
(* row as the life cycle allows, or none.                                  *)
(***************************************************************************)
EXTENDS RunStoreJournalProofs

OpenRound(r) == checkpoints[r] # <<>> /\ ~checkpoints[r][Len(checkpoints[r])].consumed

\* The rows of RunLifecycle.
RowSet == [status : RunStatuses \cup {"absent"}, thread : Threads \cup {None},
           owner : Workers \cup {None}, fence : Nat, lease : LeaseStates,
           rounds : Nat, open : BOOLEAN]

LEMMA RowFields ==
  ASSUME NEW r \in RunIds
  PROVE  /\ AbstractRows[r] = RowOf(r)
         /\ AbstractRows[r].status = run[r].status /\ AbstractRows[r].thread = run[r].thread
         /\ AbstractRows[r].owner = run[r].owner /\ AbstractRows[r].fence = run[r].fence
         /\ AbstractRows[r].lease = run[r].lease /\ AbstractRows[r].open = OpenRound(r)
         /\ AbstractRows[r].rounds = Len(checkpoints[r])
BY DEF AbstractRows, RowOf, OpenRound

LEMMA RowTyped ==
  ASSUME TypeOK, NEW r \in RunIds
  PROVE  AbstractRows[r] \in RowSet
<1>1. run[r] \in RunRecord /\ Len(checkpoints[r]) \in Nat
  BY DEF TypeOK
<1> QED
  BY <1>1 DEF AbstractRows, RowOf, RowSet, RunRecord

LEMMA RowTypedNext ==
  ASSUME TypeOK', NEW r \in RunIds
  PROVE  RowOf(r)' \in RowSet
<1>1. run'[r] \in RunRecord /\ Len(checkpoints'[r]) \in Nat
  BY DEF TypeOK
<1> QED
  BY <1>1 DEF RowOf, RowSet, RunRecord

LEMMA EqualRows ==
  ASSUME NEW x \in RowSet, NEW y \in RowSet,
         x.status = y.status, x.thread = y.thread, x.owner = y.owner, x.fence = y.fence,
         x.lease = y.lease, x.rounds = y.rounds, x.open = y.open
  PROVE  x = y
BY DEF RowSet

\* A row is what its run and its checkpoints are.
LEMMA SameRow ==
  ASSUME NEW q \in RunIds, run'[q] = run[q], checkpoints'[q] = checkpoints[q]
  PROVE  RowOf(q)' = RowOf(q)
BY DEF RowOf

LEMMA OneRowMoves ==
  ASSUME NEW r \in RunIds, \A q \in RunIds \ {r} : RowOf(q)' = RowOf(q)
  PROVE  AbstractRows' = [AbstractRows EXCEPT ![r] = RowOf(r)']
<1>1. AbstractRows' = [q \in RunIds |-> RowOf(q)']
  BY DEF AbstractRows
<1>2. [AbstractRows EXCEPT ![r] = RowOf(r)'] = [q \in RunIds |-> IF q = r THEN RowOf(r)' ELSE RowOf(q)]
  BY DEF AbstractRows
<1> QED
  BY <1>1, <1>2

\* A run and its checkpoints make the row y.
Becomes(r, y) ==
  /\ y.status = run'[r].status /\ y.thread = run'[r].thread /\ y.owner = run'[r].owner
  /\ y.fence = run'[r].fence /\ y.lease = run'[r].lease /\ y.rounds = Len(checkpoints'[r])
  /\ y.open = (checkpoints'[r] # <<>> /\ ~checkpoints'[r][Len(checkpoints'[r])].consumed)

LEMMA RowBecomes ==
  ASSUME TypeOK', NEW r \in RunIds, NEW y \in RowSet, Becomes(r, y)
  PROVE  RowOf(r)' = y
<1>1. PICK x \in RowSet : x = RowOf(r)'
  BY RowTypedNext
<1>2. Becomes(r, x)
  BY <1>1 DEF RowOf, Becomes
<1>3. x = y
  BY <1>2, EqualRows DEF Becomes
<1> QED
  BY <1>1, <1>3

\* A transaction on run r alone moves its row to y.
LEMMA RunMoves ==
  ASSUME TypeOK', NEW r \in RunIds, NEW y \in RowSet, Becomes(r, y),
         \A q \in RunIds \ {r} : run'[q] = run[q] /\ checkpoints'[q] = checkpoints[q]
  PROVE  AbstractRows' = [AbstractRows EXCEPT ![r] = y]
<1>1. ASSUME NEW q \in RunIds \ {r} PROVE RowOf(q)' = RowOf(q)
  BY SameRow
<1> QED
  BY <1>1, RowBecomes, OneRowMoves

\* The status tables and queues of the two modules are the same.
LEMMA SameTables ==
  /\ Lifecycle!TerminalStatuses = TerminalStatuses
  /\ Lifecycle!ActiveStatuses = ActiveStatuses
  /\ \A s, t : Lifecycle!CanTransition(s, t) = CanTransition(s, t)
BY DEF Lifecycle!TerminalStatuses, TerminalStatuses, Lifecycle!ActiveStatuses, ActiveStatuses,
       Lifecycle!CanTransition, CanTransition, Lifecycle!AllowedTransitions, AllowedTransitions

LEMMA SameQueues ==
  /\ \A t : Lifecycle!ActiveIn(t) = ActiveRuns(t)
  /\ \A r \in RunIds : Lifecycle!Next1(r) = Promoted(r)
<1>1. \A t : Lifecycle!ActiveIn(t) = ActiveRuns(t)
  BY RowFields, SameTables DEF Lifecycle!ActiveIn, ActiveRuns, RunsOf
<1>2. \A t : Lifecycle!QueuedIn(t) = QueuedRuns(t)
  BY RowFields DEF Lifecycle!QueuedIn, QueuedRuns, RunsOf
<1>3. \A S : Lifecycle!FirstOf(S) = Oldest(S)
  BY DEF Lifecycle!FirstOf, Oldest
<1> QED
  BY <1>1, <1>2, <1>3, RowFields DEF Lifecycle!Next1, Promoted

LEMMA InitIsNoRuns == Init => Lifecycle!NoRuns
<1> SUFFICES ASSUME Init, TypeOK PROVE AbstractRows = [r \in RunIds |-> Lifecycle!AbsentRow]
  BY InitType DEF Lifecycle!NoRuns
<1>1. ASSUME NEW r \in RunIds PROVE RowOf(r) = Lifecycle!AbsentRow
  <2>1. PICK y : y = Lifecycle!AbsentRow
    OBVIOUS
  <2>2. y \in RowSet
    BY <2>1 DEF Lifecycle!AbsentRow, RowSet, LeaseStates
  <2>3. /\ y.status = "absent" /\ y.thread = None /\ y.owner = None /\ y.fence = 0
        /\ y.lease = "none" /\ y.rounds = 0 /\ y.open = FALSE
    BY <2>1 DEF Lifecycle!AbsentRow
  <2>4. PICK x \in RowSet : x = AbstractRows[r]
    BY RowTyped
  <2>5. run[r] = AbsentRun /\ checkpoints[r] = <<>>
    BY DEF Init
  <2>6. /\ x.status = "absent" /\ x.thread = None /\ x.owner = None /\ x.fence = 0
        /\ x.lease = "none"
    BY <2>4, <2>5, RowFields DEF AbsentRun
  <2>7. x.rounds = 0
    BY <2>4, <2>5, RowFields
  <2>8. x.open = FALSE
    BY <2>4, <2>5, RowFields DEF OpenRound
  <2>9. x = y
    BY <2>2, <2>3, <2>6, <2>7, <2>8, EqualRows
  <2> QED
    BY <2>1, <2>4, <2>9, RowFields
<1> QED
  BY <1>1 DEF AbstractRows

\* The row of a run that a worker starts.
LEMMA RunningRow ==
  ASSUME TypeOK, NEW r \in RunIds, NEW w \in Workers
  PROVE  LET y == Lifecycle!Running(r, w)
         IN  /\ y \in RowSet
             /\ y.status = "running" /\ y.owner = w /\ y.fence = run[r].fence + 1
             /\ y.lease = "valid" /\ y.thread = run[r].thread
             /\ y.rounds = Len(checkpoints[r]) /\ y.open = OpenRound(r)
<1>1. PICK x \in RowSet : x = AbstractRows[r]
  BY RowTyped
<1> DEFINE y == [x EXCEPT !.status = "running", !.owner = w, !.fence = @ + 1, !.lease = "valid"]
<1>2. Lifecycle!Running(r, w) = y
  BY <1>1 DEF Lifecycle!Running
<1>3. y \in RowSet
  <2>1. "running" \in RunStatuses /\ x.fence + 1 \in Nat /\ "valid" \in LeaseStates
    BY DEF RowSet, RunStatuses, ActiveStatuses, LeaseStates
  <2> QED
    BY <2>1 DEF RowSet
<1>4. /\ y.status = "running" /\ y.owner = w /\ y.fence = x.fence + 1
      /\ y.lease = "valid" /\ y.thread = x.thread /\ y.rounds = x.rounds
  BY DEF RowSet
<1>5. y.open = x.open
  BY DEF RowSet
<1> HIDE DEF y
<1> QED
  BY <1>1, <1>2, <1>3, <1>4, <1>5, RowFields

LEMMA StartedRow ==
  ASSUME TypeOK, TypeOK', NEW r \in RunIds, NEW w \in Workers,
         run' = [run EXCEPT ![r] = StartedBy(r, w)], checkpoints' = checkpoints
  PROVE  AbstractRows' = [AbstractRows EXCEPT ![r] = Lifecycle!Running(r, w)]
<1>1. run[r] \in RunRecord /\ run'[r] = StartedBy(r, w)
  BY DEF TypeOK
<1>2. /\ run'[r].status = "running" /\ run'[r].owner = w /\ run'[r].lease = "valid"
      /\ run'[r].thread = run[r].thread
  <2>1. LET y == StartedBy(r, w)
        IN  y.status = "running" /\ y.owner = w /\ y.lease = "valid" /\ y.thread = run[r].thread
    BY <1>1 DEF StartedBy, RunRecord
  <2> QED
    BY <1>1, <2>1
<1>3. run'[r].fence = run[r].fence + 1
  BY <1>1 DEF StartedBy, RunRecord
<1>4. PICK y \in RowSet : y = Lifecycle!Running(r, w)
  BY RunningRow
<1>5. /\ y.status = run'[r].status /\ y.thread = run'[r].thread /\ y.owner = run'[r].owner
      /\ y.fence = run'[r].fence /\ y.lease = run'[r].lease /\ y.rounds = Len(checkpoints'[r])
  BY <1>2, <1>3, <1>4, RunningRow
<1>6. y.open = OpenRound(r)
  BY <1>4, RunningRow
<1>7. y.open = (checkpoints'[r] # <<>> /\ ~checkpoints'[r][Len(checkpoints'[r])].consumed)
  BY <1>6 DEF OpenRound
<1>8. \A q \in RunIds \ {r} : run'[q] = run[q] /\ checkpoints'[q] = checkpoints[q]
  BY DEF TypeOK
<1>9. AbstractRows' = [AbstractRows EXCEPT ![r] = y]
  BY <1>5, <1>7, <1>8, RunMoves DEF Becomes
<1> QED
  BY <1>4, <1>9

\* claim.
LEMMA ClaimStarts ==
  ASSUME TypeOK, TypeOK', NEW r \in RunIds, NEW w \in Workers, Claim(r, w)
  PROVE  Lifecycle!Start(r, w)
<1>1. Lifecycle!Claimable(r, w)
  BY RowFields DEF Claim, CanClaim, AlreadyClaimed, Lifecycle!Claimable, Lifecycle!OwnedAlready
<1> QED
  BY <1>1, StartedRow DEF Claim, Lifecycle!Start

\* consume_resume by a worker that finds the answer recorded.
LEMMA TakeResumeTakes ==
  ASSUME TypeOK, TypeOK', NEW r \in RunIds, NEW w \in Workers,
         NEW i \in DOMAIN checkpoints[r], NEW k, NEW a, TakeResume(r, i, k, a, w)
  PROVE  Lifecycle!Take(r, w)
<1>1. /\ run[r].status = "pending" /\ i = Len(checkpoints[r]) /\ checkpoints[r][i].consumed
  BY DEF TakeResume, CanTakeResume, SameResume
<1>2. Len(checkpoints[r]) > 0
  BY <1>1 DEF TypeOK
<1>3. ~OpenRound(r)
  BY <1>1 DEF OpenRound
<1>4. Lifecycle!Answered(r)
  BY <1>1, <1>2, <1>3, RowFields DEF Lifecycle!Answered
<1> QED
  BY <1>4, StartedRow DEF TakeResume, Lifecycle!Take


\* reserve.
LEMMA ReserveCreates ==
  ASSUME TypeOK, TypeOK', NEW r \in RunIds, NEW t \in Threads, NEW k, NEW s, NEW expected,
         Reserve(r, t, k, s, expected), CheckInv(r)
  PROVE  AbstractRows'[r].fence \in Nat /\ Lifecycle!Create(r, t, AbstractRows'[r].fence)
<1>1. run[r].status = "absent" /\ checkpoints' = checkpoints /\ checkpoints[r] = <<>>
  BY DEF Reserve, CanReserve, Exists, CheckInv, TypeOK
<1>2. PICK z : /\ run' = [run EXCEPT ![r] = z]
               /\ \/ ActiveRuns(t) = {} /\ z = StartableRun(t, k)
                  \/ ActiveRuns(t) # {} /\ \E q : z = QueuedRun(t, k, q)
  BY DEF Reserve, Oldest
<1>3. run'[r] = z /\ run'[r].fence \in Nat
  BY <1>2 DEF TypeOK, RunRecord
<1>4. /\ z.thread = t /\ z.owner = None /\ z.lease = "none"
      /\ z.status = IF ActiveRuns(t) = {} THEN "pending" ELSE "queued"
  BY <1>2 DEF StartableRun, QueuedRun, AbsentRun
<1> DEFINE f == run'[r].fence
           y == [Lifecycle!AbsentRow EXCEPT !.thread = t, !.fence = f,
                   !.status = IF ActiveRuns(t) = {} THEN "pending" ELSE "queued"]
<1>5. y \in RowSet
  <2>1. (IF ActiveRuns(t) = {} THEN "pending" ELSE "queued") \in RunStatuses /\ "none" \in LeaseStates
    BY DEF RunStatuses, ActiveStatuses, QueuedStatus, LeaseStates
  <2> QED
    BY <1>3, <2>1 DEF RowSet, Lifecycle!AbsentRow
<1>6. /\ y.thread = t /\ y.owner = None /\ y.lease = "none" /\ y.fence = f
      /\ y.status = IF ActiveRuns(t) = {} THEN "pending" ELSE "queued"
  BY DEF Lifecycle!AbsentRow
<1>7. y.rounds = 0 /\ y.open = FALSE
  BY DEF Lifecycle!AbsentRow
<1>8. Lifecycle!Create(r, t, f) <=> AbstractRows[r].status = "absent" /\ AbstractRows' = [AbstractRows EXCEPT ![r] = y]
  BY SameQueues DEF Lifecycle!Create
<1> HIDE DEF y
<1>9. y.open = (checkpoints'[r] # <<>> /\ ~checkpoints'[r][Len(checkpoints'[r])].consumed)
  BY <1>1, <1>7
<1>10. y.rounds = Len(checkpoints'[r])
  BY <1>1, <1>7
<1>11. AbstractRows' = [AbstractRows EXCEPT ![r] = y]
  <2>1. \A q \in RunIds \ {r} : run'[q] = run[q] /\ checkpoints'[q] = checkpoints[q]
    BY <1>1, <1>2 DEF TypeOK
  <2>2. /\ y.status = run'[r].status /\ y.thread = run'[r].thread /\ y.owner = run'[r].owner
        /\ y.fence = run'[r].fence /\ y.lease = run'[r].lease
    BY <1>3, <1>4, <1>6
  <2> QED
    BY <1>5, <1>9, <1>10, <2>1, <2>2, RunMoves DEF Becomes
<1>12. AbstractRows'[r].fence = f
  BY <1>6, <1>11 DEF AbstractRows
<1> QED
  BY <1>1, <1>3, <1>8, <1>11, <1>12, RowFields

\* A transaction that writes the lease or the status alone.
LEMMA LeaseRow ==
  ASSUME TypeOK, TypeOK', NEW r \in RunIds, NEW l \in LeaseStates,
         run' = [run EXCEPT ![r].lease = l], checkpoints' = checkpoints
  PROVE  AbstractRows' = [AbstractRows EXCEPT ![r].lease = l]
<1>1. PICK x \in RowSet : x = AbstractRows[r]
  BY RowTyped
<1>2. PICK y : y = [x EXCEPT !.lease = l]
  OBVIOUS
<1>3. /\ y \in RowSet /\ y.status = x.status /\ y.thread = x.thread /\ y.owner = x.owner
      /\ y.fence = x.fence /\ y.lease = l /\ y.rounds = x.rounds
  BY <1>2 DEF RowSet
<1>4. y.open = x.open
  BY <1>2 DEF RowSet
<1>5. PICK z : z = [run[r] EXCEPT !.lease = l]
  OBVIOUS
<1>6. run[r] \in RunRecord /\ run' = [run EXCEPT ![r] = z] /\ run'[r] = z
  BY <1>5 DEF TypeOK
<1>7. /\ z.status = run[r].status /\ z.thread = run[r].thread /\ z.owner = run[r].owner
      /\ z.fence = run[r].fence /\ z.lease = l
  BY <1>5, <1>6 DEF RunRecord
<1>8. y.open = (checkpoints'[r] # <<>> /\ ~checkpoints'[r][Len(checkpoints'[r])].consumed)
  BY <1>1, <1>4, RowFields DEF OpenRound
<1>9. y.rounds = Len(checkpoints'[r])
  BY <1>1, <1>3, RowFields
<1>10. /\ y.status = run'[r].status /\ y.thread = run'[r].thread /\ y.owner = run'[r].owner
       /\ y.fence = run'[r].fence /\ y.lease = run'[r].lease
  BY <1>1, <1>3, <1>6, <1>7, RowFields
<1>11. AbstractRows' = [AbstractRows EXCEPT ![r] = y]
  <2>1. \A q \in RunIds \ {r} : run'[q] = run[q] /\ checkpoints'[q] = checkpoints[q]
    BY DEF TypeOK
  <2> QED
    BY <1>3, <1>8, <1>9, <1>10, <2>1, RunMoves DEF Becomes
<1> QED
  BY <1>1, <1>2, <1>11

LEMMA CancelRow ==
  ASSUME TypeOK, TypeOK', NEW r \in RunIds, run' = [run EXCEPT ![r].status = "cancelling"],
         checkpoints' = checkpoints
  PROVE  AbstractRows' = [AbstractRows EXCEPT ![r].status = "cancelling"]
<1>1. PICK x \in RowSet : x = AbstractRows[r]
  BY RowTyped
<1>2. PICK y : y = [x EXCEPT !.status = "cancelling"]
  OBVIOUS
<1>3. y \in RowSet
  <2>1. "cancelling" \in RunStatuses
    BY DEF RunStatuses, ActiveStatuses
  <2> QED
    BY <1>2, <2>1 DEF RowSet
<1>4. /\ y.status = "cancelling" /\ y.thread = x.thread /\ y.owner = x.owner
      /\ y.fence = x.fence /\ y.lease = x.lease /\ y.rounds = x.rounds
  BY <1>2 DEF RowSet
<1>5. y.open = x.open
  BY <1>2 DEF RowSet
<1>6. PICK z : z = [run[r] EXCEPT !.status = "cancelling"]
  OBVIOUS
<1>7. run[r] \in RunRecord /\ run' = [run EXCEPT ![r] = z] /\ run'[r] = z
  BY <1>6 DEF TypeOK
<1>8. /\ z.status = "cancelling" /\ z.thread = run[r].thread /\ z.owner = run[r].owner
      /\ z.fence = run[r].fence /\ z.lease = run[r].lease
  BY <1>6, <1>7 DEF RunRecord
<1>9. y.open = (checkpoints'[r] # <<>> /\ ~checkpoints'[r][Len(checkpoints'[r])].consumed)
  BY <1>1, <1>5, RowFields DEF OpenRound
<1>10. y.rounds = Len(checkpoints'[r])
  BY <1>1, <1>4, RowFields
<1>11. /\ y.status = run'[r].status /\ y.thread = run'[r].thread /\ y.owner = run'[r].owner
       /\ y.fence = run'[r].fence /\ y.lease = run'[r].lease
  BY <1>1, <1>4, <1>7, <1>8, RowFields
<1>12. AbstractRows' = [AbstractRows EXCEPT ![r] = y]
  <2>1. \A q \in RunIds \ {r} : run'[q] = run[q] /\ checkpoints'[q] = checkpoints[q]
    BY DEF TypeOK
  <2> QED
    BY <1>3, <1>9, <1>10, <1>11, <2>1, RunMoves DEF Becomes
<1> QED
  BY <1>1, <1>2, <1>12

\* record_pause.
LEMMA PauseWaits ==
  ASSUME TypeOK, TypeOK', NEW r \in RunIds, NEW w \in Workers, NEW f, NEW round,
         RecordPause(r, w, f, round)
  PROVE  Lifecycle!Pause(r, w, AbstractRows[r].fence, AbstractRows[r].rounds)
<1>1. PICK x \in RowSet : x = AbstractRows[r]
  BY RowTyped
<1>2. PICK c : ~c.consumed /\ checkpoints' = [checkpoints EXCEPT ![r] = Append(checkpoints[r], c)]
  <2> DEFINE new == [consumed |-> FALSE, key |-> None, answer |-> None, done |-> FALSE]
  <2>1. ~new.consumed /\ checkpoints' = [checkpoints EXCEPT ![r] = Append(checkpoints[r], new)]
    BY DEF RecordPause
  <2> QED
    BY <2>1
<1>3. /\ run[r].status = "running" /\ run[r].owner = w
      /\ run' = [run EXCEPT ![r] = Paused(r)]
  BY DEF RecordPause, CanPause, OwnsRunning
<1>4. Lifecycle!Pausable(r, w, AbstractRows[r].fence, AbstractRows[r].rounds)
  BY <1>3, RowFields DEF Lifecycle!Pausable
<1>5. PICK y : y = [x EXCEPT !.status = "waiting_input", !.owner = None, !.lease = "none",
                             !.rounds = x.rounds + 1, !.open = TRUE]
  OBVIOUS
<1>6. y \in RowSet
  <2>1. "waiting_input" \in RunStatuses /\ "none" \in LeaseStates /\ x.rounds + 1 \in Nat
    BY DEF RunStatuses, ActiveStatuses, LeaseStates, RowSet
  <2> QED
    BY <1>5, <2>1 DEF RowSet
<1>7. /\ y.status = "waiting_input" /\ y.thread = x.thread /\ y.owner = None
      /\ y.fence = x.fence /\ y.lease = "none" /\ y.rounds = x.rounds + 1
  BY <1>5 DEF RowSet
<1>8. y.open = TRUE
  BY <1>5 DEF RowSet
<1>9. run[r] \in RunRecord /\ run'[r] = Paused(r)
  BY <1>3 DEF TypeOK
<1>10. /\ run'[r].status = "waiting_input" /\ run'[r].thread = run[r].thread
       /\ run'[r].owner = None /\ run'[r].fence = run[r].fence /\ run'[r].lease = "none"
  <2>1. LET z == Paused(r)
        IN  /\ z.status = "waiting_input" /\ z.thread = run[r].thread
            /\ z.owner = None /\ z.fence = run[r].fence /\ z.lease = "none"
    BY <1>9 DEF Paused, RunRecord
  <2> QED
    BY <1>9, <2>1
<1>11. checkpoints[r] \in Seq(Checkpoint) /\ checkpoints'[r] = Append(checkpoints[r], c)
  BY <1>2 DEF TypeOK
<1>12. /\ Len(checkpoints'[r]) = Len(checkpoints[r]) + 1 /\ checkpoints'[r] # <<>>
       /\ checkpoints'[r][Len(checkpoints'[r])] = c
  BY <1>11
<1>13. y.open = (checkpoints'[r] # <<>> /\ ~checkpoints'[r][Len(checkpoints'[r])].consumed)
  BY <1>2, <1>8, <1>12
<1>14. /\ y.status = run'[r].status /\ y.thread = run'[r].thread /\ y.owner = run'[r].owner
       /\ y.fence = run'[r].fence /\ y.lease = run'[r].lease /\ y.rounds = Len(checkpoints'[r])
  BY <1>1, <1>7, <1>10, <1>12, RowFields
<1>15. \A q \in RunIds \ {r} : run'[q] = run[q] /\ checkpoints'[q] = checkpoints[q]
  BY <1>2, <1>3 DEF TypeOK
<1>16. AbstractRows' = [AbstractRows EXCEPT ![r] = y]
  BY <1>6, <1>13, <1>14, <1>15, RunMoves DEF Becomes
<1> QED
  BY <1>1, <1>4, <1>5, <1>16 DEF Lifecycle!Pause

\* The row of a waiting run whose answer arrived.
IsAccepted(r, w, y) ==
  /\ y = IF w = None
         THEN [AbstractRows[r] EXCEPT !.status = "pending", !.owner = None,
                                      !.lease = "none", !.open = FALSE]
         ELSE [Lifecycle!Running(r, w) EXCEPT !.open = FALSE]
  /\ y.thread = run[r].thread /\ y.rounds = Len(checkpoints[r]) /\ ~y.open
  /\ y.status = IF w = None THEN "pending" ELSE "running"
  /\ y.owner = w /\ y.lease = IF w = None THEN "none" ELSE "valid"
  /\ y.fence = IF w = None THEN run[r].fence ELSE run[r].fence + 1

LEMMA AcceptedRow ==
  ASSUME TypeOK, NEW r \in RunIds, NEW w \in Workers \cup {None}
  PROVE  \E y \in RowSet : IsAccepted(r, w, y)
<1>1. CASE w = None
  <2>1. PICK x \in RowSet : x = AbstractRows[r]
    BY RowTyped
  <2>2. PICK y : y = [x EXCEPT !.status = "pending", !.owner = None, !.lease = "none", !.open = FALSE]
    OBVIOUS
  <2>3. y \in RowSet
    <3>1. "pending" \in RunStatuses /\ "none" \in LeaseStates
      BY DEF RunStatuses, ActiveStatuses, LeaseStates
    <3> QED
      BY <2>2, <3>1 DEF RowSet
  <2>4. /\ y.status = "pending" /\ y.thread = x.thread /\ y.owner = None
        /\ y.fence = x.fence /\ y.lease = "none" /\ y.rounds = x.rounds
    BY <2>2 DEF RowSet
  <2>5. ~y.open
    BY <2>2 DEF RowSet
  <2> QED
    BY <1>1, <2>1, <2>2, <2>3, <2>4, <2>5, RowFields DEF IsAccepted
<1>2. CASE w # None
  <2>1. w \in Workers
    BY <1>2
  <2>2. PICK x \in RowSet : x = Lifecycle!Running(r, w)
    BY <2>1, RunningRow
  <2>3. /\ x.status = "running" /\ x.owner = w /\ x.fence = run[r].fence + 1
        /\ x.lease = "valid" /\ x.thread = run[r].thread /\ x.rounds = Len(checkpoints[r])
    BY <2>1, <2>2, RunningRow
  <2>4. PICK y : y = [x EXCEPT !.open = FALSE]
    OBVIOUS
  <2>5. /\ y \in RowSet /\ y.status = x.status /\ y.owner = x.owner /\ y.fence = x.fence
        /\ y.lease = x.lease /\ y.thread = x.thread /\ y.rounds = x.rounds
    BY <2>4 DEF RowSet
  <2>6. ~y.open
    BY <2>4 DEF RowSet
  <2> QED
    BY <1>2, <2>2, <2>3, <2>4, <2>5, <2>6 DEF IsAccepted
<1> QED
  BY <1>1, <1>2

\* consume_resume of an open checkpoint: it is the latest, and the only open one.
LEMMA ResumeAccepts ==
  ASSUME TypeOK, TypeOK', NEW r \in RunIds, CheckInv(r), NEW w \in Workers \cup {None},
         NEW i \in DOMAIN checkpoints[r], NEW k, NEW a, ConsumeResume(r, i, k, a, w)
  PROVE  Lifecycle!Accept(r, w)
<1>1. /\ run[r].status = "waiting_input" /\ ~checkpoints[r][i].consumed /\ i = Len(checkpoints[r])
  BY DEF ConsumeResume, CanAccept, CheckInv
<1> DEFINE resumed == IF w = None
                      THEN [run[r] EXCEPT !.status = "pending", !.owner = None, !.lease = "none"]
                      ELSE StartedBy(r, w)
           z == [resumed EXCEPT !.message = "streaming"]
           c == [checkpoints[r][i] EXCEPT !.consumed = TRUE, !.key = k, !.answer = a]
<1>2. /\ run' = [run EXCEPT ![r] = z]
      /\ checkpoints' = [checkpoints EXCEPT ![r] = [checkpoints[r] EXCEPT ![i] = c]]
  BY DEF ConsumeResume, TypeOK
<1>3. run[r] \in RunRecord /\ checkpoints[r] \in Seq(Checkpoint) /\ checkpoints[r][i] \in Checkpoint
  BY DEF TypeOK
<1>4. c.consumed
  BY <1>3 DEF Checkpoint
<1>5. PICK y \in RowSet : IsAccepted(r, w, y)
  BY AcceptedRow
<1>6. /\ z.thread = run[r].thread
      /\ z.status = IF w = None THEN "pending" ELSE "running"
      /\ z.owner = w /\ z.lease = IF w = None THEN "none" ELSE "valid"
      /\ z.fence = IF w = None THEN run[r].fence ELSE run[r].fence + 1
  <2>1. CASE w = None
    <3>1. PICK u : u = [run[r] EXCEPT !.status = "pending", !.owner = None, !.lease = "none"]
      OBVIOUS
    <3>2. u \in RunRecord
      <4>1. "pending" \in RunStatuses /\ "none" \in LeaseStates
        BY DEF RunStatuses, ActiveStatuses, LeaseStates
      <4> QED
        BY <1>3, <3>1, <4>1 DEF RunRecord
    <3>3. /\ u.thread = run[r].thread /\ u.status = "pending" /\ u.owner = None
          /\ u.lease = "none" /\ u.fence = run[r].fence
      BY <1>3, <3>1 DEF RunRecord
    <3>4. z = [u EXCEPT !.message = "streaming"]
      BY <2>1, <3>1
    <3> QED
      BY <2>1, <3>2, <3>3, <3>4 DEF RunRecord
  <2>2. CASE w # None
    <3>1. PICK u \in RunRecord : u = StartedBy(r, w)
      BY <2>2, StartedByType
    <3>2. /\ u.thread = run[r].thread /\ u.status = "running" /\ u.owner = w
          /\ u.lease = "valid"
      BY <1>3, <3>1 DEF StartedBy, RunRecord
    <3>3. u.fence = run[r].fence + 1
      BY <1>3, <3>1 DEF StartedBy, RunRecord
    <3>4. z = [u EXCEPT !.message = "streaming"]
      BY <2>2, <3>1
    <3> QED
      BY <2>2, <3>1, <3>2, <3>3, <3>4 DEF RunRecord
  <2> QED
    BY <2>1, <2>2
<1> HIDE DEF z, c
<1>7. run'[r] = z /\ checkpoints'[r] = [checkpoints[r] EXCEPT ![i] = c]
  BY <1>2 DEF TypeOK
<1>8. Len(checkpoints'[r]) = Len(checkpoints[r]) /\ checkpoints'[r][i] = c
  BY <1>3, <1>7
<1>9. y.open = (checkpoints'[r] # <<>> /\ ~checkpoints'[r][Len(checkpoints'[r])].consumed)
  <2>1. checkpoints'[r][Len(checkpoints'[r])].consumed
    BY <1>1, <1>4, <1>8
  <2>2. y.open = FALSE
    BY <1>5 DEF IsAccepted, RowSet
  <2> QED
    BY <2>1, <2>2
<1>10. \A q \in RunIds \ {r} : run'[q] = run[q] /\ checkpoints'[q] = checkpoints[q]
  BY <1>2 DEF TypeOK
<1>11. /\ y.status = run'[r].status /\ y.thread = run'[r].thread /\ y.owner = run'[r].owner
       /\ y.fence = run'[r].fence /\ y.lease = run'[r].lease /\ y.rounds = Len(checkpoints'[r])
  BY <1>5, <1>6, <1>7, <1>8 DEF IsAccepted
<1>12. AbstractRows' = [AbstractRows EXCEPT ![r] = y]
  BY <1>9, <1>10, <1>11, RunMoves DEF Becomes
<1>13. OpenRound(r)
  BY <1>1, <1>3 DEF OpenRound
<1>14. AbstractRows[r].status = "waiting_input" /\ AbstractRows[r].open
  BY <1>1, <1>13, RowFields
<1> QED
  BY <1>5, <1>12, <1>14 DEF IsAccepted, Lifecycle!Accept

\* finalize.
LEMMA FinalizeFinishes ==
  ASSUME TypeOK, TypeOK', NEW r \in RunIds, NEW target \in TerminalStatuses, NEW f, NEW partial,
         Finalize(r, target, f, partial)
  PROVE  Lifecycle!Finish(r, target, None)
<1>1. /\ Lifecycle!Next1(r) = Promoted(r) /\ Lifecycle!ActiveIn(run[r].thread) = ActiveRuns(run[r].thread)
      /\ Lifecycle!Outcome(r, target) = FinalStatus(r, target)
      /\ Lifecycle!Terminal(r) <=> run[r].status \in TerminalStatuses
  BY RowFields, SameQueues, SameTables DEF Lifecycle!Outcome, FinalStatus, Lifecycle!Terminal
<1>2. Lifecycle!Finishable(r, target, None)
  BY <1>1, RowFields, SameTables
     DEF Finalize, CanFinalize, Exists, PromotionFits, Lifecycle!Finishable
<1>3. /\ run'[r] = Ended(r, target, partial) /\ checkpoints' = checkpoints
      /\ \A q \in RunIds \ {r} : run'[q] = IF q \in Promoted(r) THEN Woken(q) ELSE run[q]
  BY FinalizeEffect DEF Finalize
<1>4. FinalStatus(r, target) \in RunStatuses
  BY DEF FinalStatus, RunStatuses, TerminalStatuses
<1>5. RowOf(r)' = [AbstractRows[r] EXCEPT !.status = FinalStatus(r, target), !.lease = "none"]
  <2>1. PICK x \in RowSet : x = AbstractRows[r]
    BY RowTyped
  <2>2. PICK s : s = FinalStatus(r, target)
    OBVIOUS
  <2>3. PICK y : y = [x EXCEPT !.status = s, !.lease = "none"]
    OBVIOUS
  <2>4. y \in RowSet
    <3>1. "none" \in LeaseStates /\ s \in RunStatuses
      BY <1>4, <2>2 DEF LeaseStates
    <3> QED
      BY <2>3, <3>1 DEF RowSet
  <2>5. /\ y.status = s /\ y.thread = x.thread /\ y.owner = x.owner
        /\ y.fence = x.fence /\ y.lease = "none" /\ y.rounds = x.rounds
    BY <2>3 DEF RowSet
  <2>6. y.open = x.open
    BY <2>3 DEF RowSet
  <2>7. run[r] \in RunRecord
    BY DEF TypeOK
  <2>8. /\ run'[r].status = s /\ run'[r].thread = run[r].thread /\ run'[r].owner = run[r].owner
        /\ run'[r].fence = run[r].fence /\ run'[r].lease = "none"
    <3>1. LET z == Ended(r, target, partial)
          IN  /\ z.status = FinalStatus(r, target) /\ z.thread = run[r].thread
              /\ z.owner = run[r].owner /\ z.fence = run[r].fence /\ z.lease = "none"
      BY <2>7 DEF Ended, RunRecord
    <3> QED
      BY <1>3, <2>2, <3>1
  <2>9. y.open = (checkpoints'[r] # <<>> /\ ~checkpoints'[r][Len(checkpoints'[r])].consumed)
    BY <1>3, <2>1, <2>6, RowFields DEF OpenRound
  <2>10. y.rounds = Len(checkpoints'[r])
    BY <1>3, <2>1, <2>5, RowFields
  <2>11. Becomes(r, y)
    BY <2>1, <2>5, <2>8, <2>9, <2>10, RowFields DEF Becomes
  <2> QED
    BY <2>1, <2>2, <2>3, <2>4, <2>11, RowBecomes
<1>6. ASSUME NEW q \in RunIds, q # r, q \in Promoted(r)
      PROVE  RowOf(q)' = [AbstractRows[q] EXCEPT !.status = "pending"]
  <2>1. PICK x \in RowSet : x = AbstractRows[q]
    BY RowTyped
  <2>2. PICK y : y = [x EXCEPT !.status = "pending"]
    OBVIOUS
  <2>3. y \in RowSet
    <3>1. "pending" \in RunStatuses
      BY DEF RunStatuses, ActiveStatuses
    <3> QED
      BY <2>2, <3>1 DEF RowSet
  <2>4. /\ y.status = "pending" /\ y.thread = x.thread /\ y.owner = x.owner
        /\ y.fence = x.fence /\ y.lease = x.lease /\ y.rounds = x.rounds
    BY <2>2 DEF RowSet
  <2>5. y.open = x.open
    BY <2>2 DEF RowSet
  <2>6. run[q] \in RunRecord /\ run'[q] = Woken(q)
    BY <1>3, <1>6 DEF TypeOK
  <2>7. /\ run'[q].status = "pending" /\ run'[q].thread = run[q].thread
        /\ run'[q].owner = run[q].owner /\ run'[q].fence = run[q].fence
        /\ run'[q].lease = run[q].lease
    <3>1. LET z == Woken(q)
          IN  /\ z.status = "pending" /\ z.thread = run[q].thread /\ z.owner = run[q].owner
              /\ z.fence = run[q].fence /\ z.lease = run[q].lease
      BY <2>6 DEF Woken, RunRecord
    <3> QED
      BY <2>6, <3>1
  <2>8. y.open = (checkpoints'[q] # <<>> /\ ~checkpoints'[q][Len(checkpoints'[q])].consumed)
    BY <1>3, <2>1, <2>5, RowFields DEF OpenRound
  <2>9. y.rounds = Len(checkpoints'[q])
    BY <1>3, <2>1, <2>4, RowFields
  <2>10. Becomes(q, y)
    BY <2>1, <2>4, <2>7, <2>8, <2>9, RowFields DEF Becomes
  <2> QED
    BY <2>1, <2>2, <2>3, <2>10, RowBecomes
<1>7. ASSUME NEW q \in RunIds, q # r, q \notin Promoted(r) PROVE RowOf(q)' = AbstractRows[q]
  <2>1. run'[q] = run[q] /\ checkpoints'[q] = checkpoints[q]
    BY <1>3, <1>7
  <2> QED
    BY <2>1, SameRow, RowFields
<1>8. AbstractRows' = [q \in RunIds |-> RowOf(q)']
  BY DEF AbstractRows
<1> DEFINE moved(q) == CASE q = r -> [AbstractRows[r] EXCEPT !.status = FinalStatus(r, target), !.lease = "none"]
                         [] q \in Promoted(r) -> [AbstractRows[q] EXCEPT !.status = "pending"]
                         [] OTHER -> AbstractRows[q]
<1>9. r \notin Promoted(r)
  BY DEF Promoted, Oldest
<1>10. ASSUME NEW q \in RunIds PROVE RowOf(q)' = moved(q)
  <2>1. CASE q = r
    BY <1>5, <1>9, <2>1
  <2>2. CASE q # r /\ q \in Promoted(r)
    BY <1>6, <2>2
  <2>3. CASE q # r /\ q \notin Promoted(r)
    BY <1>7, <2>3
  <2> QED
    BY <2>1, <2>2, <2>3
<1>11. AbstractRows' = [q \in RunIds |-> moved(q)]
  <2> HIDE DEF moved
  <2> QED
    BY <1>8, <1>10
<1>12. AbstractRows' = [q \in RunIds |->
         CASE q = r -> [AbstractRows[r] EXCEPT !.status = Lifecycle!Outcome(r, target), !.lease = "none"]
           [] q \in Lifecycle!Next1(r) -> [AbstractRows[q] EXCEPT !.status = "pending"]
           [] OTHER -> AbstractRows[q]]
  BY <1>1, <1>11
<1> QED
  BY <1>2, <1>12 DEF Lifecycle!Finish

\* A transaction that touches neither the columns nor the checkpoint counts.
LEMMA RowsStay ==
  ASSUME TypeOK, TypeOK',
         \A q \in RunIds :
           /\ run'[q].status = run[q].status /\ run'[q].thread = run[q].thread
           /\ run'[q].owner = run[q].owner /\ run'[q].fence = run[q].fence
           /\ run'[q].lease = run[q].lease /\ Len(checkpoints'[q]) = Len(checkpoints[q])
           /\ \A i \in 1..Len(checkpoints[q]) :
                checkpoints'[q][i].consumed = checkpoints[q][i].consumed
  PROVE  AbstractRows' = AbstractRows
<1>1. ASSUME NEW q \in RunIds PROVE RowOf(q)' = AbstractRows[q]
  <2>1. PICK y \in RowSet : y = AbstractRows[q]
    BY RowTyped
  <2>2. checkpoints[q] \in Seq(Checkpoint) /\ checkpoints'[q] \in Seq(Checkpoint)
    BY DEF TypeOK
  <2>3. checkpoints'[q] # <<>> <=> checkpoints[q] # <<>>
    BY <2>2
  <2>4. checkpoints[q] # <<>> => Len(checkpoints[q]) \in 1..Len(checkpoints[q])
    BY <2>2
  <2>5. (checkpoints'[q] # <<>> /\ ~checkpoints'[q][Len(checkpoints'[q])].consumed) = OpenRound(q)
    BY <2>3, <2>4 DEF OpenRound
  <2>6. y.open = OpenRound(q)
    BY <2>1, RowFields
  <2>7. y.open = (checkpoints'[q] # <<>> /\ ~checkpoints'[q][Len(checkpoints'[q])].consumed)
    BY <2>5, <2>6
  <2>8. Becomes(q, y)
    BY <2>1, <2>7, RowFields DEF Becomes
  <2> QED
    BY <2>1, <2>8, RowBecomes
<1>2. AbstractRows' = [q \in RunIds |-> RowOf(q)']
  BY DEF AbstractRows
<1>3. AbstractRows = [q \in RunIds |-> AbstractRows[q]]
  BY DEF AbstractRows
<1> QED
  BY <1>1, <1>2, <1>3

LEMMA WorkerRefines ==
  ASSUME TypeOK, TypeOK', NEW r \in RunIds, NEW w \in Workers, WorkerNext(r, w)
  PROVE  Lifecycle!LifecycleNext \/ AbstractRows' = AbstractRows
<1> DEFINE Goal == Lifecycle!LifecycleNext \/ AbstractRows' = AbstractRows
<1>1. CASE Claim(r, w)
  BY <1>1, ClaimStarts DEF Lifecycle!LifecycleNext
<1>2. ASSUME NEW i \in DOMAIN checkpoints[r], NEW k, NEW a, TakeResume(r, i, k, a, w) PROVE Goal
  BY <1>2, TakeResumeTakes DEF Lifecycle!LifecycleNext
<1>3. ASSUME NEW f, Heartbeat(r, w, f) PROVE Goal
  <2>1. AbstractRows' = [AbstractRows EXCEPT ![r].lease = "valid"]
    BY <1>3, LeaseRow DEF Heartbeat, LeaseStates
  <2>2. Lifecycle!Renew(r, w, AbstractRows[r].fence)
    BY <1>3, <2>1, RowFields DEF Heartbeat, OwnsLive, Lifecycle!Renew, Lifecycle!HoldsLive
  <2> QED
    BY <2>2 DEF Lifecycle!LifecycleNext
<1>4. ASSUME NEW f, Publish(r, w, f) PROVE Goal
  BY <1>4, RowsStay DEF Publish
<1>5. ASSUME NEW f, NEW s, PinSkill(r, w, f, s) PROVE Goal
  <2>1. PICK z : z = [run[r] EXCEPT !.skill = s]
    OBVIOUS
  <2>2. run[r] \in RunRecord /\ run' = [run EXCEPT ![r] = z] /\ checkpoints' = checkpoints
    BY <1>5, <2>1 DEF PinSkill, TypeOK
  <2>3. /\ z.status = run[r].status /\ z.thread = run[r].thread /\ z.owner = run[r].owner
        /\ z.fence = run[r].fence /\ z.lease = run[r].lease
    BY <2>1, <2>2 DEF RunRecord
  <2>4. \A q \in RunIds : run'[q] = IF q = r THEN z ELSE run[q]
    BY <2>2 DEF TypeOK
  <2> QED
    BY <2>2, <2>3, <2>4, RowsStay
<1>6. ASSUME NEW f, NEW round, RecordPause(r, w, f, round) PROVE Goal
  BY <1>6, PauseWaits DEF Lifecycle!LifecycleNext
<1>7. ASSUME NEW f, NEW i \in DOMAIN checkpoints[r], RecordResumeResult(r, i, w, f) PROVE Goal
  <2>1. PICK c : c = [checkpoints[r][i] EXCEPT !.done = TRUE]
    OBVIOUS
  <2>2. /\ checkpoints' = [checkpoints EXCEPT ![r] = [checkpoints[r] EXCEPT ![i] = c]]
        /\ run' = run
    BY <1>7, <2>1 DEF RecordResumeResult
  <2>3. checkpoints[r] \in Seq(Checkpoint) /\ checkpoints[r][i] \in Checkpoint
    BY CheckpointsType
  <2>4. c.consumed = checkpoints[r][i].consumed
    BY <2>1, <2>3 DEF Checkpoint
  <2>5. ASSUME NEW q \in RunIds
        PROVE  /\ Len(checkpoints'[q]) = Len(checkpoints[q])
               /\ \A j \in 1..Len(checkpoints[q]) :
                    checkpoints'[q][j].consumed = checkpoints[q][j].consumed
    BY <2>2, <2>3, <2>4 DEF TypeOK
  <2> QED
    BY <2>2, <2>5, RowsStay
<1> QED
  BY <1>1, <1>2, <1>3, <1>4, <1>5, <1>6, <1>7 DEF WorkerNext

LEMMA NextRefines ==
  ASSUME TypeOK, TypeOK', \A q \in RunIds : CheckInv(q), [Next]_storeVars
  PROVE  [Lifecycle!LifecycleNext]_AbstractRows
<1> DEFINE Goal == Lifecycle!LifecycleNext \/ AbstractRows' = AbstractRows
<1>1. CASE UNCHANGED storeVars
  BY <1>1, RowsStay DEF storeVars
<1>2. ASSUME NEW r \in RunIds, RequestNext(r) PROVE Goal
  <2>1. ASSUME NEW t \in Threads, NEW k \in Keys, NEW s \in MultitaskStrategies,
               NEW e \in {None, version[t]}, Reserve(r, t, k, s, e)
        PROVE  Goal
    BY <2>1, ReserveCreates DEF Lifecycle!LifecycleNext
  <2>2. CASE MarkCancelling(r)
    <3>1. AbstractRows' = [AbstractRows EXCEPT ![r].status = "cancelling"]
      BY <2>2, CancelRow DEF MarkCancelling
    <3>2. run[r].status \in {"pending", "running", "waiting_input"}
      BY <2>2 DEF MarkCancelling, CanMarkCancelling, CanTransition, AllowedTransitions
    <3>3. Lifecycle!RequestCancel(r)
      BY <3>1, <3>2, RowFields DEF Lifecycle!RequestCancel, Lifecycle!CancelRequestable
    <3> QED
      BY <3>3 DEF Lifecycle!LifecycleNext
  <2>3. ASSUME NEW i \in DOMAIN checkpoints[r], NEW k \in ResumeKeys, NEW a \in Answers,
               NEW w \in Workers \cup {None}, ConsumeResume(r, i, k, a, w)
        PROVE  Goal
    BY <2>3, ResumeAccepts DEF Lifecycle!LifecycleNext
  <2> QED
    BY <1>2, <2>1, <2>2, <2>3 DEF RequestNext
<1>3. ASSUME NEW r \in RunIds, NEW w \in Workers, WorkerNext(r, w) PROVE Goal
  BY <1>3, WorkerRefines
<1>4. ASSUME NEW r \in RunIds, FinishNext(r) PROVE Goal
  <2>1. PICK target \in TerminalStatuses : \E f, partial : Finalize(r, target, f, partial)
    BY <1>4 DEF FinishNext, FinalizeOrphan, TerminalStatuses
  <2>2. Lifecycle!Finish(r, target, None)
    BY <2>1, FinalizeFinishes
  <2> QED
    BY <2>2, SameTables DEF Lifecycle!LifecycleNext
<1>5. ASSUME NEW r \in RunIds, LeaseExpires(r) PROVE Goal
  <2>1. AbstractRows' = [AbstractRows EXCEPT ![r].lease = "expired"]
    BY <1>5, LeaseRow DEF LeaseExpires, LeaseStates
  <2>2. Lifecycle!Expire(r)
    BY <1>5, <2>1, RowFields DEF LeaseExpires, Lifecycle!Expire
  <2> QED
    BY <2>2 DEF Lifecycle!LifecycleNext
<1> QED
  BY <1>1, <1>2, <1>3, <1>4, <1>5 DEF Next

\* RunStore implements RunLifecycle for every set of runs, threads and workers: each
\* transaction of the repositories is one step of the life cycle of one run (with the
\* promotion it causes) or leaves every row alone.
THEOREM StoreImplementsLifecycle == Spec => ImplementsLifecycle
<1> DEFINE Inv == \A q \in RunIds : CheckInv(q)
<1>1. Init => Inv
  BY DEF Init, CheckInv, Answered, AbsentRun
<1>2. TypeOK /\ Inv /\ [Next]_storeVars => Inv'
  BY NextKind, KindKeepsCheckInv
<1>3. Init => Lifecycle!NoRuns
  BY InitIsNoRuns
<1>4. TypeOK /\ TypeOK' /\ Inv /\ [Next]_storeVars => [Lifecycle!LifecycleNext]_AbstractRows
  BY NextRefines
<1> QED
  BY <1>1, <1>2, <1>3, <1>4, TypeCorrect, PTL
     DEF Spec, ImplementsLifecycle, Lifecycle!LifecycleSpec
=============================================================================
