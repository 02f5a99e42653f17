------------------------ MODULE RunStoreJournalProofs -----------------------
(***************************************************************************)
(* What one transaction does to the row, the checkpoints and the journal   *)
(* of a run together (StepKind), and what follows from it: checkpoints     *)
(* agree with the status, and executions do not interleave in the journal. *)
(***************************************************************************)
EXTENDS RunStoreProofs, SequenceTheorems

\* The parts of a row that tell who may publish.
SameHolder(q) == run'[q].owner = run[q].owner /\ run'[q].fence = run[q].fence

SameChecks(q) ==
  /\ DOMAIN checkpoints'[q] = DOMAIN checkpoints[q]
  /\ Len(checkpoints'[q]) = Len(checkpoints[q])
  /\ \A i \in DOMAIN checkpoints[q] : checkpoints'[q][i].consumed = checkpoints[q][i].consumed

Wrote(q, types) == events'[q] = WithEvents(q, types, run'[q].fence)

Bystander(q) ==
  /\ events'[q] = events[q] /\ checkpoints'[q] = checkpoints[q]
  /\ run'[q] = run[q] \/ WokenRow(run[q], run'[q])

Creates(q) ==
  /\ run[q].status = "absent" /\ run'[q].status \in {"pending", "queued"}
  /\ run'[q].owner = None
  /\ SameChecks(q) /\ Wrote(q, <<"run.created">>)

Starts(q) ==
  /\ run[q].status \in {"pending", "running"} /\ run'[q].status = "running"
  /\ run'[q].fence = run[q].fence + 1
  /\ SameChecks(q) /\ Wrote(q, <<"run.started">>)

Resumes(q) ==
  /\ run[q].status = "waiting_input" /\ run'[q].status \in {"pending", "running"}
  /\ \E i \in DOMAIN checkpoints[q] : \E c :
       /\ ~checkpoints[q][i].consumed /\ c.consumed
       /\ checkpoints'[q] = [checkpoints[q] EXCEPT ![i] = c]
  /\ \/ run'[q].owner = None /\ run'[q].fence = run[q].fence /\ Wrote(q, <<"hitl.resumed">>)
     \/ run'[q].fence = run[q].fence + 1 /\ Wrote(q, <<"hitl.resumed", "run.started">>)

Pauses(q) ==
  /\ run[q].status = "running" /\ run'[q].status = "waiting_input"
  /\ run'[q].owner = None /\ run'[q].fence = run[q].fence
  /\ \E c : ~c.consumed /\ checkpoints'[q] = Append(checkpoints[q], c)
  /\ Wrote(q, <<"run.waiting_input", "hitl.required">>)

Publishes(q) ==
  /\ run'[q] = run[q] /\ run[q].owner # None /\ run[q].status # "absent"
  /\ SameChecks(q) /\ Wrote(q, <<"progress">>)

Silent(q) ==
  /\ events'[q] = events[q] /\ SameChecks(q)
  /\ run'[q].status = run[q].status /\ SameHolder(q)

Cancels(q) ==
  /\ run[q].status \in {"pending", "running", "waiting_input"} /\ run'[q].status = "cancelling"
  /\ SameHolder(q) /\ SameChecks(q) /\ Wrote(q, <<"warning.created">>)

Ends(q) ==
  /\ run[q].status # "absent" /\ run'[q].status \in TerminalStatuses
  /\ SameHolder(q) /\ SameChecks(q)
  /\ \E t \in TerminalEvents : Wrote(q, <<"message.completed", t>>)

StepKind(q) ==
  \/ Bystander(q) \/ Creates(q) \/ Starts(q) \/ Resumes(q) \/ Pauses(q)
  \/ Publishes(q) \/ Silent(q) \/ Cancels(q) \/ Ends(q)

\* A transaction on run r alone leaves the others where they are.
LEMMA OthersStandBy ==
  ASSUME TypeOK, NEW r \in RunIds, NEW y, NEW c, NEW e,
         run' = [run EXCEPT ![r] = y] \/ run' = run,
         checkpoints' = [checkpoints EXCEPT ![r] = c] \/ checkpoints' = checkpoints,
         events' = [events EXCEPT ![r] = e] \/ events' = events
  PROVE  \A q \in RunIds \ {r} : Bystander(q)
BY DEF Bystander, TypeOK

LEMMA UntouchedChecks ==
  ASSUME NEW q \in RunIds, checkpoints' = checkpoints
  PROVE  SameChecks(q)
BY DEF SameChecks

LEMMA ReserveKind ==
  ASSUME TypeOK, NEW r \in RunIds, NEW t \in Threads, NEW k, NEW s, NEW e, Reserve(r, t, k, s, e)
  PROVE  \A q \in RunIds : StepKind(q)
<1>1. /\ run[r].status = "absent" /\ checkpoints' = checkpoints
      /\ events' = [events EXCEPT ![r] = WithEvents(r, <<"run.created">>, version[t] + 2)]
  BY DEF Reserve, CanReserve, Exists
<1>2. PICK y : /\ y.status \in {"pending", "queued"} /\ y.owner = None /\ y.fence = version[t] + 2
               /\ run' = [run EXCEPT ![r] = y]
  <2>1. LET y == StartableRun(t, k)
        IN  y.status = "pending" /\ y.owner = None /\ y.fence = version[t] + 2
    BY DEF StartableRun, AbsentRun
  <2>2. \A x : LET y == QueuedRun(t, k, x)
               IN  y.status = "queued" /\ y.owner = None /\ y.fence = version[t] + 2
    BY DEF QueuedRun, AbsentRun
  <2> QED
    BY <2>1, <2>2 DEF Reserve
<1>3. Creates(r)
  BY <1>1, <1>2, UntouchedChecks DEF Creates, Wrote, TypeOK
<1> QED
  BY <1>1, <1>2, <1>3, OthersStandBy DEF StepKind

LEMMA ResumeKind ==
  ASSUME TypeOK, NEW r \in RunIds, NEW i, NEW k, NEW a, NEW w \in Workers \cup {None},
         ConsumeResume(r, i, k, a, w)
  PROVE  \A q \in RunIds : StepKind(q)
<1> DEFINE resumed == IF w = None
                      THEN [run[r] EXCEPT !.status = "pending", !.owner = None, !.lease = "none"]
                      ELSE StartedBy(r, w)
           types == IF w = None THEN <<"hitl.resumed">> ELSE <<"hitl.resumed", "run.started">>
           c == [checkpoints[r][i] EXCEPT !.consumed = TRUE, !.key = k, !.answer = a]
           y == [resumed EXCEPT !.message = "streaming"]
<1>1. /\ run[r] \in RunRecord /\ run[r].status = "waiting_input"
      /\ i \in DOMAIN checkpoints[r] /\ ~checkpoints[r][i].consumed
      /\ run \in [RunIds -> RunRecord] /\ events \in [RunIds -> Seq(Event)]
      /\ checkpoints \in [RunIds -> Seq(Checkpoint)]
  BY DEF TypeOK, ConsumeResume, CanAccept
<1>2. /\ run' = [run EXCEPT ![r] = y]
      /\ events' = [events EXCEPT ![r] = WithEvents(r, types, resumed.fence)]
      /\ checkpoints' = [checkpoints EXCEPT ![r] = [checkpoints[r] EXCEPT ![i] = c]]
  BY <1>1 DEF ConsumeResume
<1>3. c.consumed
  <2>1. checkpoints[r][i] \in Checkpoint
    BY CheckpointsType, <1>1
  <2> QED
    BY <2>1 DEF Checkpoint
<1>4. CASE w = None
  <2>1. /\ y.status = "pending" /\ y.owner = None /\ y.fence = run[r].fence
        /\ resumed.fence = run[r].fence /\ types = <<"hitl.resumed">>
    BY <1>1, <1>4 DEF RunRecord
  <2> HIDE DEF y, resumed, types, c
  <2>2. run'[r] = y /\ events'[r] = WithEvents(r, types, resumed.fence)
        /\ checkpoints'[r] = [checkpoints[r] EXCEPT ![i] = c]
    BY <1>1, <1>2
  <2>3. Wrote(r, <<"hitl.resumed">>)
    BY <2>1, <2>2 DEF Wrote
  <2>4. Resumes(r)
    BY <1>1, <1>3, <2>1, <2>2, <2>3 DEF Resumes
  <2> QED
    BY <1>2, <2>4, OthersStandBy DEF StepKind
<1>5. CASE w # None
  <2>1. /\ y.status = "running" /\ y.fence = run[r].fence + 1
        /\ resumed.fence = run[r].fence + 1 /\ types = <<"hitl.resumed", "run.started">>
    BY <1>1, <1>5 DEF StartedBy, RunRecord
  <2> HIDE DEF y, resumed, types, c
  <2>2. run'[r] = y /\ events'[r] = WithEvents(r, types, resumed.fence)
        /\ checkpoints'[r] = [checkpoints[r] EXCEPT ![i] = c]
    BY <1>1, <1>2
  <2>3. Wrote(r, <<"hitl.resumed", "run.started">>)
    BY <2>1, <2>2 DEF Wrote
  <2>4. Resumes(r)
    BY <1>1, <1>3, <2>1, <2>2, <2>3 DEF Resumes
  <2> QED
    BY <1>2, <2>4, OthersStandBy DEF StepKind
<1> QED
  BY <1>4, <1>5

LEMMA FinalizeKind ==
  ASSUME TypeOK, NEW r \in RunIds, NEW target \in TerminalStatuses, NEW f,
         NEW partial \in BOOLEAN, Finalize(r, target, f, partial)
  PROVE  \A q \in RunIds : StepKind(q)
<1>1. run[r] \in RunRecord /\ checkpoints' = checkpoints
  BY DEF TypeOK, Finalize
<1>2. run'[r] = Ended(r, target, partial) /\ FinalStatus(r, target) \in TerminalStatuses
  BY FinalizeEffect, EndedType
<1>3. /\ run'[r].status = FinalStatus(r, target) /\ run'[r].owner = run[r].owner
      /\ run'[r].fence = run[r].fence
  BY <1>1, <1>2 DEF Ended, RunRecord
<1>4. TerminalEvent(FinalStatus(r, target)) \in TerminalEvents
  BY DEF TerminalEvent, TerminalEvents
<1>5. events'[r] = WithEvents(r, <<"message.completed", TerminalEvent(FinalStatus(r, target))>>,
                              run[r].fence)
  BY DEF Finalize, TypeOK
<1>6. run[r].status # "absent"
  BY DEF Finalize, CanFinalize, Exists
<1>7. Ends(r)
  BY <1>1, <1>2, <1>3, <1>4, <1>5, <1>6, UntouchedChecks DEF Ends, SameHolder, Wrote
<1>8. ASSUME NEW q \in RunIds \ {r}
      PROVE  Bystander(q)
  <2>1. events'[q] = events[q]
    BY DEF Finalize, TypeOK
  <2>2. CASE q \in Promoted(r)
    <3>1. run[q].status = "queued" /\ run[q] \in RunRecord /\ run'[q] = Woken(q)
      BY <2>2, FinalizeEffect DEF Promoted, Oldest, QueuedRuns, TypeOK
    <3>2. WokenRow(run[q], run'[q])
      BY <3>1 DEF Woken, WokenRow, RunRecord
    <3> QED
      BY <1>1, <2>1, <3>2 DEF Bystander
  <2>3. CASE q \notin Promoted(r)
    BY <1>1, <2>1, <2>3, FinalizeEffect DEF Bystander
  <2> QED
    BY <2>2, <2>3
<1> QED
  BY <1>7, <1>8 DEF StepKind

LEMMA StartKind ==
  ASSUME TypeOK, NEW r \in RunIds, NEW w \in Workers, run[r].status \in {"pending", "running"},
         run' = [run EXCEPT ![r] = StartedBy(r, w)], checkpoints' = checkpoints,
         events' = [events EXCEPT ![r] = WithEvents(r, <<"run.started">>, run[r].fence + 1)]
  PROVE  \A q \in RunIds : StepKind(q)
<1>1. run[r] \in RunRecord
  BY DEF TypeOK
<1>2. run'[r] = StartedBy(r, w)
  BY DEF TypeOK
<1>3. run'[r].status = "running" /\ run'[r].fence = run[r].fence + 1
  <2>1. StartedBy(r, w).status = "running"
    BY <1>1 DEF StartedBy, RunRecord
  <2>2. StartedBy(r, w).fence = run[r].fence + 1
    BY <1>1 DEF StartedBy, RunRecord
  <2> QED
    BY <1>2, <2>1, <2>2
<1>4. Wrote(r, <<"run.started">>)
  BY <1>3 DEF Wrote, TypeOK
<1> QED
  BY <1>3, <1>4, UntouchedChecks, OthersStandBy DEF Starts, StepKind

LEMMA SilentKind ==
  ASSUME TypeOK, NEW r \in RunIds, NEW y, y.status = run[r].status, y.owner = run[r].owner,
         y.fence = run[r].fence, run' = [run EXCEPT ![r] = y],
         checkpoints' = checkpoints, events' = events
  PROVE  \A q \in RunIds : StepKind(q)
<1>1. run'[r] = y
  BY DEF TypeOK
<1>2. Silent(r)
  BY <1>1, UntouchedChecks DEF Silent, SameHolder
<1> QED
  BY <1>2, OthersStandBy DEF StepKind

LEMMA WorkerKind ==
  ASSUME TypeOK, NEW r \in RunIds, NEW w \in Workers, WorkerNext(r, w)
  PROVE  \A q \in RunIds : StepKind(q)
<1> DEFINE Goal == \A q \in RunIds : StepKind(q)
<1>1. run[r] \in RunRecord /\ run = [run EXCEPT ![r] = run[r]]
  BY DEF TypeOK
<1>2. CASE Claim(r, w)
  BY <1>2, StartKind DEF Claim, CanClaim
<1>3. ASSUME NEW i, NEW k, NEW a, TakeResume(r, i, k, a, w) PROVE Goal
  BY <1>3, StartKind DEF TakeResume, CanTakeResume
<1>4. ASSUME NEW f, Heartbeat(r, w, f) PROVE Goal
  <2>1. LET y == [run[r] EXCEPT !.lease = "valid"]
        IN  y.status = run[r].status /\ y.owner = run[r].owner /\ y.fence = run[r].fence
    BY <1>1 DEF RunRecord
  <2> QED
    BY <1>4, <2>1, SilentKind DEF Heartbeat
<1>5. ASSUME NEW f, NEW s, PinSkill(r, w, f, s) PROVE Goal
  <2>1. LET y == [run[r] EXCEPT !.skill = s]
        IN  y.status = run[r].status /\ y.owner = run[r].owner /\ y.fence = run[r].fence
    BY <1>1 DEF RunRecord
  <2> QED
    BY <1>5, <2>1, SilentKind DEF PinSkill
<1>6. ASSUME NEW f, Publish(r, w, f) PROVE Goal
  <2>1. /\ run[r].owner # None /\ run[r].status # "absent"
        /\ run' = run /\ checkpoints' = checkpoints
        /\ events' = [events EXCEPT ![r] = WithEvents(r, <<"progress">>, run[r].fence)]
    BY <1>6, NoneAssumption DEF Publish, OwnsLive
  <2>2. Publishes(r)
    BY <2>1, UntouchedChecks DEF Publishes, Wrote, TypeOK
  <2> QED
    BY <2>1, <2>2, OthersStandBy DEF StepKind
<1>7. ASSUME NEW f, NEW round, RecordPause(r, w, f, round) PROVE Goal
  <2> DEFINE c == [consumed |-> FALSE, key |-> None, answer |-> None, done |-> FALSE]
             e == WithEvents(r, <<"run.waiting_input", "hitl.required">>, run[r].fence)
  <2>1. /\ run[r].status = "running" /\ run' = [run EXCEPT ![r] = Paused(r)]
        /\ checkpoints' = [checkpoints EXCEPT ![r] = Append(checkpoints[r], c)]
        /\ events' = [events EXCEPT ![r] = e]
    BY <1>7 DEF RecordPause, CanPause, OwnsRunning
  <2>2. ~c.consumed
    OBVIOUS
  <2> HIDE DEF c, e
  <2>3. run'[r] = Paused(r) /\ checkpoints'[r] = Append(checkpoints[r], c) /\ events'[r] = e
    BY <2>1 DEF TypeOK
  <2>4. run'[r].status = "waiting_input" /\ run'[r].owner = None /\ run'[r].fence = run[r].fence
    BY <1>1, <2>3 DEF Paused, RunRecord
  <2>5. Wrote(r, <<"run.waiting_input", "hitl.required">>)
    BY <2>3, <2>4 DEF Wrote, e
  <2>6. Pauses(r)
    BY <2>1, <2>2, <2>3, <2>4, <2>5 DEF Pauses
  <2> QED
    BY <2>1, <2>6, OthersStandBy DEF StepKind
<1>8. ASSUME NEW f, NEW i \in DOMAIN checkpoints[r], RecordResumeResult(r, i, w, f) PROVE Goal
  <2> DEFINE c == [checkpoints[r][i] EXCEPT !.done = TRUE]
  <2>1. /\ checkpoints' = [checkpoints EXCEPT ![r] = [checkpoints[r] EXCEPT ![i] = c]]
        /\ run' = run /\ events' = events
    BY <1>8 DEF RecordResumeResult
  <2>2. checkpoints[r] \in Seq(Checkpoint) /\ checkpoints[r][i] \in Checkpoint
    BY CheckpointsType
  <2>3. c.consumed = checkpoints[r][i].consumed
    BY <2>2 DEF Checkpoint
  <2> HIDE DEF c
  <2>4. checkpoints'[r] = [checkpoints[r] EXCEPT ![i] = c]
    BY <2>1 DEF TypeOK
  <2>5. SameChecks(r)
    BY <2>2, <2>3, <2>4 DEF SameChecks
  <2>6. Silent(r)
    BY <2>1, <2>5 DEF Silent, SameHolder
  <2> QED
    BY <2>1, <2>6, OthersStandBy DEF StepKind
<1> QED
  BY <1>2, <1>3, <1>4, <1>5, <1>6, <1>7, <1>8 DEF WorkerNext

\* Every transaction treats the row, checkpoints and journal of a run in one of
\* these ways.
LEMMA NextKind ==
  ASSUME TypeOK, [Next]_storeVars
  PROVE  \A q \in RunIds : StepKind(q)
<1> DEFINE Goal == \A q \in RunIds : StepKind(q)
<1>1. CASE UNCHANGED storeVars
  BY <1>1 DEF storeVars, StepKind, Bystander
<1> SUFFICES ASSUME NEW r \in RunIds,
                    \/ RequestNext(r)
                    \/ \E w \in Workers : WorkerNext(r, w)
                    \/ FinishNext(r)
                    \/ LeaseExpires(r)
             PROVE  Goal
  BY <1>1 DEF Next
<1>2. run[r] \in RunRecord
  BY DEF TypeOK
<1>3. ASSUME NEW t \in Threads, NEW k, NEW s, NEW e, Reserve(r, t, k, s, e) PROVE Goal
  BY <1>3, ReserveKind
<1>4. CASE MarkCancelling(r)
  <2> DEFINE y == [run[r] EXCEPT !.status = "cancelling"]
  <2>1. run[r].status \in {"pending", "running", "waiting_input"}
    BY <1>4 DEF MarkCancelling, CanMarkCancelling, CanTransition, AllowedTransitions,
       TerminalStatuses
  <2>2. y.status = "cancelling" /\ y.owner = run[r].owner /\ y.fence = run[r].fence
    BY <1>2 DEF RunRecord
  <2>3. /\ run' = [run EXCEPT ![r] = y] /\ checkpoints' = checkpoints
        /\ events' = [events EXCEPT ![r] = WithEvents(r, <<"warning.created">>, run[r].fence)]
    BY <1>4 DEF MarkCancelling
  <2> HIDE DEF y
  <2>4. run'[r] = y /\ events'[r] = WithEvents(r, <<"warning.created">>, run[r].fence)
    BY <2>3 DEF TypeOK
  <2>5. Cancels(r)
    BY <2>1, <2>2, <2>3, <2>4, UntouchedChecks DEF Cancels, SameHolder, Wrote
  <2> QED
    BY <2>3, <2>5, OthersStandBy DEF StepKind
<1>5. ASSUME NEW i, NEW k, NEW a, NEW w \in Workers \cup {None}, ConsumeResume(r, i, k, a, w)
      PROVE  Goal
  BY <1>5, ResumeKind
<1>6. ASSUME NEW w \in Workers, WorkerNext(r, w) PROVE Goal
  BY <1>6, WorkerKind
<1>7. CASE FinishNext(r)
  BY <1>7, FinalizeKind DEF FinishNext, FinalizeOrphan, TerminalStatuses
<1>8. CASE LeaseExpires(r)
  <2>1. LET y == [run[r] EXCEPT !.lease = "expired"]
        IN  y.status = run[r].status /\ y.owner = run[r].owner /\ y.fence = run[r].fence
    BY <1>2 DEF RunRecord
  <2> QED
    BY <1>8, <2>1, SilentKind DEF LeaseExpires
<1> QED
  BY <1>3, <1>4, <1>5, <1>6, <1>7, <1>8 DEF RequestNext

-----------------------------------------------------------------------------
(* Checkpoints *)

\* All checkpoints of the run have had their answer.
Answered(q) == \A i \in DOMAIN checkpoints[q] : checkpoints[q][i].consumed

\* A run that is not yet, or no longer, waiting has had all its answers, a waiting run
\* lacks the last one, and no other can be missing.
CheckInv(q) ==
  /\ run[q].status = "absent" => Len(checkpoints[q]) = 0
  /\ run[q].status \in {"absent", "queued", "pending", "running"} => Answered(q)
  /\ run[q].status = "waiting_input" =>
       Len(checkpoints[q]) > 0 /\ ~checkpoints[q][Len(checkpoints[q])].consumed
  /\ \A i \in DOMAIN checkpoints[q] : ~checkpoints[q][i].consumed => i = Len(checkpoints[q])

LEMMA KindKeepsCheckInv ==
  ASSUME TypeOK, NEW q \in RunIds, CheckInv(q), StepKind(q)
  PROVE  CheckInv(q)'
<1>1. checkpoints[q] \in Seq(Checkpoint) /\ Len(checkpoints[q]) \in Nat
      /\ DOMAIN checkpoints[q] = 1..Len(checkpoints[q])
  BY DEF TypeOK
<1>2. CASE Bystander(q)
  BY <1>2 DEF Bystander, WokenRow, CheckInv, Answered
<1>3. ASSUME SameChecks(q),
             run'[q].status \in {"absent", "queued", "pending", "running"} =>
               run[q].status \in {"absent", "queued", "pending", "running"},
             run'[q].status = "waiting_input" => run[q].status = "waiting_input",
             run'[q].status = "absent" => run[q].status = "absent"
      PROVE  CheckInv(q)'
  BY <1>1, <1>3 DEF SameChecks, CheckInv, Answered
<1>4. CASE Creates(q) \/ Starts(q) \/ Publishes(q) \/ Silent(q) \/ Cancels(q) \/ Ends(q)
  BY <1>3, <1>4 DEF Creates, Starts, Publishes, Silent, Cancels, Ends, TerminalStatuses
<1>5. CASE Resumes(q)
  <2>0. PICK i \in DOMAIN checkpoints[q] : \E c :
          /\ ~checkpoints[q][i].consumed /\ c.consumed
          /\ checkpoints'[q] = [checkpoints[q] EXCEPT ![i] = c]
    BY <1>5 DEF Resumes
  <2>1. PICK c :
          /\ ~checkpoints[q][i].consumed /\ c.consumed
          /\ checkpoints'[q] = [checkpoints[q] EXCEPT ![i] = c]
    BY <2>0
  <2>2. i = Len(checkpoints[q])
    BY <2>1 DEF CheckInv
  <2>3. /\ DOMAIN checkpoints'[q] = DOMAIN checkpoints[q]
        /\ \A j \in DOMAIN checkpoints[q] : checkpoints'[q][j].consumed
    BY <1>1, <2>1, <2>2 DEF CheckInv
  <2> QED
    BY <1>5, <2>3 DEF Resumes, CheckInv, Answered
<1>6. CASE Pauses(q)
  <2>1. PICK c : ~c.consumed /\ checkpoints'[q] = Append(checkpoints[q], c)
    BY <1>6 DEF Pauses
  <2> DEFINE n == Len(checkpoints[q])
  <2>2. /\ Len(checkpoints'[q]) = n + 1 /\ DOMAIN checkpoints'[q] = 1..n + 1
        /\ checkpoints'[q][n + 1] = c
        /\ \A j \in 1..n : checkpoints'[q][j] = checkpoints[q][j]
    BY <1>1, <2>1
  <2>3. \A j \in 1..n : checkpoints[q][j].consumed
    BY <1>1, <1>6 DEF Pauses, CheckInv, Answered
  <2> QED
    BY <1>1, <1>6, <2>1, <2>2, <2>3 DEF Pauses, CheckInv, Answered
<1> QED
  BY <1>2, <1>4, <1>5, <1>6 DEF StepKind

\* A run waits exactly for its latest checkpoint and never has an earlier one open.
THEOREM OneOpenCheckpointHolds == Spec => []OneOpenCheckpoint
<1> DEFINE Inv == \A q \in RunIds : CheckInv(q)
<1>1. Init => Inv
  BY DEF Init, CheckInv, Answered, AbsentRun
<1>2. TypeOK /\ Inv /\ [Next]_storeVars => Inv'
  BY NextKind, KindKeepsCheckInv
<1>3. TypeOK /\ Inv => OneOpenCheckpoint
  <2> SUFFICES ASSUME TypeOK, Inv, NEW r \in RunIds
               PROVE  /\ run[r].status = "waiting_input" =>
                           checkpoints[r] # <<>> /\ ~checkpoints[r][Len(checkpoints[r])].consumed
                      /\ run[r].status \in {"pending", "running"} =>
                           \A i \in DOMAIN checkpoints[r] : checkpoints[r][i].consumed
                      /\ \A i \in DOMAIN checkpoints[r] :
                           ~checkpoints[r][i].consumed => i = Len(checkpoints[r])
    BY DEF OneOpenCheckpoint
  <2>1. Len(checkpoints[r]) > 0 => checkpoints[r] # <<>>
    BY DEF TypeOK
  <2> QED
    BY <2>1 DEF CheckInv, Answered
<1> QED
  BY <1>1, <1>2, <1>3, TypeCorrect, PTL DEF Spec

\* Row, journal, message and checkpoints of a run always tell the same story.
THEOREM RowsAgreeHolds == Spec => []RowsAgree
BY OwnershipHolds, TerminalEventLastHolds, OneOpenCheckpointHolds, MessageAgreesHolds, PTL
   DEF RowsAgree

-----------------------------------------------------------------------------
(* Executions in the journal *)

\* The journal holds no token beyond the row's, the executions in it follow each
\* other, and a run that somebody owns was started again since it last waited.
ExecInv(q) ==
  /\ run[q].status = "absent" => Len(events[q]) = 0
  /\ \A i \in 1..Len(events[q]) : events[q][i].fence <= run[q].fence
  /\ \A i, j \in 1..Len(events[q]) :
       (i < j /\ events[q][i].type = "run.started" /\ events[q][j].type = "progress")
         => events[q][i].fence <= events[q][j].fence
  /\ \A i, j \in 1..Len(events[q]) :
       (i < j /\ events[q][i].type = "run.waiting_input" /\ events[q][j].type = "progress")
         => \E k \in i..j : events[q][k].type = "run.started"
  /\ run[q].owner # None =>
       \A i \in 1..Len(events[q]) : events[q][i].type = "run.waiting_input" =>
         \E k \in i..Len(events[q]) : events[q][k].type = "run.started"

\* What Wrote does to the journal, row by row.
LEMMA WroteShape ==
  ASSUME TypeOK, TypeOK', NEW q \in RunIds, NEW types \in Seq(EventTypes), Wrote(q, types)
  PROVE  /\ Len(events'[q]) = Len(events[q]) + Len(types)
         /\ \A i \in 1..Len(events[q]) : events'[q][i] = events[q][i]
         /\ \A i \in 1..Len(types) :
              /\ events'[q][Len(events[q]) + i].type = types[i]
              /\ events'[q][Len(events[q]) + i].fence = run'[q].fence
<1>1. events[q] \in Seq(Event) /\ run'[q].fence \in Nat
  BY DEF TypeOK, RunRecord
<1>2. Len(types) \in Nat /\ \A i \in 1..Len(types) : types[i] \in EventTypes
  OBVIOUS
<1> DEFINE new == [i \in 1..Len(types) |-> [type |-> types[i], fence |-> run'[q].fence]]
<1>3. new \in Seq(Event) /\ Len(new) = Len(types)
  BY <1>1, <1>2 DEF Event
<1>4. \A i \in 1..Len(types) : new[i].type = types[i] /\ new[i].fence = run'[q].fence
  OBVIOUS
<1>5. events'[q] = events[q] \o new
  BY DEF Wrote, WithEvents
<1> HIDE DEF new
<1>6. Len(events'[q]) = Len(events[q]) + Len(types)
  <2>1. Len(events[q] \o new) = Len(events[q]) + Len(new)
    BY <1>1, <1>3, ConcatProperties
  <2> QED
    BY <1>3, <1>5, <2>1
<1>7. \A i \in 1..Len(events[q]) : events'[q][i] = events[q][i]
  BY <1>1, <1>3, <1>5
<1>8. \A i \in 1..Len(types) : events'[q][Len(events[q]) + i] = new[i]
  BY <1>1, <1>2, <1>3, <1>5
<1> QED
  BY <1>4, <1>6, <1>7, <1>8

\* Rows other than progress, written under a token that did not go back by a step
\* that leaves the run to nobody, or that leaves or starts it without waiting.
LEMMA MarksKeepExecInv ==
  ASSUME TypeOK, TypeOK', NEW q \in RunIds, ExecInv(q), NEW types \in Seq(EventTypes),
         Wrote(q, types), Len(types) > 0,
         \A i \in 1..Len(types) : types[i] # "progress",
         Len(events[q]) = 0 \/ run'[q].fence >= run[q].fence,
         run'[q].status # "absent",
         \/ run'[q].owner = None
         \/ /\ \A i \in 1..Len(types) : types[i] # "run.waiting_input"
            /\ run'[q].owner = run[q].owner \/ types[Len(types)] = "run.started"
  PROVE  ExecInv(q)'
<1> DEFINE n == Len(events[q])
           m == Len(types)
<1>1. /\ n \in Nat /\ m \in Nat /\ run[q].fence \in Nat /\ run'[q].fence \in Nat
      /\ \A i \in 1..n : events[q][i].fence \in Nat
  <2>1. events[q] \in Seq(Event) /\ run[q].fence \in Nat /\ run'[q].fence \in Nat
    BY DEF TypeOK, RunRecord
  <2>2. \A i \in 1..n : events[q][i] \in Event
    BY <2>1
  <2> QED
    BY <2>1, <2>2 DEF Event
<1>2. /\ Len(events'[q]) = n + m
      /\ \A i \in 1..n : events'[q][i] = events[q][i]
      /\ \A i \in 1..m : /\ events'[q][n + i].type = types[i]
                         /\ events'[q][n + i].fence = run'[q].fence
  BY WroteShape
<1>3. \A i \in 1..Len(events'[q]) : i \in 1..n \/ (i - n \in 1..m /\ i = n + (i - n))
  BY <1>1, <1>2
<1>4. \A i \in 1..Len(events'[q]) :
        /\ events'[q][i].type = "progress" => i \in 1..n
        /\ (run'[q].owner # None /\ events'[q][i].type = "run.waiting_input") => i \in 1..n
  <2> SUFFICES ASSUME NEW i \in 1..Len(events'[q]), i \notin 1..n
               PROVE  /\ events'[q][i].type # "progress"
                      /\ run'[q].owner # None => events'[q][i].type # "run.waiting_input"
    OBVIOUS
  <2>1. PICK k \in 1..m : i = n + k
    BY <1>3
  <2>2. events'[q][i].type = types[k]
    BY <1>2, <2>1
  <2> QED
    BY <2>2
<1>5. \A i \in 1..Len(events'[q]) : events'[q][i].fence <= run'[q].fence
  <2> SUFFICES ASSUME NEW i \in 1..Len(events'[q])
               PROVE  events'[q][i].fence <= run'[q].fence
    OBVIOUS
  <2>1. CASE i \in 1..n
    <3>1. events[q][i].fence <= run[q].fence /\ events[q][i].fence \in Nat
      BY <1>1, <2>1 DEF ExecInv
    <3>2. run'[q].fence >= run[q].fence
      BY <1>1, <2>1
    <3>3. events'[q][i].fence = events[q][i].fence
      BY <1>2, <2>1
    <3> QED
      BY <1>1, <3>1, <3>2, <3>3
  <2>2. CASE i - n \in 1..m /\ i = n + (i - n)
    <3>1. events'[q][n + (i - n)].fence = run'[q].fence
      BY <1>2, <2>2
    <3>2. events'[q][i].fence = run'[q].fence
      BY <2>2, <3>1
    <3> QED
      BY <1>1, <3>2
  <2> QED
    BY <1>3, <2>1, <2>2
<1>6. \A i, j \in 1..Len(events'[q]) :
       (i < j /\ events'[q][i].type = "run.started" /\ events'[q][j].type = "progress")
         => events'[q][i].fence <= events'[q][j].fence
  <2> SUFFICES ASSUME NEW i \in 1..Len(events'[q]), NEW j \in 1..Len(events'[q]), i < j,
                      events'[q][i].type = "run.started", events'[q][j].type = "progress"
               PROVE  events'[q][i].fence <= events'[q][j].fence
    OBVIOUS
  <2>0. j \in 1..n
    BY <1>4
  <2>1. i \in 1..n /\ j \in 1..n
    BY <1>1, <2>0
  <2> QED
    BY <1>2, <2>1 DEF ExecInv
<1>7. \A i, j \in 1..Len(events'[q]) :
       (i < j /\ events'[q][i].type = "run.waiting_input" /\ events'[q][j].type = "progress")
         => \E k \in i..j : events'[q][k].type = "run.started"
  <2> SUFFICES ASSUME NEW i \in 1..Len(events'[q]), NEW j \in 1..Len(events'[q]), i < j,
                      events'[q][i].type = "run.waiting_input", events'[q][j].type = "progress"
               PROVE  \E k \in i..j : events'[q][k].type = "run.started"
    OBVIOUS
  <2>0. j \in 1..n
    BY <1>4
  <2>1. i \in 1..n /\ j \in 1..n
    BY <1>1, <2>0
  <2>4. events[q][i].type = "run.waiting_input" /\ events[q][j].type = "progress"
    BY <1>2, <2>1
  <2>2. PICK k \in i..j : events[q][k].type = "run.started"
    BY <2>1, <2>4 DEF ExecInv
  <2>3. k \in 1..n
    BY <1>1, <2>1
  <2> QED
    BY <1>2, <2>2, <2>3
<1>8. ASSUME run'[q].owner # None, NEW i \in 1..Len(events'[q]),
             events'[q][i].type = "run.waiting_input"
      PROVE  \E k \in i..Len(events'[q]) : events'[q][k].type = "run.started"
  <2>0. i \in 1..n
    BY <1>4, <1>8
  <2>1. i \in 1..n /\ events[q][i].type = "run.waiting_input"
    BY <1>2, <1>8, <2>0
  <2>2. CASE run'[q].owner = run[q].owner
    <3>1. PICK k \in i..n : events[q][k].type = "run.started"
      BY <1>8, <2>1, <2>2 DEF ExecInv
    <3>2. k \in 1..n /\ k \in i..Len(events'[q])
      BY <1>1, <1>2, <2>1
    <3> QED
      BY <1>2, <3>1, <3>2
  <2>3. CASE types[m] = "run.started"
    <3>1. m \in 1..m /\ n + m \in i..Len(events'[q])
      BY <1>1, <1>2, <2>1
    <3>2. events'[q][n + m].type = "run.started"
      BY <1>2, <2>3, <3>1
    <3> QED
      BY <3>1, <3>2
  <2> QED
    BY <1>8, <2>2, <2>3
<1> QED
  BY <1>5, <1>6, <1>7, <1>8 DEF ExecInv

\* The owner publishes: every start before it carries a token that is not newer,
\* and there was one since the run last waited.
LEMMA PublishKeepsExecInv ==
  ASSUME TypeOK, TypeOK', NEW q \in RunIds, ExecInv(q), Publishes(q)
  PROVE  ExecInv(q)'
<1> DEFINE n == Len(events[q])
<1>1. /\ n \in Nat /\ run[q].fence \in Nat /\ run'[q] = run[q] /\ run[q].owner # None
      /\ \A i \in 1..n : events[q][i].fence \in Nat
  <2>1. events[q] \in Seq(Event) /\ run[q].fence \in Nat
    BY DEF TypeOK, RunRecord
  <2>2. \A i \in 1..n : events[q][i] \in Event
    BY <2>1
  <2> QED
    BY <2>1, <2>2 DEF Event, Publishes
<1>2. /\ Len(events'[q]) = n + 1
      /\ \A i \in 1..n : events'[q][i] = events[q][i]
      /\ events'[q][n + 1].type = "progress" /\ events'[q][n + 1].fence = run[q].fence
  <2>1. <<"progress">> \in Seq(EventTypes) /\ Wrote(q, <<"progress">>)
    BY DEF EventTypes, Publishes
  <2>2. Len(<<"progress">>) = 1 /\ <<"progress">>[1] = "progress" /\ 1 \in 1..1
    OBVIOUS
  <2>3. /\ Len(events'[q]) = n + Len(<<"progress">>)
        /\ \A i \in 1..n : events'[q][i] = events[q][i]
        /\ \A i \in 1..Len(<<"progress">>) :
             /\ events'[q][n + i].type = <<"progress">>[i]
             /\ events'[q][n + i].fence = run'[q].fence
    BY <2>1, WroteShape
  <2> QED
    BY <1>1, <2>2, <2>3
<1>3. \A i \in 1..Len(events'[q]) : i \in 1..n \/ i = n + 1
  BY <1>1, <1>2
<1>4. \A i \in 1..n : events[q][i].fence <= run[q].fence
  BY DEF ExecInv
<1>5. \A i \in 1..n : events[q][i].type = "run.waiting_input" =>
        \E k \in i..n : events[q][k].type = "run.started"
  BY <1>1 DEF ExecInv
<1>6. \A i \in 1..Len(events'[q]) : events'[q][i].fence <= run'[q].fence
  BY <1>1, <1>2, <1>3, <1>4
<1>7. ASSUME NEW i \in 1..Len(events'[q]), NEW j \in 1..Len(events'[q]), i < j,
             events'[q][i].type = "run.started", events'[q][j].type = "progress"
      PROVE  events'[q][i].fence <= events'[q][j].fence
  <2>1. i \in 1..n
    BY <1>1, <1>2, <1>7
  <2>2. CASE j \in 1..n
    BY <1>2, <1>7, <2>1, <2>2 DEF ExecInv
  <2>3. CASE j = n + 1
    BY <1>2, <1>4, <2>1, <2>3
  <2> QED
    BY <1>3, <2>2, <2>3
<1>8. ASSUME NEW i \in 1..Len(events'[q]), NEW j \in 1..Len(events'[q]), i < j,
             events'[q][i].type = "run.waiting_input", events'[q][j].type = "progress"
      PROVE  \E k \in i..j : events'[q][k].type = "run.started"
  <2>1. i \in 1..n /\ events[q][i].type = "run.waiting_input"
    BY <1>1, <1>2, <1>8
  <2>2. CASE j \in 1..n
    <3>1. PICK k \in i..j : events[q][k].type = "run.started"
      BY <1>2, <1>8, <2>1, <2>2 DEF ExecInv
    <3>2. k \in 1..n
      BY <1>1, <2>1, <2>2
    <3> QED
      BY <1>2, <3>1, <3>2
  <2>3. CASE j = n + 1
    <3>1. PICK k \in i..n : events[q][k].type = "run.started"
      BY <1>5, <2>1
    <3>2. k \in 1..n /\ k \in i..j
      BY <1>1, <2>1, <2>3
    <3> QED
      BY <1>2, <3>1, <3>2
  <2> QED
    BY <1>3, <2>2, <2>3
<1>9. ASSUME NEW i \in 1..Len(events'[q]), events'[q][i].type = "run.waiting_input"
      PROVE  \E k \in i..Len(events'[q]) : events'[q][k].type = "run.started"
  <2>1. i \in 1..n /\ events[q][i].type = "run.waiting_input"
    BY <1>2, <1>3, <1>9
  <2>2. PICK k \in i..n : events[q][k].type = "run.started"
    BY <1>5, <2>1
  <2>3. k \in 1..n /\ k \in i..Len(events'[q])
    BY <1>1, <1>2, <2>1
  <2> QED
    BY <1>2, <2>2, <2>3
<1>10. run'[q].status = "absent" => Len(events'[q]) = 0
  <2>1. run[q].status # "absent"
    BY <1>1 DEF Publishes
  <2> QED
    BY <1>1, <2>1
<1> QED
  BY <1>6, <1>7, <1>8, <1>9, <1>10 DEF ExecInv


LEMMA KindKeepsExecInv ==
  ASSUME TypeOK, TypeOK', NEW q \in RunIds, ExecInv(q), StepKind(q)
  PROVE  ExecInv(q)'
<1>1. run[q].fence \in Nat /\ run'[q].fence \in Nat
  BY DEF TypeOK, RunRecord
<1>2. CASE Bystander(q) \/ Silent(q)
  <2>1. /\ events'[q] = events[q] /\ run'[q].fence = run[q].fence /\ run'[q].owner = run[q].owner
        /\ run'[q].status = "absent" => run[q].status = "absent"
    BY <1>2 DEF Bystander, Silent, SameHolder, WokenRow
  <2> QED
    BY <2>1 DEF ExecInv
<1>3. CASE Creates(q)
  <2> DEFINE types == <<"run.created">>
  <2>1. /\ types \in Seq(EventTypes) /\ Len(types) > 0 /\ Wrote(q, types)
        /\ \A i \in 1..Len(types) : types[i] # "progress"
    BY <1>3 DEF EventTypes, Creates
  <2>2. Len(events[q]) = 0 /\ run'[q].owner = None /\ run'[q].status # "absent"
    BY <1>3 DEF Creates, ExecInv
  <2> QED
    BY <2>1, <2>2, MarksKeepExecInv
<1>4. CASE Starts(q)
  <2> DEFINE types == <<"run.started">>
  <2>1. /\ types \in Seq(EventTypes) /\ Len(types) > 0 /\ Wrote(q, types)
        /\ \A i \in 1..Len(types) : types[i] \notin {"progress", "run.waiting_input"}
        /\ types[Len(types)] = "run.started"
    BY <1>4 DEF EventTypes, Starts
  <2>2. run'[q].fence >= run[q].fence /\ run'[q].status # "absent"
    BY <1>1, <1>4 DEF Starts
  <2> QED
    BY <2>1, <2>2, MarksKeepExecInv
<1>5. CASE Resumes(q)
  <2>1. run'[q].fence >= run[q].fence /\ run'[q].status # "absent"
    BY <1>1, <1>5 DEF Resumes
  <2>2. CASE run'[q].owner = None /\ Wrote(q, <<"hitl.resumed">>)
    <3> DEFINE types == <<"hitl.resumed">>
    <3>1. /\ types \in Seq(EventTypes) /\ Len(types) > 0
          /\ \A i \in 1..Len(types) : types[i] # "progress"
      BY DEF EventTypes
    <3> QED
      BY <2>1, <2>2, <3>1, MarksKeepExecInv
  <2>3. CASE Wrote(q, <<"hitl.resumed", "run.started">>)
    <3> DEFINE types == <<"hitl.resumed", "run.started">>
    <3>1. /\ types \in Seq(EventTypes) /\ Len(types) > 0
          /\ \A i \in 1..Len(types) : types[i] \notin {"progress", "run.waiting_input"}
          /\ types[Len(types)] = "run.started"
      BY DEF EventTypes
    <3> QED
      BY <2>1, <2>3, <3>1, MarksKeepExecInv
  <2> QED
    BY <1>5, <2>2, <2>3 DEF Resumes
<1>6. CASE Pauses(q)
  <2> DEFINE types == <<"run.waiting_input", "hitl.required">>
  <2>1. /\ types \in Seq(EventTypes) /\ Len(types) > 0 /\ Wrote(q, types)
        /\ \A i \in 1..Len(types) : types[i] # "progress"
    BY <1>6 DEF EventTypes, Pauses
  <2>2. run'[q].fence >= run[q].fence /\ run'[q].owner = None /\ run'[q].status # "absent"
    BY <1>1, <1>6 DEF Pauses
  <2> QED
    BY <2>1, <2>2, MarksKeepExecInv
<1>7. CASE Cancels(q)
  <2> DEFINE types == <<"warning.created">>
  <2>1. /\ types \in Seq(EventTypes) /\ Len(types) > 0 /\ Wrote(q, types)
        /\ \A i \in 1..Len(types) : types[i] \notin {"progress", "run.waiting_input"}
    BY <1>7 DEF EventTypes, Cancels
  <2>2. /\ run'[q].fence >= run[q].fence /\ run'[q].owner = run[q].owner
        /\ run'[q].status # "absent"
    BY <1>1, <1>7 DEF Cancels, SameHolder
  <2> QED
    BY <2>1, <2>2, MarksKeepExecInv
<1>8. CASE Ends(q)
  <2>1. PICK t \in TerminalEvents : Wrote(q, <<"message.completed", t>>)
    BY <1>8 DEF Ends
  <2> DEFINE types == <<"message.completed", t>>
  <2>2. /\ types \in Seq(EventTypes) /\ Len(types) > 0
        /\ \A i \in 1..Len(types) : types[i] \notin {"progress", "run.waiting_input"}
    BY DEF EventTypes, TerminalEvents
  <2>3. /\ run'[q].fence >= run[q].fence /\ run'[q].owner = run[q].owner
        /\ run'[q].status # "absent"
    BY <1>1, <1>8 DEF Ends, SameHolder, TerminalStatuses
  <2> QED
    BY <2>1, <2>2, <2>3, MarksKeepExecInv
<1> QED
  BY <1>2, <1>3, <1>4, <1>5, <1>6, <1>7, <1>8, PublishKeepsExecInv DEF StepKind

\* The journal of every run reads as its executions one after the other: fenced
\* publication keeps out what a superseded or a paused worker sends.
THEOREM ExecutionsFollowHolds == Spec => []ExecutionsFollow
<1> DEFINE Inv == \A q \in RunIds : ExecInv(q)
<1>1. Init => Inv
  BY DEF Init, ExecInv, AbsentRun
<1>2. TypeOK /\ TypeOK' /\ Inv /\ [Next]_storeVars => Inv'
  BY NextKind, KindKeepsExecInv
<1>3. Inv => ExecutionsFollow
  BY DEF ExecInv, ExecutionsFollow, NoInterleavedExecutions, QuietWhileWaiting
<1> QED
  BY <1>1, <1>2, <1>3, TypeCorrect, PTL DEF Spec

\* What was decided about a run stands: no step leaves a terminal status, undoes a
\* cancel, or lets the token go back.
THEOREM DecisionsStandHolds == Spec => DecisionsStand
BY TerminalIsFinalHolds, CancelWinsHolds, FenceGuardsOwnershipHolds DEF DecisionsStand

=============================================================================
