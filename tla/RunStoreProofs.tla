--------------------------- MODULE RunStoreProofs ---------------------------
(***************************************************************************)
(* Machine-checked proofs about RunStore, for any sets of runs, threads,   *)
(* workers, keys, answers and Skills and any bounds.                       *)
(***************************************************************************)
EXTENDS RunStore, TLAPS, WellFoundedInduction

-----------------------------------------------------------------------------
(* Journal rows *)

\* Appending rows of known types under a known fence keeps a journal well typed.
LEMMA WithEventsType ==
  ASSUME NEW r \in RunIds, TypeOK,
         NEW types \in Seq(EventTypes), NEW fence \in Nat
  PROVE  WithEvents(r, types, fence) \in Seq(Event)
<1>1. events[r] \in Seq(Event)
  BY DEF TypeOK
<1>2. Len(types) \in Nat /\ \A i \in 1..Len(types) : types[i] \in EventTypes
  OBVIOUS
<1>3. [i \in 1..Len(types) |-> [type |-> types[i], fence |-> fence]] \in Seq(Event)
  BY <1>2 DEF Event
<1> QED
  BY <1>1, <1>3 DEF WithEvents

\* append_event_in_session leaves earlier rows alone and adds one per type.
LEMMA WithEventsShape ==
  ASSUME NEW r \in RunIds, TypeOK,
         NEW types \in Seq(EventTypes), NEW fence \in Nat
  PROVE  /\ Len(WithEvents(r, types, fence)) = Len(events[r]) + Len(types)
         /\ \A i \in 1..Len(events[r]) : WithEvents(r, types, fence)[i] = events[r][i]
         /\ \A i \in 1..Len(types) :
              WithEvents(r, types, fence)[Len(events[r]) + i].type = types[i]
<1>1. events[r] \in Seq(Event)
  BY DEF TypeOK
<1>2. Len(types) \in Nat /\ \A i \in 1..Len(types) : types[i] \in EventTypes
  OBVIOUS
<1> DEFINE new == [i \in 1..Len(types) |-> [type |-> types[i], fence |-> fence]]
<1>3. new \in Seq(Event) /\ Len(new) = Len(types)
  BY <1>2 DEF Event
<1>4. \A i \in 1..Len(types) : new[i].type = types[i]
  OBVIOUS
<1> HIDE DEF new
<1> QED
  BY <1>1, <1>2, <1>3, <1>4 DEF WithEvents, new

LEMMA FencesType ==
  ASSUME TypeOK, NEW r \in RunIds
  PROVE  Fences(r) \subseteq Nat
<1>1. run[r].fence \in Nat
  BY DEF TypeOK, RunRecord
<1>2. events[r] \in Seq(Event)
  BY DEF TypeOK
<1>3. \A i \in DOMAIN events[r] : events[r][i] \in Event
  BY <1>2
<1>4. \A i \in DOMAIN events[r] : events[r][i].fence \in Nat
  BY <1>3 DEF Event
<1> QED
  BY <1>1, <1>4 DEF Fences

-----------------------------------------------------------------------------
(* Types *)

LEMMA InitType == Init => TypeOK
BY DEF Init, TypeOK, AbsentRun, RunRecord, LeaseStates, MessageStatuses

LEMMA StartedByType ==
  ASSUME TypeOK, NEW r \in RunIds, NEW w \in Workers
  PROVE  StartedBy(r, w) \in RunRecord
<1>1. run[r] \in RunRecord
  BY DEF TypeOK
<1>2. run[r].fence + 1 \in Nat
  BY <1>1 DEF RunRecord
<1>3. "running" \in RunStatuses /\ "valid" \in LeaseStates
  BY DEF RunStatuses, ActiveStatuses, LeaseStates
<1> QED
  BY <1>1, <1>2, <1>3 DEF StartedBy, RunRecord

LEMMA ReserveType ==
  ASSUME TypeOK, NEW r \in RunIds, NEW t \in Threads, NEW k \in Keys,
         NEW s \in MultitaskStrategies, NEW e, Reserve(r, t, k, s, e)
  PROVE  TypeOK'
<1>1. version[t] + 2 \in Nat /\ version' \in [Threads -> Nat]
  BY DEF TypeOK, Reserve
<1>2. events' \in [RunIds -> Seq(Event)]
  <2>1. <<"run.created">> \in Seq(EventTypes)
    BY DEF EventTypes
  <2> QED
    BY <1>1, <2>1, WithEventsType DEF TypeOK, Reserve
<1>3. StartableRun(t, k) \in RunRecord
  BY <1>1 DEF StartableRun, AbsentRun, RunRecord, LeaseStates, MessageStatuses,
     RunStatuses, ActiveStatuses
<1>4. \A x \in RunIds \cup {None} : QueuedRun(t, k, x) \in RunRecord
  BY <1>1 DEF QueuedRun, AbsentRun, RunRecord, LeaseStates, MessageStatuses,
     RunStatuses, QueuedStatus
<1>5. Oldest(ActiveRuns(t)) \subseteq RunIds
  BY DEF Oldest, ActiveRuns, RunsOf
<1>6. run' \in [RunIds -> RunRecord]
  <2>1. CASE run' = [run EXCEPT ![r] = StartableRun(t, k)]
    BY <1>3, <2>1 DEF TypeOK
  <2>2. ASSUME NEW x \in RunIds \cup {None}, run' = [run EXCEPT ![r] = QueuedRun(t, k, x)]
        PROVE  run' \in [RunIds -> RunRecord]
    BY <1>4, <2>2 DEF TypeOK
  <2> QED
    BY <1>5, <2>1, <2>2 DEF Reserve
<1> QED
  BY <1>1, <1>2, <1>6 DEF TypeOK, Reserve

LEMMA EndedType ==
  ASSUME TypeOK, NEW r \in RunIds, NEW target \in TerminalStatuses,
         NEW partial \in BOOLEAN
  PROVE  /\ FinalStatus(r, target) \in TerminalStatuses
         /\ Ended(r, target, partial) \in RunRecord
<1>1. FinalStatus(r, target) \in TerminalStatuses
  BY DEF FinalStatus, TerminalStatuses
<1>2. MessageStatus(FinalStatus(r, target), FinalPartial(r, target, partial))
        \in MessageStatuses
  BY <1>1 DEF MessageStatus, MessageStatuses, TerminalStatuses
<1>3. run[r] \in RunRecord
  BY DEF TypeOK
<1>4. "none" \in LeaseStates /\ FinalStatus(r, target) \in RunStatuses
  BY <1>1 DEF LeaseStates, RunStatuses
<1> QED
  BY <1>1, <1>2, <1>3, <1>4 DEF Ended, RunRecord

\* What finalize does to the rows of the thread.
LEMMA FinalizeEffect ==
  ASSUME NEW r \in RunIds, NEW target, NEW f, NEW partial, Finalize(r, target, f, partial)
  PROVE  /\ run'[r] = Ended(r, target, partial)
         /\ \A q \in RunIds \ {r} :
              run'[q] = IF q \in Promoted(r) THEN Woken(q) ELSE run[q]
<1>1. r \notin Promoted(r)
  BY DEF Promoted, Oldest
<1>2. run' = [q \in RunIds |-> CASE q = r            -> Ended(r, target, partial)
                               [] q \in Promoted(r) -> Woken(q)
                               [] OTHER            -> run[q]]
  BY DEF Finalize
<1>3. run'[r] = Ended(r, target, partial)
  BY <1>1, <1>2
<1>4. ASSUME NEW q \in RunIds \ {r}
      PROVE  run'[q] = IF q \in Promoted(r) THEN Woken(q) ELSE run[q]
  BY <1>2, <1>4
<1> QED
  BY <1>3, <1>4

LEMMA FinalizeType ==
  ASSUME TypeOK, NEW r \in RunIds, NEW target \in TerminalStatuses, NEW f,
         NEW partial \in BOOLEAN, Finalize(r, target, f, partial)
  PROVE  TypeOK'
<1>1. run[r].fence \in Nat
  BY DEF TypeOK, RunRecord
<1>2. <<"message.completed", TerminalEvent(FinalStatus(r, target))>> \in Seq(EventTypes)
  BY EndedType DEF EventTypes, TerminalEvent
<1>3. events' \in [RunIds -> Seq(Event)]
  BY <1>1, <1>2, WithEventsType DEF TypeOK, Finalize
<1>4. ASSUME NEW q \in RunIds PROVE Woken(q) \in RunRecord
  <2>1. run[q] \in RunRecord
    BY DEF TypeOK
  <2>2. "pending" \in RunStatuses /\ "streaming" \in MessageStatuses
    BY DEF RunStatuses, ActiveStatuses, MessageStatuses
  <2> QED
    BY <2>1, <2>2 DEF Woken, RunRecord
<1>5. run' \in [RunIds -> RunRecord]
  BY <1>4, EndedType DEF TypeOK, Finalize
<1> QED
  BY <1>3, <1>5 DEF TypeOK, Finalize

LEMMA CheckpointsType ==
  ASSUME TypeOK, NEW r \in RunIds, NEW i \in DOMAIN checkpoints[r]
  PROVE  /\ checkpoints[r] \in Seq(Checkpoint)
         /\ checkpoints[r][i] \in Checkpoint
         /\ \A c \in Checkpoint :
              [checkpoints EXCEPT ![r][i] = c] \in [RunIds -> Seq(Checkpoint)]
<1>1. checkpoints[r] \in Seq(Checkpoint)
  BY DEF TypeOK
<1>2. checkpoints[r][i] \in Checkpoint
  BY <1>1
<1>3. ASSUME NEW c \in Checkpoint
      PROVE  [checkpoints[r] EXCEPT ![i] = c] \in Seq(Checkpoint)
  BY <1>1
<1> QED
  BY <1>1, <1>2, <1>3 DEF TypeOK

LEMMA ConsumeResumeType ==
  ASSUME TypeOK, NEW r \in RunIds, NEW i \in DOMAIN checkpoints[r],
         NEW k \in ResumeKeys, NEW a \in Answers, NEW w \in Workers \cup {None},
         ConsumeResume(r, i, k, a, w)
  PROVE  TypeOK'
<1>1. run[r] \in RunRecord
  BY DEF TypeOK
<1> DEFINE resumed == IF w = None
                      THEN [run[r] EXCEPT !.status = "pending", !.owner = None, !.lease = "none"]
                      ELSE StartedBy(r, w)
<1>2. [run[r] EXCEPT !.status = "pending", !.owner = None, !.lease = "none"] \in RunRecord
  BY <1>1 DEF RunRecord, LeaseStates, RunStatuses, ActiveStatuses
<1>3. resumed \in RunRecord
  BY <1>2, StartedByType
<1>4. resumed.fence \in Nat
  BY <1>3 DEF RunRecord
<1>5. [resumed EXCEPT !.message = "streaming"] \in RunRecord
  BY <1>3 DEF RunRecord, MessageStatuses
<1>6. (IF w = None THEN <<"hitl.resumed">> ELSE <<"hitl.resumed", "run.started">>)
        \in Seq(EventTypes)
  <2>1. <<"hitl.resumed">> \in Seq(EventTypes)
    BY DEF EventTypes
  <2>2. <<"hitl.resumed", "run.started">> \in Seq(EventTypes)
    BY DEF EventTypes
  <2> QED
    BY <2>1, <2>2
<1>7. events' = [events EXCEPT ![r] = WithEvents(r, IF w = None THEN <<"hitl.resumed">>
                           ELSE <<"hitl.resumed", "run.started">>, resumed.fence)]
  BY DEF ConsumeResume
<1>8. run' = [run EXCEPT ![r] = [resumed EXCEPT !.message = "streaming"]]
  BY DEF ConsumeResume
<1>9. checkpoints' \in [RunIds -> Seq(Checkpoint)]
  <2>1. [checkpoints[r][i] EXCEPT !.consumed = TRUE, !.key = k, !.answer = a] \in Checkpoint
    <3>1. checkpoints[r][i] \in Checkpoint
      BY CheckpointsType
    <3> QED
      BY <3>1 DEF Checkpoint
  <2> QED
    BY <2>1, CheckpointsType DEF ConsumeResume
<1> HIDE DEF resumed
<1>10. events' \in [RunIds -> Seq(Event)]
  BY <1>4, <1>6, <1>7, WithEventsType DEF TypeOK
<1>11. run' \in [RunIds -> RunRecord]
  BY <1>5, <1>8 DEF TypeOK
<1> QED
  BY <1>9, <1>10, <1>11 DEF TypeOK, ConsumeResume

LEMMA WorkerType ==
  ASSUME TypeOK, NEW r \in RunIds, NEW w \in Workers, WorkerNext(r, w)
  PROVE  TypeOK'
<1>1. run[r] \in RunRecord /\ run[r].fence \in Nat /\ Fences(r) \subseteq Nat
  BY FencesType DEF TypeOK, RunRecord
<1>2. ASSUME Claim(r, w) \/ \E i \in DOMAIN checkpoints[r], k \in ResumeKeys, a \in Answers :
                                TakeResume(r, i, k, a, w)
      PROVE  TypeOK'
  <2>1. <<"run.started">> \in Seq(EventTypes) /\ run[r].fence + 1 \in Nat
    BY <1>1 DEF EventTypes
  <2>2. /\ run' = [run EXCEPT ![r] = StartedBy(r, w)]
        /\ events' = [events EXCEPT ![r] = WithEvents(r, <<"run.started">>, run[r].fence + 1)]
        /\ UNCHANGED <<checkpoints, version>>
    BY <1>2 DEF Claim, TakeResume
  <2>3. WithEvents(r, <<"run.started">>, run[r].fence + 1) \in Seq(Event)
    BY <2>1, WithEventsType
  <2>4. StartedBy(r, w) \in RunRecord
    BY StartedByType
  <2> QED
    BY <2>2, <2>3, <2>4 DEF TypeOK
<1> SUFFICES ASSUME NEW f \in Fences(r),
                    \/ Heartbeat(r, w, f)
                    \/ Publish(r, w, f)
                    \/ \E s \in Skills : PinSkill(r, w, f, s)
                    \/ \E round \in 0..Len(checkpoints[r]) : RecordPause(r, w, f, round)
                    \/ \E i \in DOMAIN checkpoints[r] : RecordResumeResult(r, i, w, f)
             PROVE  TypeOK'
  BY <1>2 DEF WorkerNext
<1>3. f \in Nat
  BY <1>1
<1>4. CASE Heartbeat(r, w, f)
  BY <1>1, <1>4 DEF TypeOK, Heartbeat, RunRecord, LeaseStates
<1>5. CASE Publish(r, w, f)
  <2>1. <<"progress">> \in Seq(EventTypes)
    BY DEF EventTypes
  <2> QED
    BY <1>3, <1>5, <2>1, WithEventsType DEF TypeOK, Publish
<1>6. ASSUME NEW s \in Skills, PinSkill(r, w, f, s)
      PROVE  TypeOK'
  BY <1>1, <1>6 DEF TypeOK, PinSkill, RunRecord
<1>7. ASSUME NEW round, RecordPause(r, w, f, round)
      PROVE  TypeOK'
  <2>1. <<"run.waiting_input", "hitl.required">> \in Seq(EventTypes)
    BY DEF EventTypes
  <2>2. events' \in [RunIds -> Seq(Event)]
    BY <1>3, <1>7, <2>1, WithEventsType DEF TypeOK, RecordPause
  <2>3. Paused(r) \in RunRecord
    BY <1>1 DEF Paused, RunRecord, LeaseStates, MessageStatuses, RunStatuses, ActiveStatuses
  <2>4. [consumed |-> FALSE, key |-> None, answer |-> None, done |-> FALSE] \in Checkpoint
    BY DEF Checkpoint
  <2> QED
    BY <1>7, <2>2, <2>3, <2>4 DEF TypeOK, RecordPause
<1>8. ASSUME NEW i \in DOMAIN checkpoints[r], RecordResumeResult(r, i, w, f)
      PROVE  TypeOK'
  <2>1. [checkpoints[r][i] EXCEPT !.done = TRUE] \in Checkpoint
    <3>1. checkpoints[r][i] \in Checkpoint
      BY CheckpointsType
    <3> QED
      BY <3>1 DEF Checkpoint
  <2>2. checkpoints' = [checkpoints EXCEPT ![r][i] = [checkpoints[r][i] EXCEPT !.done = TRUE]]
    BY <1>8 DEF RecordResumeResult
  <2> QED
    BY <1>8, <2>1, <2>2, CheckpointsType DEF TypeOK, RecordResumeResult
<1> QED
  BY <1>4, <1>5, <1>6, <1>7, <1>8

LEMMA NextType == TypeOK /\ [Next]_storeVars => TypeOK'
<1> SUFFICES ASSUME TypeOK, [Next]_storeVars PROVE TypeOK'
  OBVIOUS
<1>1. CASE UNCHANGED storeVars
  BY <1>1 DEF storeVars, TypeOK
<1> SUFFICES ASSUME NEW r \in RunIds,
                    \/ RequestNext(r)
                    \/ \E w \in Workers : WorkerNext(r, w)
                    \/ FinishNext(r)
                    \/ LeaseExpires(r)
             PROVE  TypeOK'
  BY <1>1 DEF Next
<1>2. run[r] \in RunRecord /\ run[r].fence \in Nat /\ Fences(r) \subseteq Nat
  BY FencesType DEF TypeOK, RunRecord
<1>3. CASE RequestNext(r)
  <2>1. ASSUME NEW t \in Threads, NEW k \in Keys, NEW s \in MultitaskStrategies, NEW e,
               Reserve(r, t, k, s, e)
        PROVE  TypeOK'
    BY <2>1, ReserveType
  <2>2. CASE MarkCancelling(r)
    <3>1. <<"warning.created">> \in Seq(EventTypes)
      BY DEF EventTypes
    <3>2. events' \in [RunIds -> Seq(Event)]
      BY <1>2, <2>2, <3>1, WithEventsType DEF TypeOK, MarkCancelling
    <3>3. run' \in [RunIds -> RunRecord]
      BY <1>2, <2>2 DEF TypeOK, MarkCancelling, RunRecord, RunStatuses, ActiveStatuses
    <3> QED
      BY <2>2, <3>2, <3>3 DEF TypeOK, MarkCancelling
  <2>3. ASSUME NEW i \in DOMAIN checkpoints[r], NEW k \in ResumeKeys, NEW a \in Answers,
               NEW w \in Workers \cup {None}, ConsumeResume(r, i, k, a, w)
        PROVE  TypeOK'
    BY <2>3, ConsumeResumeType
  <2> QED
    BY <1>3, <2>1, <2>2, <2>3 DEF RequestNext
<1>4. ASSUME NEW w \in Workers, WorkerNext(r, w)
      PROVE  TypeOK'
  BY <1>4, WorkerType
<1>5. CASE FinishNext(r)
  BY <1>5, FinalizeType DEF FinishNext, FinalizeOrphan, TerminalStatuses
<1>6. CASE LeaseExpires(r)
  BY <1>2, <1>6 DEF LeaseExpires, TypeOK, RunRecord, LeaseStates
<1> QED
  BY <1>3, <1>4, <1>5, <1>6

\* Whatever the callers do, every row keeps the shape the schema gives it.
THEOREM TypeCorrect == Spec => []TypeOK
<1>1. Init => TypeOK
  BY InitType
<1>2. TypeOK /\ [Next]_storeVars => TypeOK'
  BY NextType
<1> QED
  BY <1>1, <1>2, PTL DEF Spec

-----------------------------------------------------------------------------
(* The queue of a thread *)

\* ORDER BY created_at finds a row whenever there is one.
LEMMA OldestExists ==
  ASSUME NEW S \in SUBSET RunIds, S # {}
  PROVE  Oldest(S) # {}
<1> DEFINE R == OpToRel(<, Nat)
<1>1. IsWellFoundedOn(R, Nat)
  BY NatLessThanWellFounded
<1>2. S \subseteq Nat
  BY RunIdsAssumption
<1>3. \A x, y \in Nat : x < y => <<x, y>> \in R
  BY DEF OpToRel
<1> HIDE DEF R
<1>4. PICK x \in S : \A y \in S : ~ (<<y, x>> \in R)
  BY <1>1, <1>2, WFMin
<1>5. ASSUME NEW y \in S
      PROVE  x <= y
  <2>1. x \in Nat /\ y \in Nat
    BY <1>2
  <2>2. ~ (y < x)
    BY <1>3, <1>4, <2>1
  <2> QED
    BY <2>1, <2>2
<1> QED
  BY <1>5 DEF Oldest

\* ... and at most one.
LEMMA OldestUnique ==
  ASSUME NEW S \in SUBSET RunIds, NEW x \in Oldest(S), NEW y \in Oldest(S)
  PROVE  x = y
<1>1. x \in Nat /\ y \in Nat /\ x <= y /\ y <= x
  BY RunIdsAssumption DEF Oldest
<1> QED
  BY <1>1

\* A step that moves no run between threads, and none in or out of the queue
\* or of the active statuses.
SameStanding ==
  \A q \in RunIds :
    /\ run'[q].thread = run[q].thread
    /\ run'[q].status \in ActiveStatuses <=> run[q].status \in ActiveStatuses
    /\ run'[q].status = "queued" <=> run[q].status = "queued"

QueueInv == OneActivePerThread /\ NoStrandedQueue

LEMMA SameStandingKeepsQueue ==
  ASSUME QueueInv, SameStanding
  PROVE  QueueInv'
BY DEF SameStanding, QueueInv, OneActivePerThread, NoStrandedQueue

\* Only reserve and finalize change who is queued or active.
LEMMA OthersKeepStanding ==
  ASSUME TypeOK, NEW r \in RunIds,
         \/ MarkCancelling(r)
         \/ LeaseExpires(r)
         \/ \E w \in Workers : WorkerNext(r, w)
         \/ \E i \in DOMAIN checkpoints[r], k \in ResumeKeys, a \in Answers,
               w \in Workers \cup {None} : ConsumeResume(r, i, k, a, w)
  PROVE  SameStanding
<1>1. run \in [RunIds -> RunRecord] /\ run[r] \in RunRecord
  BY DEF TypeOK
<1>2. CASE MarkCancelling(r)
  <2>1. run[r].status \in ActiveStatuses
    BY <1>2 DEF MarkCancelling, CanMarkCancelling, CanTransition, AllowedTransitions,
       TerminalStatuses, ActiveStatuses
  <2> QED
    BY <1>1, <1>2, <2>1 DEF MarkCancelling, SameStanding, ActiveStatuses, RunRecord
<1>3. CASE LeaseExpires(r)
  BY <1>1, <1>3 DEF LeaseExpires, SameStanding, RunRecord
<1>4. ASSUME NEW w \in Workers, run[r].status \in ActiveStatuses,
             run' = [run EXCEPT ![r] = StartedBy(r, w)]
      PROVE  SameStanding
  BY <1>1, <1>4 DEF StartedBy, SameStanding, ActiveStatuses, RunRecord
<1>5. ASSUME NEW w \in Workers, WorkerNext(r, w)
      PROVE  SameStanding
  <2>1. CASE Claim(r, w)
    BY <1>4, <2>1 DEF Claim, CanClaim, ActiveStatuses
  <2>2. ASSUME NEW i, NEW k, NEW a, TakeResume(r, i, k, a, w)
        PROVE  SameStanding
    BY <1>4, <2>2 DEF TakeResume, CanTakeResume, ActiveStatuses
  <2>3. ASSUME NEW f, Heartbeat(r, w, f) PROVE SameStanding
    BY <1>1, <2>3 DEF Heartbeat, SameStanding, RunRecord
  <2>4. ASSUME NEW f, Publish(r, w, f) PROVE SameStanding
    BY <1>1, <2>4 DEF Publish, SameStanding
  <2>5. ASSUME NEW f, NEW s, PinSkill(r, w, f, s) PROVE SameStanding
    BY <1>1, <2>5 DEF PinSkill, SameStanding, RunRecord
  <2>6. ASSUME NEW f, NEW round, RecordPause(r, w, f, round) PROVE SameStanding
    BY <1>1, <2>6 DEF RecordPause, CanPause, OwnsRunning, Paused, SameStanding,
       ActiveStatuses, RunRecord
  <2>7. ASSUME NEW f, NEW i, RecordResumeResult(r, i, w, f) PROVE SameStanding
    BY <1>1, <2>7 DEF RecordResumeResult, SameStanding
  <2> QED
    BY <1>5, <2>1, <2>2, <2>3, <2>4, <2>5, <2>6, <2>7 DEF WorkerNext
<1>6. ASSUME NEW i, NEW k, NEW a, NEW w \in Workers \cup {None},
             ConsumeResume(r, i, k, a, w)
      PROVE  SameStanding
  <2>1. run[r].status = "waiting_input"
    BY <1>6 DEF ConsumeResume, CanAccept
  <2>2. CASE w = None
    BY <1>1, <1>6, <2>1, <2>2 DEF ConsumeResume, SameStanding, ActiveStatuses, RunRecord
  <2>3. CASE w # None
    BY <1>1, <1>6, <2>1, <2>3 DEF ConsumeResume, StartedBy, SameStanding, ActiveStatuses,
       RunRecord
  <2> QED
    BY <2>2, <2>3
<1> QED
  BY <1>2, <1>3, <1>5, <1>6

LEMMA ReserveKeepsQueue ==
  ASSUME TypeOK, QueueInv, NEW r \in RunIds, NEW t \in Threads, NEW k, NEW s, NEW e,
         Reserve(r, t, k, s, e)
  PROVE  QueueInv'
<1>1. run[r].status = "absent" /\ run \in [RunIds -> RunRecord]
  BY DEF Reserve, CanReserve, Exists, TypeOK
<1>2. \A q \in RunIds \ {r} : run'[q] = run[q]
  BY <1>1 DEF Reserve
<1>3. CASE ActiveRuns(t) = {} /\ run' = [run EXCEPT ![r] = StartableRun(t, k)]
  <2>1. run'[r].thread = t /\ run'[r].status = "pending"
    BY <1>1, <1>3 DEF StartableRun, AbsentRun
  <2>2. \A q \in RunIds : run[q].thread = t => run[q].status \notin ActiveStatuses
    BY <1>3 DEF ActiveRuns, RunsOf
  <2>3. \A q \in RunIds : run[q].thread = t => run[q].status # "queued"
    BY <2>2 DEF QueueInv, NoStrandedQueue
  <2>4. OneActivePerThread'
    BY <1>2, <2>1, <2>2 DEF QueueInv, OneActivePerThread
  <2>5. NoStrandedQueue'
    BY <1>1, <1>2, <2>1, <2>3 DEF QueueInv, NoStrandedQueue, ActiveStatuses
  <2> QED
    BY <2>4, <2>5 DEF QueueInv
<1>4. ASSUME NEW x, NEW active \in ActiveRuns(t), run' = [run EXCEPT ![r] = QueuedRun(t, k, x)]
      PROVE  QueueInv'
  <2>1. run'[r].thread = t /\ run'[r].status = "queued"
    BY <1>1, <1>4 DEF QueuedRun, AbsentRun
  <2>2. /\ active \in RunIds \ {r}
        /\ run'[active].thread = t
        /\ run'[active].status \in ActiveStatuses
    BY <1>1, <1>2, <1>4 DEF ActiveRuns, RunsOf, ActiveStatuses
  <2>3. OneActivePerThread'
    BY <1>2, <2>1 DEF QueueInv, OneActivePerThread, ActiveStatuses
  <2>4. NoStrandedQueue'
    BY <1>1, <1>2, <2>1, <2>2 DEF QueueInv, NoStrandedQueue, ActiveStatuses
  <2> QED
    BY <2>3, <2>4 DEF QueueInv
<1>5. Oldest(ActiveRuns(t)) \subseteq ActiveRuns(t)
  BY DEF Oldest
<1> QED
  BY <1>3, <1>4, <1>5 DEF Reserve

LEMMA FinalizeKeepsQueue ==
  ASSUME TypeOK, QueueInv, NEW r \in RunIds, NEW target \in TerminalStatuses, NEW f,
         NEW partial \in BOOLEAN, Finalize(r, target, f, partial)
  PROVE  QueueInv'
<1> DEFINE t == run[r].thread
           rest == QueuedRuns(t) \ {r}
<1>1. /\ run[r] \in RunRecord
      /\ run'[r] = Ended(r, target, partial)
      /\ \A q \in RunIds \ {r} : run'[q] = IF q \in Promoted(r) THEN Woken(q) ELSE run[q]
  BY FinalizeEffect DEF TypeOK
<1>2. run'[r].thread = t /\ run'[r].status \in TerminalStatuses
  <2>1. FinalStatus(r, target) \in TerminalStatuses
    BY EndedType
  <2> QED
    BY <1>1, <2>1 DEF Ended, RunRecord
<1>3. Promoted(r) = Oldest(rest) /\ rest \in SUBSET RunIds /\ Promoted(r) \subseteq rest
  BY DEF Promoted, Oldest, QueuedRuns, RunsOf
<1>4. \A q \in Promoted(r) : /\ q \in RunIds \ {r}
                             /\ run'[q].thread = t
                             /\ run'[q].status = "pending"
  BY <1>1, <1>3 DEF Woken, QueuedRuns, RunsOf, TypeOK, RunRecord
<1>5. \A q \in RunIds \ {r} : q \notin Promoted(r) => run'[q] = run[q]
  BY <1>1
<1> HIDE DEF t, rest
<1>6. Promoted(r) = {} => \A q \in RunIds \ {r} : run[q].thread = t => run[q].status # "queued"
  BY <1>3, OldestExists DEF QueuedRuns, RunsOf, rest
<1>7. Promoted(r) # {} =>
        \A q \in RunIds \ {r} : run[q].thread = t => run[q].status \notin ActiveStatuses
  BY DEF Finalize, CanFinalize, PromotionFits, ActiveRuns, RunsOf, t
<1>8. \A q \in Promoted(r) : run[q].thread = t /\ run[q].status = "queued"
  BY <1>3 DEF QueuedRuns, RunsOf, rest
<1>9. \A x, y \in Promoted(r) : x = y
  BY <1>3, OldestUnique
<1>10. OneActivePerThread'
  <2> SUFFICES ASSUME NEW x \in RunIds, NEW y \in RunIds, run'[x].thread = run'[y].thread,
                      run'[x].status \in ActiveStatuses, run'[y].status \in ActiveStatuses
               PROVE  x = y
    BY DEF OneActivePerThread
  <2>1. x # r /\ y # r
    BY <1>2 DEF ActiveStatuses, TerminalStatuses
  <2>2. run[x].thread = run[y].thread
    BY <1>4, <1>5, <1>8, <2>1
  <2>3. CASE x \in Promoted(r)
    BY <1>5, <1>7, <1>8, <1>9, <2>1, <2>2, <2>3
  <2>4. CASE y \in Promoted(r)
    BY <1>5, <1>7, <1>8, <1>9, <2>1, <2>2, <2>4
  <2>5. CASE x \notin Promoted(r) /\ y \notin Promoted(r)
    BY <1>5, <2>1, <2>2, <2>5 DEF QueueInv, OneActivePerThread
  <2> QED
    BY <2>3, <2>4, <2>5
<1>11. NoStrandedQueue'
  <2> SUFFICES ASSUME NEW x \in RunIds, run'[x].status = "queued"
               PROVE  \E y \in RunIds : /\ run'[y].thread = run'[x].thread
                                       /\ run'[y].status \in ActiveStatuses
    BY DEF NoStrandedQueue
  <2>1. x # r /\ x \notin Promoted(r)
    BY <1>2, <1>4 DEF TerminalStatuses
  <2>2. run'[x] = run[x]
    BY <1>5, <2>1
  <2>3. CASE run[x].thread = t
    <3>1. PICK y \in Promoted(r) : TRUE
      BY <1>6, <2>1, <2>2, <2>3
    <3> QED
      BY <1>4, <2>2, <2>3, <3>1 DEF ActiveStatuses
  <2>4. CASE run[x].thread # t
    <3>1. PICK y \in RunIds : run[y].thread = run[x].thread /\ run[y].status \in ActiveStatuses
      BY <2>2 DEF QueueInv, NoStrandedQueue
    <3>2. y # r /\ y \notin Promoted(r)
      BY <1>8, <2>4, <3>1 DEF t
    <3> QED
      BY <1>5, <2>2, <3>1, <3>2
  <2> QED
    BY <2>3, <2>4
<1> QED
  BY <1>10, <1>11 DEF QueueInv

LEMMA NextKeepsQueue ==
  ASSUME TypeOK, QueueInv, [Next]_storeVars
  PROVE  QueueInv'
<1>1. CASE UNCHANGED storeVars
  BY <1>1, SameStandingKeepsQueue DEF storeVars, SameStanding
<1>2. ASSUME NEW r \in RunIds, NEW t \in Threads, NEW k \in Keys,
             NEW s \in MultitaskStrategies, NEW e, Reserve(r, t, k, s, e)
      PROVE  QueueInv'
  BY <1>2, ReserveKeepsQueue
<1>3. ASSUME NEW r \in RunIds, FinishNext(r)
      PROVE  QueueInv'
  BY <1>3, FinalizeKeepsQueue DEF FinishNext, FinalizeOrphan, TerminalStatuses
<1>4. ASSUME NEW r \in RunIds,
         \/ MarkCancelling(r)
         \/ LeaseExpires(r)
         \/ \E w \in Workers : WorkerNext(r, w)
         \/ \E i \in DOMAIN checkpoints[r], k \in ResumeKeys, a \in Answers,
               w \in Workers \cup {None} : ConsumeResume(r, i, k, a, w)
      PROVE  QueueInv'
  BY <1>4, OthersKeepStanding, SameStandingKeepsQueue
<1> QED
  BY <1>1, <1>2, <1>3, <1>4 DEF Next, RequestNext

\* Runs of a thread execute one at a time, for any number of runs and threads.
THEOREM OneActiveHolds == Spec => []OneActivePerThread
<1>1. Init => QueueInv
  BY DEF Init, QueueInv, OneActivePerThread, NoStrandedQueue, AbsentRun, ActiveStatuses
<1>2. TypeOK /\ QueueInv /\ [Next]_storeVars => QueueInv'
  BY NextKeepsQueue
<1>3. QueueInv => OneActivePerThread
  BY DEF QueueInv
<1> QED
  BY <1>1, <1>2, <1>3, TypeCorrect, PTL DEF Spec

\* No interleaving of reservations, cancellations and finishes strands a queue.
THEOREM NoStrandedQueueHolds == Spec => []NoStrandedQueue
<1>1. Init => QueueInv
  BY DEF Init, QueueInv, OneActivePerThread, NoStrandedQueue, AbsentRun, ActiveStatuses
<1>2. TypeOK /\ QueueInv /\ [Next]_storeVars => QueueInv'
  BY NextKeepsQueue
<1>3. QueueInv => NoStrandedQueue
  BY DEF QueueInv
<1> QED
  BY <1>1, <1>2, <1>3, TypeCorrect, PTL DEF Spec

\* The runs of a thread take turns: never two of them active, and never a queued one
\* without an active one whose finalize promotes it.
THEOREM QueueIsSoundHolds == Spec => []QueueIsSound
BY OneActiveHolds, NoStrandedQueueHolds, PTL DEF QueueIsSound

-----------------------------------------------------------------------------
(* What one transaction may do to one row of the runs table, once and for  *)
(* all (RowStep), and the invariants and action properties that follow     *)
(* from it row by row.                                                     *)

\* Fields no transaction but reserve writes.
SameIdentity(x, y) ==
  y.thread = x.thread /\ y.key = x.key /\ y.supersedes = x.supersedes

Created(x, y) ==
  /\ x.status = "absent"
  /\ \/ y.status = "pending" /\ y.message = "streaming"
     \/ y.status = "queued" /\ y.message = "queued"
  /\ y.owner = None /\ y.lease = "none" /\ y.skill = None

Started(x, y) ==
  /\ \/ x.status \in {"pending", "running"} /\ y.message = x.message
     \/ x.status = "waiting_input" /\ y.message = "streaming"
  /\ y.status = "running" /\ y.owner \in Workers /\ y.lease = "valid"
  /\ y.fence = x.fence + 1 /\ y.skill = x.skill

Requeued(x, y) ==
  /\ x.status = "waiting_input"
  /\ y.status = "pending" /\ y.owner = None /\ y.lease = "none" /\ y.message = "streaming"
  /\ y.fence = x.fence /\ y.skill = x.skill

LeaseMoved(x, y) ==
  /\ x.status \in {"running", "cancelling"} \/ x.lease = "valid"
  /\ y.lease \in {"valid", "expired"}
  /\ y.status = x.status /\ y.owner = x.owner /\ y.message = x.message
  /\ y.fence = x.fence /\ y.skill = x.skill

Pinned(x, y) ==
  /\ x.skill = None
  /\ y.status = x.status /\ y.owner = x.owner /\ y.message = x.message
  /\ y.fence = x.fence /\ y.lease = x.lease /\ x.status = "running"

PausedRow(x, y) ==
  /\ x.status = "running"
  /\ y.status = "waiting_input" /\ y.owner = None /\ y.lease = "none"
  /\ y.message = "waiting_input" /\ y.fence = x.fence /\ y.skill = x.skill

CancelRequested(x, y) ==
  /\ x.status \in {"pending", "running", "waiting_input"}
  /\ y.status = "cancelling" /\ y.owner = x.owner /\ y.message = x.message
  /\ y.fence = x.fence /\ y.lease = x.lease /\ y.skill = x.skill

EndedRow(x, y) ==
  /\ x.status \in {"queued"} \cup ActiveStatuses
  /\ y.status \in TerminalStatuses
  /\ x.status = "cancelling" => y.status = "cancelled"
  /\ y.status = "succeeded" <=> y.message = "completed"
  /\ y.status = "cancelled" => y.message \in {"cancelled", "incomplete"}
  /\ y.status = "failed" => y.message \in {"failed", "incomplete"}
  /\ y.owner = x.owner /\ y.lease = "none" /\ y.fence = x.fence /\ y.skill = x.skill

WokenRow(x, y) ==
  /\ x.status = "queued"
  /\ y.status = "pending" /\ y.message = "streaming"
  /\ y.owner = x.owner /\ y.lease = x.lease /\ y.fence = x.fence /\ y.skill = x.skill

\* Every way a transaction can change a row.
RowStep(x, y) ==
  \/ y = x
  \/ Created(x, y)
  \/ /\ SameIdentity(x, y)
     /\ \/ Started(x, y)         \/ Requeued(x, y)   \/ LeaseMoved(x, y)
        \/ Pinned(x, y)          \/ PausedRow(x, y)  \/ CancelRequested(x, y)
        \/ EndedRow(x, y)        \/ WokenRow(x, y)

LEMMA StartedByRow ==
  ASSUME TypeOK, NEW r \in RunIds, NEW w \in Workers, run[r].status \in {"pending", "running"}
  PROVE  RowStep(run[r], StartedBy(r, w))
<1>1. run[r] \in RunRecord
  BY DEF TypeOK
<1> QED
  BY <1>1 DEF RowStep, SameIdentity, Started, StartedBy, RunRecord

LEMMA EndedIsRowStep ==
  ASSUME TypeOK, NEW r \in RunIds, NEW f,
         NEW target \in TerminalStatuses, NEW partial \in BOOLEAN,
         target = "succeeded" => ~partial, CanFinalize(r, target, f)
  PROVE  RowStep(run[r], Ended(r, target, partial))
<1> DEFINE x == run[r]
           y == Ended(r, target, partial)
           final == FinalStatus(r, target)
<1>1. x \in RunRecord
  BY DEF TypeOK
<1>2. /\ x.status \in {"queued"} \cup ActiveStatuses
  BY <1>1 DEF CanFinalize, Exists, RunRecord, RunStatuses, QueuedStatus
<1>3. final \in TerminalStatuses /\ (x.status = "cancelling" => final = "cancelled")
  BY DEF FinalStatus, TerminalStatuses
<1>4. final = "succeeded" => ~FinalPartial(r, target, partial)
  BY DEF FinalStatus, FinalPartial
<1>5. /\ final = "succeeded" <=> MessageStatus(final, FinalPartial(r, target, partial)) = "completed"
      /\ final = "cancelled" => MessageStatus(final, FinalPartial(r, target, partial)) \in {"cancelled", "incomplete"}
      /\ final = "failed" => MessageStatus(final, FinalPartial(r, target, partial)) \in {"failed", "incomplete"}
  BY <1>3, <1>4 DEF MessageStatus, TerminalStatuses
<1>6. /\ y.status = final /\ y.lease = "none" /\ y.owner = x.owner /\ y.fence = x.fence
      /\ y.skill = x.skill /\ SameIdentity(x, y)
      /\ y.message = MessageStatus(final, FinalPartial(r, target, partial))
  BY <1>1 DEF Ended, RunRecord, SameIdentity
<1> HIDE DEF x, y, final
<1>7. EndedRow(x, y)
  BY <1>2, <1>3, <1>5, <1>6 DEF EndedRow
<1> QED
  BY <1>6, <1>7 DEF RowStep, x, y

LEMMA OneRow ==
  ASSUME TypeOK, NEW r \in RunIds, NEW y, run' = [run EXCEPT ![r] = y], RowStep(run[r], y)
  PROVE  \A q \in RunIds : RowStep(run[q], run'[q])
BY DEF TypeOK, RowStep

LEMMA FinalizeRows ==
  ASSUME TypeOK, NEW r \in RunIds, NEW target \in TerminalStatuses, NEW f,
         NEW partial \in BOOLEAN, target = "succeeded" => ~partial,
         Finalize(r, target, f, partial)
  PROVE  \A q \in RunIds : RowStep(run[q], run'[q])
<1>1. RowStep(run[r], run'[r])
  <2>1. CanFinalize(r, target, f)
    BY DEF Finalize
  <2>2. RowStep(run[r], Ended(r, target, partial))
    BY <2>1, EndedIsRowStep
  <2>3. run'[r] = Ended(r, target, partial)
    BY FinalizeEffect
  <2> QED
    BY <2>2, <2>3
<1>2. ASSUME NEW q \in RunIds \ {r}
      PROVE  RowStep(run[q], run'[q])
  <2>1. CASE q \in Promoted(r)
    <3>1. run[q].status = "queued" /\ run[q] \in RunRecord
      BY <2>1 DEF Promoted, Oldest, QueuedRuns, TypeOK
    <3>2. run'[q] = Woken(q)
      BY <2>1, FinalizeEffect
    <3> QED
      BY <3>1, <3>2 DEF Woken, RowStep, SameIdentity, WokenRow, RunRecord
  <2>2. CASE q \notin Promoted(r)
    BY <2>2, FinalizeEffect DEF RowStep
  <2> QED
    BY <2>1, <2>2
<1> QED
  BY <1>1, <1>2

\* Every transaction treats every row in one of these ways.
LEMMA NextRows ==
  ASSUME TypeOK, [Next]_storeVars
  PROVE  \A q \in RunIds : RowStep(run[q], run'[q])
<1> DEFINE Goal == \A q \in RunIds : RowStep(run[q], run'[q])
<1>1. CASE UNCHANGED storeVars
  BY <1>1 DEF storeVars, RowStep
<1> SUFFICES ASSUME NEW r \in RunIds,
                    \/ RequestNext(r)
                    \/ \E w \in Workers : WorkerNext(r, w)
                    \/ FinishNext(r)
                    \/ LeaseExpires(r)
             PROVE  Goal
  BY <1>1 DEF Next
<1>2. run[r] \in RunRecord /\ run \in [RunIds -> RunRecord]
  BY DEF TypeOK
<1>3. ASSUME NEW t, NEW k, NEW s, NEW e, Reserve(r, t, k, s, e)
      PROVE  Goal
  <2>1. run[r].status = "absent"
    BY <1>3 DEF Reserve, CanReserve, Exists
  <2>2. RowStep(run[r], StartableRun(t, k))
    BY <2>1 DEF StartableRun, AbsentRun, RowStep, Created
  <2>3. \A x : RowStep(run[r], QueuedRun(t, k, x))
    BY <2>1 DEF QueuedRun, AbsentRun, RowStep, Created
  <2> QED
    BY <1>3, <2>2, <2>3, OneRow DEF Reserve
<1>4. CASE MarkCancelling(r)
  <2>1. run[r].status \in {"pending", "running", "waiting_input"}
    BY <1>4 DEF MarkCancelling, CanMarkCancelling, CanTransition, AllowedTransitions,
       TerminalStatuses
  <2>2. RowStep(run[r], [run[r] EXCEPT !.status = "cancelling"])
    BY <1>2, <2>1 DEF RowStep, SameIdentity, CancelRequested, RunRecord
  <2> QED
    BY <1>4, <2>2, OneRow DEF MarkCancelling
<1>5. ASSUME NEW i, NEW k, NEW a, NEW w \in Workers \cup {None}, ConsumeResume(r, i, k, a, w)
      PROVE  Goal
  <2> DEFINE back == [run[r] EXCEPT !.status = "pending", !.owner = None, !.lease = "none"]
  <2>1. run[r].status = "waiting_input"
    BY <1>5 DEF ConsumeResume, CanAccept
  <2>2. CASE w = None
    <3>1. RowStep(run[r], [back EXCEPT !.message = "streaming"])
      BY <1>2, <2>1 DEF RowStep, SameIdentity, Requeued, RunRecord
    <3>2. run' = [run EXCEPT ![r] = [back EXCEPT !.message = "streaming"]]
      BY <1>5, <2>2 DEF ConsumeResume
    <3> QED
      BY <3>1, <3>2, OneRow
  <2>3. CASE w # None
    <3>1. RowStep(run[r], [StartedBy(r, w) EXCEPT !.message = "streaming"])
      BY <1>2, <2>1, <2>3 DEF RowStep, SameIdentity, Started, StartedBy, RunRecord
    <3>2. run' = [run EXCEPT ![r] = [StartedBy(r, w) EXCEPT !.message = "streaming"]]
      BY <1>5, <2>3 DEF ConsumeResume
    <3> QED
      BY <3>1, <3>2, OneRow
  <2> QED
    BY <2>2, <2>3
<1>6. ASSUME NEW w \in Workers, WorkerNext(r, w)
      PROVE  Goal
  <2>1. CASE Claim(r, w)
    <3>1. run[r].status \in {"pending", "running"}
      BY <2>1 DEF Claim, CanClaim
    <3> QED
      BY <2>1, <3>1, StartedByRow, OneRow DEF Claim
  <2>2. ASSUME NEW i, NEW k, NEW a, TakeResume(r, i, k, a, w)
        PROVE  Goal
    <3>1. run[r].status = "pending"
      BY <2>2 DEF TakeResume, CanTakeResume
    <3> QED
      BY <2>2, <3>1, StartedByRow, OneRow DEF TakeResume
  <2>3. ASSUME NEW f, Heartbeat(r, w, f) PROVE Goal
    <3>1. RowStep(run[r], [run[r] EXCEPT !.lease = "valid"])
      BY <1>2, <2>3 DEF Heartbeat, OwnsLive, RowStep, SameIdentity, LeaseMoved, RunRecord
    <3> QED
      BY <2>3, <3>1, OneRow DEF Heartbeat
  <2>4. ASSUME NEW f, NEW s, PinSkill(r, w, f, s) PROVE Goal
    <3>1. RowStep(run[r], [run[r] EXCEPT !.skill = s])
      BY <1>2, <2>4 DEF PinSkill, OwnsRunning, RowStep, SameIdentity, Pinned, RunRecord
    <3> QED
      BY <2>4, <3>1, OneRow DEF PinSkill
  <2>5. ASSUME NEW f, NEW round, RecordPause(r, w, f, round) PROVE Goal
    <3>1. RowStep(run[r], Paused(r))
      BY <1>2, <2>5 DEF RecordPause, CanPause, OwnsRunning, Paused, RowStep, SameIdentity,
         PausedRow, RunRecord
    <3> QED
      BY <2>5, <3>1, OneRow DEF RecordPause
  <2>6. ASSUME NEW f, Publish(r, w, f) \/ \E i : RecordResumeResult(r, i, w, f)
        PROVE  Goal
    BY <2>6 DEF Publish, RecordResumeResult, RowStep
  <2> QED
    BY <1>6, <2>1, <2>2, <2>3, <2>4, <2>5, <2>6 DEF WorkerNext
<1>7. CASE FinishNext(r)
  BY <1>7, FinalizeRows DEF FinishNext, FinalizeOrphan, TerminalStatuses
<1>8. CASE LeaseExpires(r)
  <2>1. RowStep(run[r], [run[r] EXCEPT !.lease = "expired"])
    BY <1>2, <1>8 DEF LeaseExpires, RowStep, SameIdentity, LeaseMoved, RunRecord
  <2> QED
    BY <1>8, <2>1, OneRow DEF LeaseExpires
<1> QED
  BY <1>3, <1>4, <1>5, <1>6, <1>7, <1>8 DEF RequestNext

-----------------------------------------------------------------------------
(* Invariants of a row *)

RowInv(x) ==
  /\ x.status = "absent" => x.owner = None /\ x.fence = 0 /\ x.skill = None
                            /\ x.message = "none" /\ x.lease = "none"
  /\ x.status = "running" => x.owner # None /\ x.lease # "none"
  /\ x.status \in {"queued", "pending", "waiting_input"} => x.owner = None /\ x.lease = "none"
  /\ x.status \in TerminalStatuses => x.lease = "none"
  /\ x.status = "queued" => x.message = "queued"
  /\ x.status \in {"pending", "running"} => x.message = "streaming"
  /\ x.status = "waiting_input" => x.message = "waiting_input"
  /\ x.status = "succeeded" <=> x.message = "completed"
  /\ x.status = "cancelled" => x.message \in {"cancelled", "incomplete"}
  /\ x.status = "failed" => x.message \in {"failed", "incomplete"}

LEMMA RowStepKeepsRowInv ==
  ASSUME NEW x, NEW y, RowInv(x), RowStep(x, y)
  PROVE  RowInv(y)
<1>1. CASE y = x
  BY <1>1
<1>2. CASE Created(x, y)
  BY <1>2 DEF Created, RowInv, TerminalStatuses
<1>3. CASE Started(x, y)
  BY <1>3, NoneAssumption DEF Started, RowInv, TerminalStatuses
<1>4. CASE Requeued(x, y)
  BY <1>4 DEF Requeued, RowInv, TerminalStatuses
<1>5. CASE LeaseMoved(x, y)
  BY <1>5 DEF LeaseMoved, RowInv, TerminalStatuses
<1>6. CASE Pinned(x, y)
  BY <1>6 DEF Pinned, RowInv, TerminalStatuses
<1>7. CASE PausedRow(x, y)
  BY <1>7 DEF PausedRow, RowInv, TerminalStatuses
<1>8. CASE CancelRequested(x, y)
  BY <1>8 DEF CancelRequested, RowInv, TerminalStatuses
<1>9. CASE EndedRow(x, y)
  BY <1>9 DEF EndedRow, RowInv, TerminalStatuses
<1>10. CASE WokenRow(x, y)
  BY <1>10 DEF WokenRow, RowInv, TerminalStatuses
<1> QED
  BY <1>1, <1>2, <1>3, <1>4, <1>5, <1>6, <1>7, <1>8, <1>9, <1>10 DEF RowStep

RowsInv == \A r \in RunIds : RowInv(run[r])

LEMMA RowsInvariant == Spec => []RowsInv
<1>1. Init => RowsInv
  BY DEF Init, RowsInv, RowInv, AbsentRun, TerminalStatuses
<1>2. TypeOK /\ RowsInv /\ [Next]_storeVars => RowsInv'
  <2> SUFFICES ASSUME TypeOK, RowsInv, [Next]_storeVars, NEW r \in RunIds
               PROVE  RowInv(run'[r])
    BY DEF RowsInv
  <2> QED
    BY NextRows, RowStepKeepsRowInv DEF RowsInv
<1> QED
  BY <1>1, <1>2, TypeCorrect, PTL DEF Spec

\* The owner and lease columns agree with the status in every reachable state.
THEOREM OwnershipHolds == Spec => []OwnershipConsistent
<1>1. RowsInv => OwnershipConsistent
  BY DEF RowsInv, RowInv, OwnershipConsistent
<1> QED
  BY <1>1, RowsInvariant, PTL

\* The assistant message's status agrees with its run's in every reachable state.
THEOREM MessageAgreesHolds == Spec => []MessageAgrees
<1>1. RowsInv => MessageAgrees
  BY DEF RowsInv, RowInv, MessageAgrees
<1> QED
  BY <1>1, RowsInvariant, PTL

-----------------------------------------------------------------------------
(* Action properties of a row *)

\* A durable cancellation wins over any completion or failure that races it.
THEOREM CancelWinsHolds == Spec => CancelWins
<1>1. TypeOK /\ [Next]_storeVars =>
        [\A r \in RunIds : run[r].status = "cancelling" =>
            run'[r].status \in {"cancelling", "cancelled"}]_storeVars
  <2> SUFFICES ASSUME TypeOK, [Next]_storeVars, NEW r \in RunIds, run[r].status = "cancelling"
               PROVE  run'[r].status \in {"cancelling", "cancelled"}
    OBVIOUS
  <2>1. RowStep(run[r], run'[r])
    BY NextRows
  <2> QED
    BY <2>1 DEF RowStep, Created, Started, Requeued, LeaseMoved, Pinned, PausedRow,
       CancelRequested, EndedRow, WokenRow
<1> QED
  BY <1>1, TypeCorrect, PTL DEF Spec, CancelWins

\* Fencing tokens never go back and every change of owner moves them forward.
THEOREM FenceGuardsOwnershipHolds == Spec => FenceGuardsOwnership
<1>1. TypeOK /\ TypeOK' /\ RowsInv /\ [Next]_storeVars =>
        [\A r \in RunIds :
           /\ run'[r].fence >= run[r].fence
           /\ (run'[r].owner # run[r].owner /\ run'[r].owner # None)
                => run'[r].fence > run[r].fence]_storeVars
  <2> SUFFICES ASSUME TypeOK, TypeOK', RowsInv, [Next]_storeVars, NEW r \in RunIds
               PROVE  /\ run'[r].fence >= run[r].fence
                      /\ (run'[r].owner # run[r].owner /\ run'[r].owner # None)
                           => run'[r].fence > run[r].fence
    OBVIOUS
  <2>1. RowStep(run[r], run'[r])
    BY NextRows
  <2>2. run[r].fence \in Nat /\ run'[r].fence \in Nat
    BY DEF TypeOK, RunRecord
  <2>3. run[r].status = "absent" => run[r].fence = 0
    BY DEF RowsInv, RowInv
  <2> DEFINE x == run[r]  y == run'[r]
  <2>4. RowStep(x, y) /\ x.fence \in Nat /\ y.fence \in Nat /\ (x.status = "absent" => x.fence = 0)
    BY <2>1, <2>2, <2>3
  <2> HIDE DEF x, y
  <2>5. y.fence >= x.fence /\ ((y.owner # x.owner /\ y.owner # None) => y.fence > x.fence)
    BY <2>4 DEF RowStep, Created, Started, Requeued, LeaseMoved, Pinned, PausedRow,
       CancelRequested, EndedRow, WokenRow
  <2> QED
    BY <2>5 DEF x, y
<1> QED
  BY <1>1, TypeCorrect, RowsInvariant, PTL DEF Spec, FenceGuardsOwnership

-----------------------------------------------------------------------------
(* The journal *)

Quiet(q) ==
  /\ events'[q] = events[q]
  /\ run[q].status \in TerminalStatuses => run'[q] = run[q]
  /\ run'[q].status \in TerminalStatuses => run[q].status \in TerminalStatuses

Progressed(q) ==
  /\ run[q].status \notin TerminalStatuses /\ run'[q].status \notin TerminalStatuses
  /\ \E types \in Seq(EventTypes), f \in Nat :
       /\ \A i \in 1..Len(types) : types[i] \notin TerminalEvents
       /\ events'[q] = WithEvents(q, types, f)

Closed(q) ==
  /\ run[q].status \notin TerminalStatuses /\ run'[q].status \in TerminalStatuses
  /\ \E f \in Nat :
       events'[q] = WithEvents(q, <<"message.completed", TerminalEvent(run'[q].status)>>, f)

JournalStep == \A q \in RunIds : Quiet(q) \/ Progressed(q) \/ Closed(q)

\* A transaction on one run that appends rows of non-terminal types.
LEMMA ProgressIsJournalStep ==
  ASSUME TypeOK, NEW r \in RunIds, NEW types \in Seq(EventTypes), NEW f \in Nat, NEW y,
         events' = [events EXCEPT ![r] = WithEvents(r, types, f)],
         \A i \in 1..Len(types) : types[i] \notin TerminalEvents,
         run' = [run EXCEPT ![r] = y],
         run[r].status \notin TerminalStatuses, y.status \notin TerminalStatuses
  PROVE  JournalStep
<1>1. Progressed(r)
  BY DEF Progressed, TypeOK
<1>2. ASSUME NEW q \in RunIds \ {r}
      PROVE  Quiet(q)
  BY DEF Quiet, TypeOK
<1> QED
  BY <1>1, <1>2 DEF JournalStep

\* A transaction that leaves the journal alone and finishes nothing.
LEMMA QuietIsJournalStep ==
  ASSUME TypeOK, NEW r \in RunIds, NEW y, events' = events, run' = [run EXCEPT ![r] = y],
         y.status = run[r].status, run[r].status \in TerminalStatuses => y = run[r]
  PROVE  JournalStep
BY DEF JournalStep, Quiet, TypeOK

LEMMA FinalizeJournal ==
  ASSUME TypeOK, NEW r \in RunIds, NEW target \in TerminalStatuses, NEW f,
         NEW partial \in BOOLEAN, Finalize(r, target, f, partial)
  PROVE  JournalStep
<1>1. run[r].fence \in Nat /\ run[r] \in RunRecord
  BY DEF TypeOK, RunRecord
<1>2. run'[r].status = FinalStatus(r, target) /\ run'[r].status \in TerminalStatuses
  <2>1. run'[r] = Ended(r, target, partial) /\ FinalStatus(r, target) \in TerminalStatuses
    BY FinalizeEffect, EndedType
  <2> QED
    BY <1>1, <2>1 DEF Ended, RunRecord
<1>3. run[r].status \notin TerminalStatuses
  BY DEF Finalize, CanFinalize
<1>4. Closed(r)
  <2>1. events'[r] = WithEvents(r, <<"message.completed", TerminalEvent(FinalStatus(r, target))>>,
                                run[r].fence)
    BY DEF Finalize, TypeOK
  <2> QED
    BY <1>1, <1>2, <1>3, <2>1 DEF Closed
<1>5. ASSUME NEW q \in RunIds \ {r}
      PROVE  Quiet(q)
  <2>1. events'[q] = events[q]
    BY DEF Finalize, TypeOK
  <2>2. CASE q \in Promoted(r)
    <3>1. run[q].status = "queued" /\ run[q] \in RunRecord /\ run'[q] = Woken(q)
      BY <2>2, FinalizeEffect DEF Promoted, Oldest, QueuedRuns, TypeOK
    <3>2. run'[q].status = "pending"
      BY <3>1 DEF Woken, RunRecord
    <3> QED
      BY <2>1, <3>1, <3>2 DEF Quiet, TerminalStatuses
  <2>3. CASE q \notin Promoted(r)
    BY <2>1, <2>3, FinalizeEffect DEF Quiet
  <2> QED
    BY <2>2, <2>3
<1> QED
  BY <1>4, <1>5 DEF JournalStep

\* Every transaction appends to the journal of one run at most, and only
\* finalize writes a terminal row.
LEMMA NextJournal ==
  ASSUME TypeOK, RowsInv, [Next]_storeVars
  PROVE  JournalStep
<1>1. CASE UNCHANGED storeVars
  BY <1>1 DEF storeVars, JournalStep, Quiet
<1> SUFFICES ASSUME NEW r \in RunIds,
                    \/ RequestNext(r)
                    \/ \E w \in Workers : WorkerNext(r, w)
                    \/ FinishNext(r)
                    \/ LeaseExpires(r)
             PROVE  JournalStep
  BY <1>1 DEF Next
<1>2. /\ run[r] \in RunRecord /\ run \in [RunIds -> RunRecord] /\ run[r].fence \in Nat
      /\ run = [run EXCEPT ![r] = run[r]] /\ Fences(r) \subseteq Nat
  BY FencesType DEF TypeOK, RunRecord
<1>3. ASSUME NEW t \in Threads, NEW k, NEW s, NEW e, Reserve(r, t, k, s, e)
      PROVE  JournalStep
  <2>1. run[r].status \notin TerminalStatuses /\ version[t] + 2 \in Nat
    BY <1>3 DEF Reserve, CanReserve, Exists, TerminalStatuses, TypeOK
  <2>2. /\ StartableRun(t, k).status \notin TerminalStatuses
        /\ \A x : QueuedRun(t, k, x).status \notin TerminalStatuses
    BY DEF StartableRun, QueuedRun, AbsentRun, TerminalStatuses
  <2>3. /\ <<"run.created">> \in Seq(EventTypes)
        /\ \A i \in 1..Len(<<"run.created">>) : <<"run.created">>[i] \notin TerminalEvents
    BY DEF EventTypes, TerminalEvents
  <2>4. events' = [events EXCEPT ![r] = WithEvents(r, <<"run.created">>, version[t] + 2)]
    BY <1>3 DEF Reserve
  <2>5. \E y : y.status \notin TerminalStatuses /\ run' = [run EXCEPT ![r] = y]
    BY <1>3, <2>2 DEF Reserve
  <2> QED
    BY <2>1, <2>3, <2>4, <2>5, ProgressIsJournalStep
<1>4. CASE MarkCancelling(r)
  <2>1. run[r].status \notin TerminalStatuses
    BY <1>4 DEF MarkCancelling, CanMarkCancelling
  <2>2. [run[r] EXCEPT !.status = "cancelling"].status \notin TerminalStatuses
    BY <1>2 DEF RunRecord, TerminalStatuses
  <2>3. /\ <<"warning.created">> \in Seq(EventTypes)
        /\ \A i \in 1..Len(<<"warning.created">>) : <<"warning.created">>[i] \notin TerminalEvents
    BY DEF EventTypes, TerminalEvents
  <2>4. events' = [events EXCEPT ![r] = WithEvents(r, <<"warning.created">>, run[r].fence)]
    BY <1>4 DEF MarkCancelling
  <2>5. run' = [run EXCEPT ![r] = [run[r] EXCEPT !.status = "cancelling"]]
    BY <1>4 DEF MarkCancelling
  <2> QED
    BY <1>2, <2>1, <2>2, <2>3, <2>4, <2>5, ProgressIsJournalStep
<1>5. ASSUME NEW i, NEW k, NEW a, NEW w \in Workers \cup {None}, ConsumeResume(r, i, k, a, w)
      PROVE  JournalStep
  <2> DEFINE resumed == IF w = None
                        THEN [run[r] EXCEPT !.status = "pending", !.owner = None, !.lease = "none"]
                        ELSE StartedBy(r, w)
             types == IF w = None THEN <<"hitl.resumed">> ELSE <<"hitl.resumed", "run.started">>
             y == [resumed EXCEPT !.message = "streaming"]
  <2>1. run[r].status \notin TerminalStatuses
    BY <1>5 DEF ConsumeResume, CanAccept, TerminalStatuses
  <2>2. resumed \in RunRecord /\ resumed.status \in {"pending", "running"}
    <3>1. CASE w = None
      BY <1>2, <3>1 DEF RunRecord, LeaseStates, RunStatuses, ActiveStatuses
    <3>2. CASE w # None
      <4>1. StartedBy(r, w) \in RunRecord
        BY <3>2, StartedByType
      <4>2. StartedBy(r, w).status = "running"
        BY <1>2 DEF StartedBy, RunRecord
      <4> QED
        BY <3>2, <4>1, <4>2
    <3> QED
      BY <3>1, <3>2
  <2>3. types \in Seq(EventTypes) /\ \A j \in 1..Len(types) : types[j] \notin TerminalEvents
    <3>1. CASE w = None
      BY <3>1 DEF EventTypes, TerminalEvents
    <3>2. CASE w # None
      <4>1. <<"hitl.resumed", "run.started">> \in Seq(EventTypes)
        BY DEF EventTypes
      <4>2. \A j \in 1..2 : <<"hitl.resumed", "run.started">>[j] \notin TerminalEvents
        BY DEF TerminalEvents
      <4> QED
        BY <3>2, <4>1, <4>2
    <3> QED
      BY <3>1, <3>2
  <2>4. run' = [run EXCEPT ![r] = y] /\ events' = [events EXCEPT ![r] = WithEvents(r, types, resumed.fence)]
    BY <1>5 DEF ConsumeResume
  <2> HIDE DEF resumed, types
  <2>5. y.status \notin TerminalStatuses /\ resumed.fence \in Nat
    BY <2>2 DEF RunRecord, TerminalStatuses
  <2> HIDE DEF y
  <2> QED
    BY <2>1, <2>3, <2>4, <2>5, ProgressIsJournalStep
<1>6. ASSUME NEW w \in Workers, WorkerNext(r, w)
      PROVE  JournalStep
  <2>1. ASSUME run' = [run EXCEPT ![r] = StartedBy(r, w)], run[r].status \notin TerminalStatuses,
               events' = [events EXCEPT ![r] = WithEvents(r, <<"run.started">>, run[r].fence + 1)]
        PROVE  JournalStep
    <3>1. StartedBy(r, w).status \notin TerminalStatuses
      BY <1>2 DEF StartedBy, RunRecord, TerminalStatuses
    <3>2. /\ <<"run.started">> \in Seq(EventTypes)
          /\ \A i \in 1..Len(<<"run.started">>) : <<"run.started">>[i] \notin TerminalEvents
      BY DEF EventTypes, TerminalEvents
    <3>3. run[r].fence + 1 \in Nat
      BY <1>2
    <3> QED
      BY <2>1, <3>1, <3>2, <3>3, ProgressIsJournalStep
  <2>2. CASE Claim(r, w)
    BY <2>1, <2>2 DEF Claim, CanClaim, TerminalStatuses
  <2>3. ASSUME NEW i, NEW k, NEW a, TakeResume(r, i, k, a, w)
        PROVE  JournalStep
    BY <2>1, <2>3 DEF TakeResume, CanTakeResume, TerminalStatuses
  <2>4. ASSUME NEW f, Heartbeat(r, w, f) PROVE JournalStep
    <3>1. /\ [run[r] EXCEPT !.lease = "valid"].status = run[r].status
          /\ run[r].status \notin TerminalStatuses
      BY <1>2, <2>4 DEF Heartbeat, OwnsLive, TerminalStatuses, RunRecord
    <3> QED
      BY <2>4, <3>1, QuietIsJournalStep DEF Heartbeat
  <2>5. ASSUME NEW f, NEW s, PinSkill(r, w, f, s) PROVE JournalStep
    <3>1. /\ [run[r] EXCEPT !.skill = s].status = run[r].status
          /\ run[r].status \notin TerminalStatuses
      BY <1>2, <2>5 DEF PinSkill, OwnsRunning, TerminalStatuses, RunRecord
    <3> QED
      BY <2>5, <3>1, QuietIsJournalStep DEF PinSkill
  <2>6. ASSUME NEW f \in Fences(r), Publish(r, w, f) PROVE JournalStep
    <3>1. run[r].status \notin TerminalStatuses /\ run' = [run EXCEPT ![r] = run[r]]
      BY <1>2, <2>6 DEF Publish, OwnsLive, TerminalStatuses
    <3>2. /\ <<"progress">> \in Seq(EventTypes)
          /\ \A i \in 1..Len(<<"progress">>) : <<"progress">>[i] \notin TerminalEvents
      BY DEF EventTypes, TerminalEvents
    <3> QED
      BY <1>2, <2>6, <3>1, <3>2, ProgressIsJournalStep DEF Publish
  <2>7. ASSUME NEW f \in Fences(r), NEW round, RecordPause(r, w, f, round) PROVE JournalStep
    <3>1. run[r].status \notin TerminalStatuses /\ run' = [run EXCEPT ![r] = Paused(r)]
      BY <2>7 DEF RecordPause, CanPause, OwnsRunning, TerminalStatuses
    <3>2. Paused(r).status \notin TerminalStatuses
      BY <1>2 DEF Paused, RunRecord, TerminalStatuses
    <3>3. /\ <<"run.waiting_input", "hitl.required">> \in Seq(EventTypes)
          /\ \A i \in 1..Len(<<"run.waiting_input", "hitl.required">>) :
               <<"run.waiting_input", "hitl.required">>[i] \notin TerminalEvents
      BY DEF EventTypes, TerminalEvents
    <3>4. events' = [events EXCEPT ![r] = WithEvents(r, <<"run.waiting_input", "hitl.required">>, f)]
      BY <2>7 DEF RecordPause
    <3> QED
      BY <1>2, <3>1, <3>2, <3>3, <3>4, ProgressIsJournalStep
  <2>8. ASSUME NEW f, NEW i, RecordResumeResult(r, i, w, f) PROVE JournalStep
    BY <2>8 DEF RecordResumeResult, JournalStep, Quiet
  <2> QED
    BY <1>6, <2>2, <2>3, <2>4, <2>5, <2>6, <2>7, <2>8 DEF WorkerNext
<1>7. CASE FinishNext(r)
  BY <1>7, FinalizeJournal DEF FinishNext, FinalizeOrphan, TerminalStatuses
<1>8. CASE LeaseExpires(r)
  <2>1. /\ [run[r] EXCEPT !.lease = "expired"].status = run[r].status
        /\ run[r].status \notin TerminalStatuses
    BY <1>2, <1>8 DEF LeaseExpires, RowsInv, RowInv, RunRecord
  <2> QED
    BY <1>8, <2>1, QuietIsJournalStep DEF LeaseExpires
<1> QED
  BY <1>3, <1>4, <1>5, <1>6, <1>7, <1>8 DEF RequestNext

JournalInv(q) ==
  /\ run[q].status \in TerminalStatuses =>
       /\ Len(events[q]) > 1
       /\ events[q][Len(events[q])].type = TerminalEvent(run[q].status)
       /\ events[q][Len(events[q]) - 1].type = "message.completed"
  /\ \A i \in 1..Len(events[q]) :
       events[q][i].type \in TerminalEvents =>
         i = Len(events[q]) /\ run[q].status \in TerminalStatuses

LEMMA JournalStepKeepsInv ==
  ASSUME TypeOK, NEW q \in RunIds, JournalInv(q), Quiet(q) \/ Progressed(q) \/ Closed(q)
  PROVE  JournalInv(q)'
<1>1. Len(events[q]) \in Nat
  BY DEF TypeOK
<1>2. CASE Quiet(q)
  BY <1>2 DEF Quiet, JournalInv
<1>3. CASE Progressed(q)
  <2>1. PICK types \in Seq(EventTypes), f \in Nat :
          /\ \A i \in 1..Len(types) : types[i] \notin TerminalEvents
          /\ events'[q] = WithEvents(q, types, f)
    BY <1>3 DEF Progressed
  <2>2. Len(types) \in Nat
    OBVIOUS
  <2>3. /\ Len(events'[q]) = Len(events[q]) + Len(types)
        /\ \A i \in 1..Len(events[q]) : events'[q][i] = events[q][i]
        /\ \A i \in 1..Len(types) : events'[q][Len(events[q]) + i].type = types[i]
    BY <2>1, WithEventsShape
  <2>4. ASSUME NEW i \in 1..Len(events'[q])
        PROVE  events'[q][i].type \notin TerminalEvents
    <3>1. CASE i <= Len(events[q])
      BY <1>1, <1>3, <2>3, <3>1 DEF Progressed, JournalInv
    <3>2. CASE i > Len(events[q])
      <4>1. i - Len(events[q]) \in 1..Len(types) /\ i = Len(events[q]) + (i - Len(events[q]))
        BY <1>1, <2>2, <2>3, <3>2
      <4> QED
        BY <2>1, <2>3, <4>1
    <3> QED
      BY <1>1, <2>2, <2>3, <3>1, <3>2
  <2> QED
    BY <1>3, <2>4 DEF Progressed, JournalInv
<1>4. CASE Closed(q)
  <2>1. PICK t \in TerminalEvents : t = TerminalEvent(run'[q].status)
    BY <1>4 DEF Closed, TerminalEvent, TerminalEvents
  <2>2. PICK types \in Seq(EventTypes) : types = <<"message.completed", t>>
    <3>1. "message.completed" \in EventTypes /\ t \in EventTypes
      BY DEF EventTypes, TerminalEvents
    <3>2. <<"message.completed", t>> \in Seq(EventTypes)
      BY <3>1
    <3> QED
      BY <3>2
  <2>3. PICK f \in Nat : events'[q] = WithEvents(q, types, f)
    BY <1>4, <2>1, <2>2 DEF Closed
  <2>4. /\ Len(events'[q]) = Len(events[q]) + 2
        /\ \A i \in 1..Len(events[q]) : events'[q][i] = events[q][i]
        /\ \A i \in 1..2 : events'[q][Len(events[q]) + i].type = types[i]
    <3>1. /\ Len(events'[q]) = Len(events[q]) + Len(types)
          /\ \A i \in 1..Len(events[q]) : events'[q][i] = events[q][i]
          /\ \A i \in 1..Len(types) : events'[q][Len(events[q]) + i].type = types[i]
      <4>1. types \in Seq(EventTypes) /\ f \in Nat /\ events'[q] = WithEvents(q, types, f)
        BY <2>2, <2>3
      <4> QED
        BY <4>1, WithEventsShape
    <3>2. Len(types) = 2
      BY <2>2
    <3> QED
      BY <3>1, <3>2
  <2>5. /\ events'[q][Len(events[q]) + 1].type = "message.completed"
        /\ events'[q][Len(events[q]) + 2].type = TerminalEvent(run'[q].status)
    <3>1. types[1] = "message.completed" /\ types[2] = t
      BY <2>2
    <3> QED
      BY <2>1, <2>4, <3>1
  <2>6. ASSUME NEW i \in 1..Len(events'[q]), i # Len(events'[q])
        PROVE  events'[q][i].type \notin TerminalEvents
    <3>1. CASE i <= Len(events[q])
      <4>1. i \in 1..Len(events[q])
        BY <1>1, <2>4, <3>1
      <4> QED
        BY <1>4, <2>4, <4>1 DEF Closed, JournalInv
    <3>2. CASE i = Len(events[q]) + 1
      BY <2>5, <3>2 DEF TerminalEvents
    <3>3. i <= Len(events[q]) \/ i = Len(events[q]) + 1
      BY <1>1, <2>4, <2>6
    <3> QED
      BY <3>1, <3>2, <3>3
  <2>7. /\ Len(events'[q]) > 1 /\ Len(events'[q]) - 1 = Len(events[q]) + 1
        /\ run'[q].status \in TerminalStatuses
    BY <1>1, <1>4, <2>4 DEF Closed
  <2> QED
    BY <2>4, <2>5, <2>6, <2>7 DEF JournalInv
<1> QED
  BY <1>2, <1>3, <1>4

\* The journal of a run is closed by exactly one terminal event, written right
\* after message.completed when the run finishes, and by nothing before that.
THEOREM TerminalEventLastHolds == Spec => []TerminalEventLast
<1>1. Init => TerminalEventLast
  BY DEF Init, TerminalEventLast, AbsentRun, TerminalStatuses
<1>2. TypeOK /\ RowsInv /\ TerminalEventLast /\ [Next]_storeVars => TerminalEventLast'
  <2> SUFFICES ASSUME TypeOK, RowsInv, TerminalEventLast, [Next]_storeVars, NEW q \in RunIds
               PROVE  JournalInv(q)'
    BY DEF TerminalEventLast, JournalInv
  <2>1. JournalInv(q)
    BY DEF TerminalEventLast, JournalInv
  <2>2. Quiet(q) \/ Progressed(q) \/ Closed(q)
    BY NextJournal DEF JournalStep
  <2> QED
    BY <2>1, <2>2, JournalStepKeepsInv
<1> QED
  BY <1>1, <1>2, TypeCorrect, RowsInvariant, PTL DEF Spec

\* A finished run is never reopened, rewritten or written to again.
THEOREM TerminalIsFinalHolds == Spec => TerminalIsFinal
<1>1. TypeOK /\ RowsInv /\ [Next]_storeVars =>
        [\A r \in RunIds : run[r].status \in TerminalStatuses =>
           run'[r] = run[r] /\ events'[r] = events[r]]_storeVars
  BY NextJournal DEF JournalStep, Quiet, Progressed, Closed
<1> QED
  BY <1>1, TypeCorrect, RowsInvariant, PTL DEF Spec, TerminalIsFinal

=============================================================================
