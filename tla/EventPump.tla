------------------------------ MODULE EventPump ------------------------------
(***************************************************************************)
(* How one execution of an agent turns what it does into durable Run       *)
(* events: the tasks RunAgentExecutor._run_runtime starts around the       *)
(* agent's stream.                                                         *)
(*                                                                         *)
(*  - The agent's loop appends answer text to _MessageDeltaBatcher and     *)
(*    records tool traces; the thread of the knowledge search emits its    *)
(*    progress through RunRequestContext.                                  *)
(*  - One pump per queue publishes progress and traces; a finished tool is *)
(*    audited, then announced, then its artifact is announced.             *)
(*  - The batcher joins text and publishes it once both queues are worked  *)
(*    off.                                                                 *)
(*  - When the stream is over the pumps are gathered and the batcher is    *)
(*    closed, whatever ended the stream.                                   *)
(*                                                                         *)
(* Whatever is emitted gets the next number.  Publications are fenced: the *)
(* store refuses them once the Run is not this worker's any more, and it   *)
(* refuses an audit already when the Run is being cancelled.               *)
(***************************************************************************)
EXTENDS Absence, Integers, Sequences, SequencesExt, FiniteSets

CONSTANTS
  MaxEmitted,   \* bound: what the agent emits in one execution
  PumpBatchSize,    \* _MESSAGE_DELTA_BATCH_CHARACTERS, in chunks
  Shutdowns,    \* whether the executor may be closed meanwhile
  StoreFaults,  \* whether a publication may fail for another reason than a lost Run
  LatePut       \* whether a thread may be held up between its check and its put
                \* for longer than the 0.1 s for which a pump waits

ASSUME BoundsArePositive == MaxEmitted \in Nat \ {0} /\ PumpBatchSize \in Nat \ {0}

Pumps == {"rag", "trace"}

VARIABLES
  pumpStatus,    \* of the Run: "running", "cancelling", or "gone": paused, taken over
  paused,    \* the search recorded a question to the user
  reason,    \* CancellationToken.reason
  pumpPhase,     \* "streaming", "gather", "closing" or "ended"
  outcome,   \* how the stream ended: None, "completed", "waiting", "failed", "cancelled"
  emitted,   \* number of the last emission
  ran,       \* numbers of the tool calls that finished
  content,   \* numbers of the chunks of the answer, CancellationToken._partial_chunks
  thread,    \* the step a search thread may put into its queue, or None
  queue,     \* output_queue and trace_queue
  pump,      \* what each pump is at: pc, item
  err,       \* pump_error
  batcher,   \* pc, queue (0 for the closing None), chunks, batch and closing
  journal,   \* published events, in order
  audits,    \* numbers of the tool calls with a ToolAudit row
  strays     \* store calls of tasks that were cancelled meanwhile

runVars == <<pumpStatus, paused, reason>>
streamVars == <<emitted, ran, content, thread>>
pumpVars == <<runVars, streamVars, pumpPhase, outcome, queue, pump, err, batcher, journal, audits, strays>>

IdlePump == [pc |-> "get", item |-> None]

PumpInit ==
  /\ pumpStatus = "running" /\ paused = FALSE /\ reason = None
  /\ pumpPhase = "streaming" /\ outcome = None
  /\ emitted = 0 /\ ran = {} /\ content = <<>> /\ thread = None
  /\ queue = [k \in Pumps |-> <<>>]
  /\ pump = [k \in Pumps |-> IdlePump]
  /\ err = FALSE
  /\ batcher = [pc |-> "get", queue |-> <<>>, chunks |-> <<>>, batch |-> <<>>, closing |-> FALSE]
  /\ journal = <<>> /\ audits = {} /\ strays = {}

PumpEnded(k) == pump[k].pc \in {"done", "fault", "cancelled"}
BatcherEnded == batcher.pc \in {"done", "conflict", "fault", "cancelled"}

\* An item is finished when its pump has called task_done.
Unfinished(k) == queue[k] # <<>> \/ pump[k].item # None

-----------------------------------------------------------------------------
(* The agent and the thread of its knowledge search *)

CanEmit == pumpPhase = "streaming" /\ emitted < MaxEmitted

\* record_trace for a tool that starts or has finished.
RecordTrace(kind) ==
  /\ CanEmit
  /\ emitted' = emitted + 1
  /\ ran' = IF kind = "finished" THEN ran \cup {emitted + 1} ELSE ran
  /\ queue' = [queue EXCEPT !["trace"] = Append(@, [id |-> emitted + 1, kind |-> kind])]
  /\ UNCHANGED <<runVars, content, thread, pumpPhase, outcome, pump, err, batcher, journal, audits, strays>>

\* emit_rag_step: the context is found active under the lock...
EmitRagStep ==
  /\ CanEmit /\ thread = None
  /\ emitted' = emitted + 1
  /\ thread' = emitted + 1
  /\ UNCHANGED <<runVars, ran, content, pumpPhase, outcome, queue, pump, err, batcher, journal, audits, strays>>

\* ... and the step is put after the lock was released, closed context or not.
PutRagStep ==
  /\ thread # None
  /\ queue' = [queue EXCEPT !["rag"] = Append(@, [id |-> thread, kind |-> "step"])]
  /\ thread' = None
  /\ UNCHANGED <<runVars, emitted, ran, content, pumpPhase, outcome, pump, err, batcher, journal, audits, strays>>

\* The end of the stream: the context is closed and pump_stop set in one go.
EndStream(how) == pumpPhase' = "gather" /\ outcome' = how

\* A chunk of the answer.  The agent waits for its tools and says nothing
\* after a pause.  Appending to a batcher that failed raises what it failed of.
StreamChunk ==
  /\ CanEmit /\ thread = None /\ ~paused
  /\ emitted' = emitted + 1
  /\ content' = Append(content, emitted + 1)
  /\ IF BatcherEnded
     THEN EndStream("failed") /\ UNCHANGED batcher
     ELSE /\ batcher' = [batcher EXCEPT !.queue = Append(@, emitted + 1)]
          /\ UNCHANGED <<pumpPhase, outcome>>
  /\ UNCHANGED <<runVars, ran, thread, queue, pump, err, journal, audits, strays>>

\* record_pause of the search: the Run waits for the user and has no owner.
PumpPause ==
  /\ pumpPhase = "streaming" /\ pumpStatus = "running" /\ thread = None
  /\ pumpStatus' = "gone" /\ paused' = TRUE
  /\ UNCHANGED <<reason, streamVars, pumpPhase, outcome, queue, pump, err, batcher, journal, audits, strays>>

\* The stream is exhausted, or raises: a provider failed, or the deadline passed
\* while a tool's thread goes on.
PumpStreamEnds ==
  /\ pumpPhase = "streaming"
  /\ \/ thread = None /\ EndStream(IF paused THEN "waiting" ELSE "completed")
     \/ EndStream("failed")
  /\ UNCHANGED <<runVars, streamVars, queue, pump, err, batcher, journal, audits, strays>>

-----------------------------------------------------------------------------
(* The store *)

\* EventJournal.append with a worker and a fencing token.
MayPublish == pumpStatus # "gone"

\* record_tool_audit wants a Run that is running.
MayAudit == pumpStatus = "running"

Published(kind, ids) == [kind |-> kind, ids |-> ids]

-----------------------------------------------------------------------------
(* The pumps *)

FirstStep(item) == IF item.kind = "finished" THEN "audit" ELSE "event"

PumpTake(k) ==
  /\ pump[k].pc = "get" /\ queue[k] # <<>>
  /\ pump' = [pump EXCEPT ![k] = [pc |-> FirstStep(Head(queue[k])), item |-> Head(queue[k])]]
  /\ queue' = [queue EXCEPT ![k] = Tail(@)]
  /\ UNCHANGED <<runVars, streamVars, pumpPhase, outcome, err, batcher, journal, audits, strays>>

\* 0.1 s without an item, after pump_stop was set.
PumpStop(k) ==
  /\ pump[k].pc = "get" /\ queue[k] = <<>> /\ pumpPhase # "streaming"
  /\ LatePut \/ k = "trace" \/ thread = None
  /\ pump' = [pump EXCEPT ![k].pc = "done"]
  /\ UNCHANGED <<runVars, streamVars, pumpPhase, outcome, queue, err, batcher, journal, audits, strays>>

\* What a pump does next with a finished tool; any other item is one event.
NextStep(k) ==
  CASE pump[k].pc = "audit" -> [pump[k] EXCEPT !.pc = "event"]
    [] pump[k].pc = "event" /\ pump[k].item.kind = "finished" -> [pump[k] EXCEPT !.pc = "artifact"]
    [] OTHER -> IdlePump

AtStore(k) == pump[k].pc \in {"audit", "event", "artifact"}

\* What the pump asks of the store.
PumpRequest(k) ==
  Published(IF pump[k].pc = "event" THEN pump[k].item.kind ELSE pump[k].pc, <<pump[k].item.id>>)

\* The store does what was asked.
Commit(what) ==
  IF what.kind = "audit"
  THEN MayAudit /\ audits' = audits \cup {what.ids[1]} /\ UNCHANGED journal
  ELSE MayPublish /\ journal' = Append(journal, what) /\ UNCHANGED audits

Refused(what) == IF what.kind = "audit" THEN ~MayAudit ELSE ~MayPublish

PumpPublishes(k) ==
  /\ AtStore(k)
  /\ Commit(PumpRequest(k))
  /\ pump' = [pump EXCEPT ![k] = NextStep(k)]
  /\ UNCHANGED <<runVars, streamVars, pumpPhase, outcome, queue, err, batcher, strays>>

\* RUN_STATE_CONFLICT: the pump returns and leaves the rest in its queue.
PumpConflict(k) ==
  /\ AtStore(k) /\ Refused(PumpRequest(k))
  /\ err' = TRUE
  /\ pump' = [pump EXCEPT ![k] = [pc |-> "done", item |-> None]]
  /\ UNCHANGED <<runVars, streamVars, pumpPhase, outcome, queue, batcher, journal, audits, strays>>

\* Any other exception ends the pump and is told to nobody but gather.
PumpFault(k) ==
  /\ StoreFaults /\ AtStore(k)
  /\ pump' = [pump EXCEPT ![k] = [pc |-> "fault", item |-> None]]
  /\ UNCHANGED <<runVars, streamVars, pumpPhase, outcome, queue, err, batcher, journal, audits, strays>>

-----------------------------------------------------------------------------
(* _MessageDeltaBatcher *)

\* flush: the chunks leave the buffer before they are published.
Flushed(b) == [b EXCEPT !.pc = "join", !.batch = b.chunks, !.chunks = <<>>]

\* An item of the batcher's own queue; 0 asks it to finish.
BatcherTake ==
  LET head == Head(batcher.queue)
      rest == [batcher EXCEPT !.queue = Tail(@)]
      more == [rest EXCEPT !.chunks = Append(@, head)]
  IN /\ batcher.pc = "get" /\ batcher.queue # <<>>
     /\ batcher' =
          IF head = 0
          THEN IF rest.chunks = <<>> THEN [rest EXCEPT !.pc = "done"]
               ELSE Flushed([rest EXCEPT !.closing = TRUE])
          ELSE IF Len(more.chunks) >= PumpBatchSize THEN Flushed(more) ELSE more
     /\ UNCHANGED <<runVars, streamVars, pumpPhase, outcome, queue, pump, err, journal, audits, strays>>

\* 0.05 s after the first chunk.
BatcherTimeout ==
  /\ batcher.pc = "get" /\ batcher.chunks # <<>>
  /\ batcher' = Flushed(batcher)
  /\ UNCHANGED <<runVars, streamVars, pumpPhase, outcome, queue, pump, err, journal, audits, strays>>

\* Faulty variant of QueuesWorkedOff: only the search's queue is waited for.
OutputWorkedOff == ~Unfinished("rag")

QueuesWorkedOff == \A k \in Pumps : ~Unfinished(k)

\* _flush_event_queues: both queues are joined, or a pump lost the Run.
BatcherJoined ==
  /\ batcher.pc = "join"
  /\ \/ QueuesWorkedOff /\ batcher' = [batcher EXCEPT !.pc = "publish"]
     \/ err /\ batcher' = [batcher EXCEPT !.pc = "conflict"]
  /\ UNCHANGED <<runVars, streamVars, pumpPhase, outcome, queue, pump, err, journal, audits, strays>>

BatcherPublishes ==
  /\ batcher.pc = "publish"
  /\ \/ /\ Commit(Published("delta", batcher.batch))
        /\ batcher' = [batcher EXCEPT !.batch = <<>>, !.pc = IF batcher.closing THEN "done" ELSE "get"]
     \/ ~MayPublish /\ batcher' = [batcher EXCEPT !.pc = "conflict"] /\ UNCHANGED <<journal, audits>>
     \/ StoreFaults /\ batcher' = [batcher EXCEPT !.pc = "fault"] /\ UNCHANGED <<journal, audits>>
  /\ UNCHANGED <<runVars, streamVars, pumpPhase, outcome, queue, pump, err, strays>>

-----------------------------------------------------------------------------
(* The finally clauses of _run_runtime *)

\* close: the sentinel, unless the task is over.
PumpAsked(b) ==
  IF b.pc \in {"done", "conflict", "fault", "cancelled"} THEN b
  ELSE [b EXCEPT !.queue = Append(@, 0)]

\* gather returns when both pumps are done, or raises when one of them did.
Gathered ==
  /\ pumpPhase = "gather"
  /\ \/ (\A k \in Pumps : pump[k].pc = "done") /\ UNCHANGED outcome
     \/ (\E k \in Pumps : pump[k].pc = "fault") /\ outcome' = "failed"
  /\ pumpPhase' = "closing"
  /\ batcher' = PumpAsked(batcher)
  /\ UNCHANGED <<runVars, streamVars, queue, pump, err, journal, audits, strays>>

\* The batcher's task is over.  Its conflict is expected when the Run was lost.
BatcherClosed ==
  /\ pumpPhase = "closing" /\ BatcherEnded
  /\ pumpPhase' = "ended"
  /\ outcome' = IF batcher.pc = "done" \/ (batcher.pc = "conflict" /\ reason = "lost")
                THEN outcome ELSE "failed"
  /\ UNCHANGED <<runVars, streamVars, queue, pump, err, batcher, journal, audits, strays>>

\* task.cancel() lands in whatever the execution awaits: the stream, gather with
\* both pumps, or the batcher's task.  A store call in a thread goes on.
Cancelled ==
  /\ outcome' = "cancelled"
  /\ \/ pumpPhase = "streaming" /\ pumpPhase' = "gather" /\ UNCHANGED <<pump, batcher, strays>>
     \/ /\ pumpPhase = "gather" /\ pumpPhase' = "closing"
        /\ pump' = [k \in Pumps |-> IF PumpEnded(k) THEN pump[k]
                                    ELSE [pc |-> "cancelled", item |-> None]]
        /\ strays' = strays \cup {PumpRequest(k) : k \in {p \in Pumps : AtStore(p)}}
        /\ batcher' = PumpAsked(batcher)
     \/ /\ pumpPhase = "closing" /\ pumpPhase' = "ended"
        /\ batcher' = IF BatcherEnded THEN batcher ELSE [batcher EXCEPT !.pc = "cancelled"]
        /\ strays' = IF batcher.pc = "publish"
                     THEN strays \cup {Published("delta", batcher.batch)} ELSE strays
        /\ UNCHANGED pump

StrayCommits ==
  \E what \in strays :
    /\ strays' = strays \ {what}
    /\ Commit(what) \/ UNCHANGED <<journal, audits>>
    /\ UNCHANGED <<runVars, streamVars, pumpPhase, outcome, queue, pump, err, batcher>>

-----------------------------------------------------------------------------
(* The world around the execution *)

\* request_cancel of the service: the row, before any token.
UserCancels ==
  /\ pumpPhase # "ended" /\ pumpStatus = "running"
  /\ pumpStatus' = "cancelling"
  /\ UNCHANGED <<paused, reason, streamVars, pumpPhase, outcome, queue, pump, err, batcher, journal, audits, strays>>

\* Another worker took over an expired lease.
TakenOver ==
  /\ pumpPhase # "ended" /\ pumpStatus # "gone"
  /\ pumpStatus' = "gone"
  /\ UNCHANGED <<paused, reason, streamVars, pumpPhase, outcome, queue, pump, err, batcher, journal, audits, strays>>

\* The heartbeat finds out, again and again; so does the Redis listener once.
Interrupt ==
  /\ pumpPhase # "ended" /\ pumpStatus # "running"
  /\ reason' = IF pumpStatus = "gone" THEN "lost" ELSE "user"
  /\ Cancelled
  /\ UNCHANGED <<pumpStatus, paused, streamVars, queue, err, journal, audits>>

\* close of the executor, which interrupts its tasks once and then waits for them.
Shutdown ==
  /\ Shutdowns /\ pumpPhase # "ended" /\ reason = None
  /\ reason' = "shutdown"
  /\ Cancelled
  /\ UNCHANGED <<pumpStatus, paused, streamVars, queue, err, journal, audits>>

PumpRunEnded == pumpPhase = "ended" /\ UNCHANGED pumpVars

AgentStep == PumpStreamEnds \/ StreamChunk \/ EmitRagStep \/ PutRagStep
             \/ \E kind \in {"started", "finished"} : RecordTrace(kind)

PumpStep(k) == PumpTake(k) \/ PumpStop(k) \/ PumpPublishes(k) \/ PumpConflict(k)

BatcherStep == BatcherTake \/ BatcherTimeout \/ BatcherJoined \/ BatcherPublishes

PumpNext ==
  \/ AgentStep \/ PumpPause
  \/ \E k \in Pumps : PumpStep(k) \/ PumpFault(k)
  \/ BatcherStep \/ Gathered \/ BatcherClosed \/ StrayCommits
  \/ UserCancels \/ TakenOver \/ Interrupt \/ Shutdown \/ PumpRunEnded

PumpSpec == PumpInit /\ [][PumpNext]_pumpVars

\* The agent has a deadline, its tool threads and the store answer, the event
\* loop runs every ready task, and the heartbeat tells of a lost or cancelled Run.
PumpFairness ==
  /\ WF_pumpVars(PumpStreamEnds) /\ WF_pumpVars(PutRagStep)
  /\ \A k \in Pumps : WF_pumpVars(PumpStep(k))
  /\ WF_pumpVars(BatcherStep) /\ WF_pumpVars(Gathered) /\ WF_pumpVars(BatcherClosed)
  /\ WF_pumpVars(Interrupt)

-----------------------------------------------------------------------------
(* Properties *)

Outcomes == {None, "completed", "waiting", "failed", "cancelled"}

\* Every task is where its code can be, and a pump has an item exactly while it
\* works one off: task_done is called on every path.
PumpTypeOK ==
  /\ pumpStatus \in {"running", "cancelling", "gone"}
  /\ reason \in {None, "shutdown", "user", "lost"}
  /\ pumpPhase \in {"streaming", "gather", "closing", "ended"} /\ outcome \in Outcomes
  /\ \A k \in Pumps : AtStore(k) <=> pump[k].item # None
  /\ batcher.pc \in {"get", "join", "publish", "done", "conflict", "fault", "cancelled"}
  /\ audits \subseteq 1..emitted

Deltas == SelectSeq(journal, LAMBDA e : e.kind = "delta")

\* Unless the pumps were cancelled, an event emitted before some text is never
\* journaled after that text: publish_delta waits for both queues.
NotOvertaken ==
  (\A k \in Pumps : pump[k].pc # "cancelled") =>
    \A i, j \in 1..Len(journal) :
      (i < j /\ journal[i].kind = "delta" /\ journal[j].kind # "delta") =>
        \A n \in ToSet(journal[i].ids) : n < journal[j].ids[1]

\* The text in the journal is a beginning of what the agent streamed: nothing
\* twice, nothing out of order, no gap.
TextIsPrefix == IsPrefix(FlattenSeq([i \in 1..Len(Deltas) |-> Deltas[i].ids]), content)

\* A tool is announced as finished only after its audit row was written, and its
\* artifact only after the tool.
AuditedFirst ==
  \A i \in 1..Len(journal) :
    /\ journal[i].kind = "finished" => journal[i].ids[1] \in audits
    /\ journal[i].kind = "artifact" =>
         \E j \in 1..(i - 1) : journal[j] = Published("finished", journal[i].ids)

\* Numbers of what the journal tells of.
Told == UNION {ToSet(journal[i].ids) : i \in 1..Len(journal)}

\* An execution that reports completion of a Run it still holds has published
\* everything that was emitted: no text is left in the batcher, no event in a
\* queue when run.completed is written.
CompletedIsWhole ==
  (pumpPhase = "ended" /\ outcome = "completed" /\ pumpStatus = "running") => Told = 1..emitted

\* The journal is the execution's output: in order, audited first, and whole when
\* the Run is reported complete.
JournalIsWhole == PumpTypeOK /\ NotOvertaken /\ TextIsPrefix /\ AuditedFirst /\ CompletedIsWhole

\* The execution ends, with or without the Run, and takes its tasks with it.
ExecutionEnds ==
  <>(pumpPhase = "ended" /\ BatcherEnded /\ \A k \in Pumps : PumpEnded(k))

==============================================================================
