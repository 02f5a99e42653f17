------------------------------- MODULE RunView -------------------------------
(* What the browser shows of ONE run: the reducer of events/runEventReducer.ts, *)
(* the resumable stream of events/runEventStream.ts, the commands and replays   *)
(* of stores/runs.ts and the assistant message stores/chat.ts projects the run  *)
(* onto.  The store is fed from four sides that race: the SSE stream, a replay  *)
(* of the journal, the answers to cancel and resume, and the thread's messages  *)
(* loaded from the database.  The server is the RunStore, reduced to the status *)
(* of the run and the order of its events.                                      *)
EXTENDS Naturals, Sequences, SequencesExt

CONSTANTS
    MaxPauses,      \* bound on the questions the run asks
    MaxDeltas,      \* bound on message.delta events
    MaxBreaks,      \* bound on broken connections and failed requests
    MaxLoads,       \* bound on thread loads and page reloads
    Cancels         \* whether the user may stop the run

ASSUME ViewBounds == {MaxPauses, MaxDeltas, MaxBreaks, MaxLoads} \subseteq Nat /\ Cancels \in BOOLEAN

VARIABLES
    viewStatus,     \* Run.status in the database
    log,        \* the journal: event kinds in sequence order
    view,       \* RunEventState of the run (runs.byId)
    viewStream,     \* the EventSource loop that holds the AbortController
    cancel,     \* the POST /cancel in flight
    resume,     \* the POST /resume in flight
    replay,     \* the GET /events in flight
    load,       \* the GET of the thread's messages in flight
    bubble,     \* the assistant Message shown for the run
    breaks, loads

viewVars == <<viewStatus, log, view, viewStream, cancel, resume, replay, load, bubble, breaks, loads>>
viewServer == <<viewStatus, log>>
requests == <<cancel, resume, replay, load>>
bounds == <<breaks, loads>>

TerminalKinds == {"run.completed", "run.failed", "run.cancelled"}
TerminalStatuses == {"completed", "failed", "cancelled"}
RunTerminal == {"succeeded", "failed", "cancelled"}

Count(kind) == Len(SelectSeq(log, LAMBDA e : e = kind))
ViewEnded == viewStatus \in RunTerminal

-----------------------------------------------------------------------------
(* The reducer.                                                                 *)

NoHitl == 0

InitialView == [last |-> 0, status |-> "idle", terminal |-> FALSE, termSeq |-> 0,
                gap |-> FALSE, text |-> << >>, msg |-> "none", hitl |-> NoHitl,
                spinning |-> FALSE, transport |-> "idle"]

(* The part of applyRunEvent after its guards, by event type.  A text is the    *)
(* sequence numbers of the events whose content it is made of; a question is    *)
(* named by the sequence number of its hitl.required.                           *)
Project(v, n, kind) ==
    LET next == [v EXCEPT !.last = n]
        closed(s) == [next EXCEPT !.status = s, !.terminal = TRUE, !.termSeq = n,
                                  !.hitl = NoHitl, !.spinning = FALSE]
    IN  CASE kind = "run.created"    -> [next EXCEPT !.status = "pending"]
          [] kind = "run.started"    -> [next EXCEPT !.status = "running", !.spinning = TRUE]
          [] kind = "message.delta"  -> [next EXCEPT !.text = Append(@, n), !.msg = "streaming"]
          [] kind = "run.waiting_input" -> [next EXCEPT !.status = "waiting_input",
                                                        !.spinning = FALSE]
          [] kind = "hitl.required"  -> [next EXCEPT !.text = << >>, !.msg = "waiting_input",
                                                     !.hitl = n, !.status = "waiting_input"]
          [] kind = "hitl.resumed"   -> [next EXCEPT !.hitl = NoHitl, !.msg = "streaming",
                                                     !.status = "running"]
          [] kind = "cancel.warning" -> [next EXCEPT !.status = "cancelling"]
          [] kind = "message.completed" -> [next EXCEPT !.text = <<n>>, !.msg = "final"]
          [] kind = "run.completed"  -> closed("completed")
          [] kind = "run.failed"     -> closed("failed")
          [] kind = "run.cancelled"  -> closed("cancelled")

Relevant(v, n) == v.termSeq = 0 /\ n > v.last

ApplyRunEvent(v, n) ==
    IF ~Relevant(v, n) THEN v
    ELSE IF n # v.last + 1 THEN [v EXCEPT !.gap = TRUE]
    ELSE Project(v, n, log[n])

ApplyAll(v, from, to) == FoldLeft(ApplyRunEvent, v, [i \in 1..(to - from) |-> from + i])

(* Mutant: an answer may change a run whose terminal event has been applied.    *)
HydratableAlways(v, s) == TRUE

(* A terminal event already applied wins over an answer that says otherwise.    *)
Hydratable(v, s) == v.termSeq = 0 \/ (s \in TerminalStatuses /\ s = v.status)

LifecycleStatus(s) == IF s = "succeeded" THEN "completed" ELSE s

Hydrate(v, run) ==
    LET s == LifecycleStatus(run)
    IN  IF Hydratable(v, s) THEN [v EXCEPT !.status = s, !.terminal = s \in TerminalStatuses]
        ELSE v

-----------------------------------------------------------------------------
(* projectRunState: the assistant message follows the view on every change.     *)

(* preservePersistedTerminal: the loaded answer is final and the replay has not *)
(* reached message.completed yet.                                               *)
KeepsAnswer(b, v) == b.st = "final" /\ v.msg # "final"

ProjectRunState(b, v) ==
    IF KeepsAnswer(b, v) THEN b
    ELSE [st |-> IF v.msg # "none" THEN v.msg ELSE v.status,
          text |-> IF v.hitl # NoHitl THEN << >> ELSE IF v.msg # "none" THEN v.text ELSE b.text]

Shows(v) == view' = v /\ bubble' = ProjectRunState(bubble, v)

(* The message row of the database: content is written once, by finalize.       *)
PersistedMessage ==
    IF ViewEnded THEN [st |-> "final", text |-> <<Len(log) - 1>>]
    ELSE [st |-> IF viewStatus = "waiting_input" THEN "waiting_input" ELSE "streaming", text |-> << >>]

-----------------------------------------------------------------------------
Off == [st |-> "off", last |-> 0, resuming |-> FALSE]
NoCancel == [st |-> "none", was |-> "idle", same |-> FALSE, answer |-> "idle"]
NoResume == [st |-> "none", token |-> NoHitl, answer |-> "idle"]
NoReplay == [st |-> "none", from |-> 0, to |-> 0]
NoLoad == [st |-> "none", row |-> [st |-> "streaming", text |-> << >>]]

(* start(): the POST that creates the run answers with its event stream.        *)
ViewInit ==
    /\ viewStatus = "pending" /\ log = <<"run.created">>
    /\ view = [InitialView EXCEPT !.status = "creating", !.transport = "connecting"]
    /\ viewStream = [Off EXCEPT !.st = "connecting"]
    /\ cancel = NoCancel /\ resume = NoResume /\ replay = NoReplay /\ load = NoLoad
    /\ bubble = [st |-> "creating", text |-> << >>]
    /\ breaks = 0 /\ loads = 0

-----------------------------------------------------------------------------
(* The server, as RunStore lets it move.                                        *)

ServerMoves(s, kinds) ==
    /\ viewStatus' = s /\ log' = log \o kinds
    /\ UNCHANGED <<view, viewStream, requests, bubble, bounds>>

Start == viewStatus = "pending" /\ ServerMoves("running", <<"run.started">>)

Delta ==
    /\ viewStatus \in {"running", "cancelling"} /\ Count("message.delta") < MaxDeltas
    /\ ServerMoves(viewStatus, <<"message.delta">>)

ViewPause ==
    /\ viewStatus = "running" /\ Count("hitl.required") < MaxPauses
    /\ ServerMoves("waiting_input", <<"run.waiting_input", "hitl.required">>)

TerminalKind(s) == CASE s = "succeeded" -> "run.completed"
                     [] s = "failed" -> "run.failed"
                     [] s = "cancelled" -> "run.cancelled"

Finish(s) ==
    /\ \/ viewStatus = "running" /\ s \in {"succeeded", "failed"}
       \/ viewStatus = "cancelling" /\ s = "cancelled"
    /\ ServerMoves(s, <<"message.completed", TerminalKind(s)>>)

-----------------------------------------------------------------------------
(* connectKnownRunEventStream and the connect() or start() that awaits it.      *)

(* The finally block, by the stream that still holds the controller.            *)
Closed(v) == [v EXCEPT !.transport = "closed"]

(* connect(): abort the previous stream, take the controller, start at the last *)
(* sequence applied.  Nothing to follow once the terminal event is applied.     *)
Connected(v, resuming) ==
    IF v.termSeq # 0 THEN viewStream
    ELSE [st |-> "connecting", last |-> v.last, resuming |-> resuming]
Connecting(v) == IF v.termSeq # 0 THEN v ELSE [v EXCEPT !.transport = "connecting"]

StreamOpens ==
    /\ viewStream.st = "connecting"
    /\ viewStream' = [viewStream EXCEPT !.st = "open"]
    /\ Shows([view EXCEPT !.transport = "open"])
    /\ UNCHANGED <<viewServer, requests, bounds>>

(* The server replays from Last-Event-ID, so the next event is the next one.    *)
NextEvent == viewStream.last + 1

(* Mutant: the page of a journal read ends before its last event.               *)
HasNextButLast == NextEvent < Len(log)

HasNext == NextEvent <= Len(log)

Stops(kind) == kind \in TerminalKinds \cup {"hitl.required"}

(* The cancel() in flight restores the object it holds; apply replaces it.      *)
ViewReplaced(v) == IF v = view THEN cancel ELSE [cancel EXCEPT !.same = FALSE]

StreamEvent ==
    /\ viewStream.st = "open" /\ HasNext
    /\ LET n == NextEvent
           v == ApplyRunEvent(view, n)
       IN  /\ viewStream' = IF Stops(log[n]) THEN Off ELSE [viewStream EXCEPT !.last = n]
           /\ Shows(IF Stops(log[n]) THEN Closed(v) ELSE v)
           /\ cancel' = ViewReplaced(v)
    /\ UNCHANGED <<viewServer, resume, replay, load, bounds>>

StreamBreaks ==
    /\ breaks < MaxBreaks /\ breaks' = breaks + 1
    /\ viewStream.st \in {"connecting", "open"}
    /\ viewStream' = [viewStream EXCEPT !.st = "backoff"]
    /\ Shows([view EXCEPT !.transport = "reconnecting"])
    /\ UNCHANGED <<viewServer, requests, loads>>

StreamRetries ==
    /\ viewStream.st = "backoff"
    /\ viewStream' = [viewStream EXCEPT !.st = "connecting"]
    /\ UNCHANGED <<viewServer, view, requests, bubble, bounds>>

(* A failure that is not retryable, or a refused token after one refresh.       *)
StreamGivesUp ==
    /\ breaks < MaxBreaks /\ breaks' = breaks + 1
    /\ viewStream.st = "connecting"
    /\ viewStream' = Off
    /\ Shows(Closed(view))
    /\ UNCHANGED <<viewServer, requests, loads>>

(* chat.reconnectCurrentRun.                                                    *)
Reconnect ==
    /\ viewStream.st = "off" /\ ~view.terminal /\ view.status # "waiting_input"
    /\ view.status # "idle"
    /\ viewStream' = Connected(view, FALSE)
    /\ Shows(Connecting(view))
    /\ UNCHANGED <<viewServer, requests, bounds>>

-----------------------------------------------------------------------------
(* cancel(): optimistic status, then the answer or the restored status.         *)

ActiveView == ~view.terminal /\ view.status \notin TerminalStatuses \cup {"idle"}

SendCancel ==
    /\ Cancels /\ ActiveView /\ view.status # "cancelling" /\ cancel.st = "none"
    /\ cancel' = [NoCancel EXCEPT !.st = "sent", !.was = view.status, !.same = TRUE]
    /\ Shows([view EXCEPT !.status = "cancelling"])
    /\ UNCHANGED <<viewServer, viewStream, resume, replay, load, bounds>>

(* RunService.request_cancel: a run nobody executes is finalized at once.       *)
ServeCancel ==
    /\ cancel.st = "sent"
    /\ LET s == IF viewStatus \in {"pending", "waiting_input"} THEN "cancelled"
                ELSE IF viewStatus = "running" THEN "cancelling" ELSE viewStatus
       IN  /\ viewStatus' = s
           /\ log' = log \o (IF viewStatus \in {"pending", "waiting_input"}
                                THEN <<"message.completed", "run.cancelled">>
                             ELSE IF viewStatus = "running" THEN <<"cancel.warning">> ELSE << >>)
           /\ cancel' = [cancel EXCEPT !.st = "answered", !.answer = s]
    /\ UNCHANGED <<view, viewStream, resume, replay, load, bubble, bounds>>

CancelAnswered ==
    /\ cancel.st = "answered"
    /\ Shows(Hydrate(view, cancel.answer))
    /\ cancel' = NoCancel
    /\ UNCHANGED <<viewServer, viewStream, resume, replay, load, bounds>>

(* The request or its answer is lost; the status is put back on the object the  *)
(* call started from, which is the shown one only if no event came in between.  *)
CancelFails ==
    /\ cancel.st # "none" /\ breaks < MaxBreaks /\ breaks' = breaks + 1
    /\ Shows(IF cancel.same /\ ~view.terminal THEN [view EXCEPT !.status = cancel.was] ELSE view)
    /\ cancel' = NoCancel
    /\ UNCHANGED <<viewServer, viewStream, resume, replay, load, loads>>

-----------------------------------------------------------------------------
(* resume(): POST the answer, hydrate, connect.                                 *)

(* resumeInFlight: the input is locked until the connection ends.               *)
ResumeInFlight == resume.st # "none" \/ viewStream.resuming

SendResume ==
    /\ ActiveView /\ view.hitl # NoHitl /\ ~ResumeInFlight
    /\ resume' = [NoResume EXCEPT !.st = "sent", !.token = view.hitl]
    /\ UNCHANGED <<viewServer, view, viewStream, cancel, replay, load, bubble, bounds>>

ViewAsked(token) == viewStatus = "waiting_input" /\ log[Len(log)] = "hitl.required" /\ token = Len(log)

(* The coordinator accepts the answer to the open question, replays a resume    *)
(* already consumed under the same key, and refuses everything else.            *)
ServeResume ==
    /\ resume.st = "sent"
    /\ IF ViewAsked(resume.token)
       THEN /\ viewStatus' = "pending" /\ log' = Append(log, "hitl.resumed")
            /\ resume' = [resume EXCEPT !.st = "answered", !.answer = "pending"]
       ELSE /\ UNCHANGED viewServer
            /\ resume' = IF resume.token < Len(log) /\ log[resume.token + 1] = "hitl.resumed"
                         THEN [resume EXCEPT !.st = "answered", !.answer = viewStatus]
                         ELSE [resume EXCEPT !.st = "refused"]
    /\ UNCHANGED <<view, viewStream, cancel, replay, load, bubble, bounds>>

ResumeAnswered ==
    /\ resume.st = "answered"
    /\ LET v == Hydrate(view, resume.answer)
       IN  viewStream' = Connected(v, TRUE) /\ Shows(Connecting(v))
    /\ resume' = NoResume
    /\ UNCHANGED <<viewServer, cancel, replay, load, bounds>>

ResumeFails ==
    /\ \/ resume.st = "refused" /\ UNCHANGED breaks
       \/ resume.st \in {"sent", "answered"} /\ breaks < MaxBreaks /\ breaks' = breaks + 1
    /\ resume' = NoResume
    /\ Shows(view)
    /\ UNCHANGED <<viewServer, viewStream, cancel, replay, load, loads>>

-----------------------------------------------------------------------------
(* loadThread, restoreRecoverableRunsForThread, restoreRunProjection.           *)

SendLoad ==
    /\ load.st = "none" /\ replay.st = "none"
    /\ loads < MaxLoads /\ loads' = loads + 1
    /\ load' = [NoLoad EXCEPT !.st = "sent"]
    /\ UNCHANGED <<viewServer, view, viewStream, cancel, resume, replay, bubble, breaks>>

ServeLoad ==
    /\ load.st = "sent"
    /\ load' = [st |-> "answered", row |-> PersistedMessage]
    /\ UNCHANGED <<viewServer, view, viewStream, cancel, resume, replay, bubble, bounds>>

(* replay() starts over when the view is terminal by an answer alone.           *)
ReplayBase == IF view.last = 0 /\ view.terminal
              THEN [InitialView EXCEPT !.transport = view.transport] ELSE view

BeginReplay(v) ==
    /\ replay' = [st |-> "sent", from |-> v.last, to |-> 0]
    /\ view' = v

(* The loaded page replaces the messages; a message that is not final has its   *)
(* run restored.                                                                *)
LoadAnswered ==
    /\ load.st = "answered" /\ load' = NoLoad
    /\ IF load.row.st # "final"
       THEN BeginReplay(ReplayBase) /\ bubble' = ProjectRunState(load.row, ReplayBase)
       ELSE bubble' = load.row /\ UNCHANGED <<view, replay>>
    /\ UNCHANGED <<viewServer, viewStream, cancel, resume, bounds>>

(* Opening the timeline of a finished answer replays its run on demand.         *)
OpenTimeline ==
    /\ replay.st = "none" /\ load.st = "none" /\ bubble.st = "final"
    /\ loads < MaxLoads /\ loads' = loads + 1
    /\ BeginReplay(ReplayBase) /\ bubble' = ProjectRunState(bubble, ReplayBase)
    /\ UNCHANGED <<viewServer, viewStream, cancel, resume, load, breaks>>

ServeReplay ==
    /\ replay.st = "sent"
    /\ replay' = [replay EXCEPT !.st = "answered", !.to = Len(log)]
    /\ UNCHANGED <<viewServer, view, viewStream, cancel, resume, load, bubble, bounds>>

(* The events of the answer are applied, each one projected; then the run is    *)
(* followed unless it is over or waits for the user.                            *)
ReplayAnswered ==
    /\ replay.st = "answered"
    /\ LET v == ApplyAll(view, replay.from, replay.to)
           follows == ~v.terminal /\ v.status # "waiting_input"
       IN  /\ Shows(IF follows THEN Connecting(v) ELSE v)
           /\ viewStream' = IF follows THEN Connected(v, FALSE) ELSE viewStream
           /\ cancel' = ViewReplaced(v)
    /\ replay' = NoReplay
    /\ UNCHANGED <<viewServer, resume, load, bounds>>

(* The page is reloaded: the stores and everything in flight are gone; the      *)
(* requests the server has not seen yet may still reach it.                     *)
ViewReload ==
    /\ loads < MaxLoads /\ loads' = loads + 1
    /\ view' = InitialView /\ viewStream' = Off
    /\ cancel' = NoCancel /\ resume' = NoResume /\ replay' = NoReplay
    /\ bubble' = PersistedMessage /\ load' = [st |-> "answered", row |-> PersistedMessage]
    /\ UNCHANGED <<viewServer, breaks>>

-----------------------------------------------------------------------------
ServerNext == Start \/ Delta \/ ViewPause \/ \E s \in RunTerminal : Finish(s)
Answers == ServeCancel \/ ServeResume \/ ServeLoad \/ ServeReplay
Callbacks == CancelAnswered \/ ResumeAnswered \/ LoadAnswered \/ ReplayAnswered
StreamNext == StreamOpens \/ StreamEvent \/ StreamRetries
UserNext == SendCancel \/ SendResume \/ SendLoad \/ OpenTimeline \/ Reconnect \/ ViewReload
FaultNext == StreamBreaks \/ StreamGivesUp \/ CancelFails \/ ResumeFails

ViewNext == ServerNext \/ Answers \/ Callbacks \/ StreamNext \/ UserNext \/ FaultNext

ViewSpec == ViewInit /\ [][ViewNext]_viewVars

(* The server works and answers, callbacks of the page run, the stream retries. *)
(* Nothing is assumed of the user.                                              *)
ViewFairness ==
    /\ WF_viewVars(Start) /\ WF_viewVars(\E s \in RunTerminal : Finish(s))
    /\ WF_viewVars(ServeCancel) /\ WF_viewVars(ServeResume) /\ WF_viewVars(ServeLoad) /\ WF_viewVars(ServeReplay)
    /\ WF_viewVars(CancelAnswered) /\ WF_viewVars(ResumeAnswered \/ ResumeFails)
    /\ WF_viewVars(LoadAnswered) /\ WF_viewVars(ReplayAnswered)
    /\ WF_viewVars(StreamNext)

-----------------------------------------------------------------------------
ViewStatuses == {"idle", "creating", "pending", "running", "waiting_input", "cancelling"}
                    \cup TerminalStatuses

(* Every variable of the page stays in its declared shape (RunEventState).      *)
ViewTypeOK ==
    /\ view.last \in 0..Len(log) /\ view.termSeq \in 0..Len(log) /\ view.hitl \in 0..Len(log)
    /\ view.status \in ViewStatuses /\ view.terminal \in BOOLEAN
    /\ view.transport \in {"idle", "connecting", "open", "reconnecting", "closed"}
    /\ viewStream.st \in {"off", "connecting", "open", "backoff"} /\ viewStream.last \in 0..Len(log)
    /\ bubble.st \in ViewStatuses \cup {"streaming", "final"}

Content(v) == [text |-> v.text, msg |-> v.msg, hitl |-> v.hitl,
               termSeq |-> v.termSeq, spinning |-> v.spinning]

(* The view is the journal: whatever the stream, replays, reconnections and     *)
(* answers did, text, question, terminal event and spinners are those of the    *)
(* first view.last events, each applied once (runs.apply, applyRunEvent).       *)
ViewIsJournal ==
    ~view.gap /\ Content(view) = Content(ApplyAll(InitialView, 0, view.last))

(* A terminal event stands: no late answer to cancel or resume shows another    *)
(* outcome than the journal's (hydrate's guard on terminalSequence).            *)
TerminalStands ==
    view.termSeq # 0 => view.terminal /\ Project(view, view.termSeq, log[view.termSeq]).status = view.status

(* What the page shows is what the journal says, and its ending stays.          *)
ViewIsFaithful == ViewTypeOK /\ ViewIsJournal /\ TerminalStands

(* A run that is being followed is seen to end: once it is over on the server,  *)
(* a page with an open stream shows the terminal event, or gives the stream up. *)
FollowedRunEnds == (ViewEnded /\ viewStream.st # "off") ~> (view.termSeq # 0 \/ viewStream.st = "off")

=============================================================================
