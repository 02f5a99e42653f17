---------------------------- MODULE EventDelivery ----------------------------
(* How the events of ONE run leave the server.  An event is committed to the    *)
(* PostgreSQL journal together with an outbox row (events/journal.py).  Two     *)
(* kinds of publisher copy outbox rows to a Redis Stream: the caller of         *)
(* PersistentEventBus.publish, for the event it has just appended, and the      *)
(* background OutboxPublisher, in batches.  They race, so Redis may be handed   *)
(* the events out of order; XADD refuses an id that is not above the stream's   *)
(* last id and the transport takes the refusal for success.  The SSE            *)
(* subscribers of PersistentEventBus.subscribe read the JOURNAL; Redis only     *)
(* wakes them.  Events are their sequence numbers; the last one is terminal     *)
(* once "closed".                                                               *)
EXTENDS Naturals, Sequences, FiniteSets, FiniteSetsExt

CONSTANTS
    Callers,        \* concurrent calls of PersistentEventBus.publish
    Workers,        \* OutboxPublisher loops, one per process
    Subscribers,    \* SSE connections
    MaxEvents,      \* bound on the events of the run
    Batch,          \* outbox_batch_size, and the page of a journal read
    MaxLen,         \* redis_stream_maxlen
    MaxFaults       \* bound on publisher crashes and Redis outages

ASSUME DeliveryBounds ==
    MaxEvents \in Nat \ {0} /\ Batch \in Nat \ {0} /\ MaxLen \in Nat \ {0} /\ MaxFaults \in Nat

Publishers == Callers \cup Workers

VARIABLES
    len,        \* events committed to the journal
    closed,     \* the last of them is terminal
    published,  \* outbox rows whose published_at is set
    deliveryUp,         \* Redis answers
    deliveryStream,     \* ids present in the Redis Stream
    top,        \* the stream's last generated id
    deliveryJob,        \* per publisher: outbox rows it still has to publish, oldest first
    sent,       \* per publisher: the first row of its job has been handed to Redis
    cursor,     \* per subscriber: the cursor of subscribe()
    page,       \* per subscriber: events read from the journal, not yet yielded
    deliveryPhase,      \* per subscriber: "off", "read", "yield", "wait" or "ended"
    got,        \* per subscriber: its Last-Event-ID and the events yielded since
    faults

rows == <<len, closed, published>>
deliveryRedis == <<deliveryUp, deliveryStream, top>>
pubs == <<deliveryJob, sent>>
subs == <<cursor, page, deliveryPhase, got>>
deliveryVars == <<rows, deliveryRedis, pubs, subs, faults>>

Events == 1..len

TypeOK ==
    /\ len \in 0..MaxEvents /\ closed \in BOOLEAN /\ deliveryUp \in BOOLEAN
    /\ published \subseteq Events /\ deliveryStream \subseteq Events /\ top \in 0..len
    /\ \A p \in Publishers : deliveryJob[p] \subseteq Events /\ (sent[p] => deliveryJob[p] # {})
    /\ \A s \in Subscribers : /\ cursor[s] \in 0..len
                              /\ \A i \in DOMAIN page[s] : page[s][i] \in Events
                              /\ deliveryPhase[s] \in {"off", "read", "yield", "wait", "ended"}
    /\ faults \in 0..MaxFaults

DeliveryInit ==
    /\ len = 0 /\ closed = FALSE /\ published = {}
    /\ deliveryUp = TRUE /\ deliveryStream = {} /\ top = 0
    /\ deliveryJob = [p \in Publishers |-> {}] /\ sent = [p \in Publishers |-> FALSE]
    /\ cursor = [s \in Subscribers |-> 0] /\ page = [s \in Subscribers |-> << >>]
    /\ deliveryPhase = [s \in Subscribers |-> "off"] /\ got = [s \in Subscribers |-> << >>]
    /\ faults = 0

-----------------------------------------------------------------------------
(* The journal.  The run row is locked, so sequences are dense and commit in    *)
(* order; nothing is appended after the terminal event (RunStore).              *)

CanAppend == len < MaxEvents /\ ~closed

(* A repository transaction appends the event; only the outbox publishes it.    *)
AppendInTransaction(terminal) ==
    /\ CanAppend
    /\ len' = len + 1 /\ closed' = terminal
    /\ UNCHANGED <<published, deliveryRedis, pubs, subs, faults>>

(* PersistentEventBus.publish: append, then publish the same event inline.      *)
AppendAndPublish(p) ==
    /\ CanAppend /\ deliveryJob[p] = {}
    /\ len' = len + 1
    /\ deliveryJob' = [deliveryJob EXCEPT ![p] = {len + 1}]
    /\ UNCHANGED <<closed, published, deliveryRedis, sent, subs, faults>>

(* OutboxPublisher._load_pending: the oldest unpublished rows.                  *)
Pending ==
    LET open == Events \ published
    IN  {n \in open : Cardinality({m \in open : m < n}) < Batch}

LoadPending(w) ==
    /\ deliveryJob[w] = {} /\ Pending # {}
    /\ deliveryJob' = [deliveryJob EXCEPT ![w] = Pending]
    /\ UNCHANGED <<rows, deliveryRedis, sent, subs, faults>>

-----------------------------------------------------------------------------
(* RedisEventTransport.publish.                                                 *)

(* XADD with an explicit id: refused unless above the last generated id.        *)
Accepted(n) == n > top

(* "equal or smaller" is the answer to an event that is already there, or that  *)
(* a faster publisher has overtaken; both count as published.                   *)
RefusalIsSuccess(n) == TRUE

(* The batch is worked off in the order of the outbox.                          *)
NextRow(p) == Min(deliveryJob[p])

Send(p) ==
    /\ deliveryJob[p] # {} /\ ~sent[p] /\ deliveryUp
    /\ RefusalIsSuccess(NextRow(p))
    /\ sent' = [sent EXCEPT ![p] = TRUE]
    /\ deliveryStream' = IF Accepted(NextRow(p)) THEN deliveryStream \cup {NextRow(p)} ELSE deliveryStream
    /\ top' = IF Accepted(NextRow(p)) THEN NextRow(p) ELSE top
    /\ UNCHANGED <<rows, deliveryUp, deliveryJob, subs, faults>>

(* The call to Redis fails: the worker gives its batch up until the next round, *)
(* the inline caller swallows the error and leaves the row to the outbox.       *)
SendFails(p) ==
    /\ deliveryJob[p] # {} /\ ~sent[p]
    /\ ~deliveryUp \/ ~RefusalIsSuccess(NextRow(p))
    /\ deliveryJob' = [deliveryJob EXCEPT ![p] = {}]
    /\ UNCHANGED <<rows, deliveryRedis, sent, subs, faults>>

Markable(p) == deliveryJob[p] # {} /\ sent[p]

(* _mark_published / mark_outbox_published, then the next row of the batch.     *)
MarkPublished(p) ==
    /\ Markable(p)
    /\ published' = published \cup {NextRow(p)}
    /\ deliveryJob' = [deliveryJob EXCEPT ![p] = @ \ {NextRow(p)}]
    /\ sent' = [sent EXCEPT ![p] = FALSE]
    /\ UNCHANGED <<len, closed, deliveryRedis, subs, faults>>

-----------------------------------------------------------------------------
(* PersistentEventBus.subscribe: the generator behind an SSE response.          *)

(* A new connection resumes after the client's last sequence.                   *)
Connect(s, after) ==
    /\ deliveryPhase[s] = "off" /\ after \in 0..len
    /\ ~(closed /\ after = len)      \* connect() returns at once after a terminal event
    /\ cursor' = [cursor EXCEPT ![s] = after]
    /\ got' = [got EXCEPT ![s] = <<after>>]
    /\ deliveryPhase' = [deliveryPhase EXCEPT ![s] = "read"]
    /\ UNCHANGED <<rows, deliveryRedis, pubs, page, faults>>

(* Mutant: the page starts one event too late.                                  *)
ReadBeyond(s) ==
    LET end == IF cursor[s] + Batch < len THEN cursor[s] + Batch ELSE len
    IN  [i \in 1..(end - cursor[s] - 1) |-> cursor[s] + 1 + i]

(* RunEventJournal.read_after, ordered by sequence, one page.                   *)
ReadAfter(s) ==
    LET end == IF cursor[s] + Batch < len THEN cursor[s] + Batch ELSE len
    IN  [i \in 1..(end - cursor[s]) |-> cursor[s] + i]

Read(s) ==
    /\ deliveryPhase[s] = "read"
    /\ page' = [page EXCEPT ![s] = ReadAfter(s)]
    /\ deliveryPhase' = [deliveryPhase EXCEPT ![s] = IF ReadAfter(s) = << >> THEN "wait" ELSE "yield"]
    /\ UNCHANGED <<rows, deliveryRedis, pubs, cursor, got, faults>>

Terminal(n) == closed /\ n = len

(* One event of the page is yielded; a terminal one ends the generator.         *)
Yield(s) ==
    /\ deliveryPhase[s] = "yield"
    /\ LET n == Head(page[s])
           fresh == n > cursor[s]
           rest == Tail(page[s])
       IN  /\ cursor' = IF fresh THEN [cursor EXCEPT ![s] = n] ELSE cursor
           /\ got' = IF fresh THEN [got EXCEPT ![s] = Append(@, n)] ELSE got
           /\ page' = [page EXCEPT ![s] = IF Terminal(n) THEN << >> ELSE rest]
           /\ deliveryPhase' = [deliveryPhase EXCEPT ![s] = IF Terminal(n) THEN "ended"
                                            ELSE IF rest = << >> THEN "read" ELSE "yield"]
    /\ UNCHANGED <<rows, deliveryRedis, pubs, faults>>

(* wait_after returns at a newer id or when its block time is over; when Redis  *)
(* fails, the loop sleeps for the same time.  The next step is a journal read.  *)
Wakes(s) == TRUE

Wait(s) ==
    /\ deliveryPhase[s] = "wait" /\ Wakes(s)
    /\ deliveryPhase' = [deliveryPhase EXCEPT ![s] = "read"]
    /\ UNCHANGED <<rows, deliveryRedis, pubs, cursor, page, got, faults>>

(* The client or the network drops the connection, at any point.                *)
Disconnect(s) ==
    /\ deliveryPhase[s] \in {"read", "yield", "wait", "ended"}
    /\ deliveryPhase' = [deliveryPhase EXCEPT ![s] = "off"]
    /\ page' = [page EXCEPT ![s] = << >>]
    /\ UNCHANGED <<rows, deliveryRedis, pubs, cursor, got, faults>>

-----------------------------------------------------------------------------
(* Faults.                                                                      *)

Fault == faults < MaxFaults /\ faults' = faults + 1

(* A publishing process dies between any two of its steps.                      *)
Crash(p) ==
    /\ Fault /\ deliveryJob[p] # {}
    /\ deliveryJob' = [deliveryJob EXCEPT ![p] = {}] /\ sent' = [sent EXCEPT ![p] = FALSE]
    /\ UNCHANGED <<rows, deliveryRedis, subs>>

RedisGoesDown ==
    /\ Fault /\ deliveryUp
    /\ deliveryUp' = FALSE
    /\ UNCHANGED <<rows, deliveryStream, top, pubs, subs>>

RedisComesBack ==
    /\ ~deliveryUp
    /\ deliveryUp' = TRUE
    /\ UNCHANGED <<rows, deliveryStream, top, pubs, subs, faults>>

(* MAXLEN ~ n: Redis drops its oldest entries; the last id stays.               *)
Trim ==
    /\ Cardinality(deliveryStream) > MaxLen
    /\ deliveryStream' = deliveryStream \ {Min(deliveryStream)}
    /\ UNCHANGED <<rows, deliveryUp, top, pubs, subs, faults>>

-----------------------------------------------------------------------------
Publish == \E p \in Publishers : Send(p) \/ SendFails(p) \/ MarkPublished(p)
Serve(s) == Read(s) \/ Yield(s) \/ Wait(s)

DeliveryNext ==
    \/ \E terminal \in BOOLEAN : AppendInTransaction(terminal)
    \/ \E p \in Callers : AppendAndPublish(p)
    \/ \E w \in Workers : LoadPending(w)
    \/ Publish
    \/ \E s \in Subscribers : Serve(s) \/ Disconnect(s)
    \/ \E s \in Subscribers, after \in 0..MaxEvents : Connect(s, after)
    \/ \E p \in Publishers : Crash(p)
    \/ RedisGoesDown \/ RedisComesBack \/ Trim

DeliverySpec == DeliveryInit /\ [][DeliveryNext]_deliveryVars

(* Each publisher and each generator is a coroutine of a running event loop; a  *)
(* crashed process is restarted.  Nothing is assumed of Redis.                  *)
DeliveryFairness ==
    /\ \A w \in Workers : WF_deliveryVars(LoadPending(w))
    /\ \A p \in Publishers : WF_deliveryVars(Send(p) \/ SendFails(p) \/ MarkPublished(p))
    /\ \A s \in Subscribers : WF_deliveryVars(Serve(s))

-----------------------------------------------------------------------------
(* A connection is sent every event after its Last-Event-ID, once, in sequence  *)
(* order, whatever order the publishers reach Redis in (subscribe, read_after). *)
DeliveredInOrder ==
    \A s \in Subscribers :
        /\ Len(got[s]) <= cursor[s] + 1
        /\ \A i \in DOMAIN got[s] : got[s][i] = cursor[s] - Len(got[s]) + i

(* The generator ends only at the run's terminal event, with everything before  *)
(* it delivered; it never goes on past it.                                      *)
EndsAtTerminal ==
    \A s \in Subscribers : deliveryPhase[s] = "ended" => closed /\ cursor[s] = len

(* A row marked published is covered by the stream: either Redis holds it or it *)
(* refused it for a later one.  So once every row is published a subscriber     *)
(* that is behind finds a newer id and does not wait for its poll interval      *)
(* (mark_outbox_published after transport.publish, "equal or smaller").         *)
PublishedWakes ==
    /\ \A n \in published : n <= top
    /\ published = Events =>
          \A s \in Subscribers : cursor[s] < len => top > cursor[s]

(* A subscriber gets the journal: in order, to its end, and without waiting for *)
(* a poll once the outbox is drained.                                           *)
StreamIsFaithful == TypeOK /\ DeliveredInOrder /\ EndsAtTerminal /\ PublishedWakes

(* Once Redis stays up, every committed event is eventually marked published,   *)
(* although publishers race, crash and have met outages (OutboxPublisher.run).  *)
OutboxDrains == <>[]deliveryUp => \A n \in 1..MaxEvents : (n <= len) ~> (n \in published)

(* A connection that stays up is eventually ended by the terminal event, with   *)
(* or without Redis (the journal is polled).                                    *)
DeliveryStreamEnds ==
    \A s \in Subscribers : (closed /\ deliveryPhase[s] = "wait") ~> (deliveryPhase[s] \in {"ended", "off"})
=============================================================================
