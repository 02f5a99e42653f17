-------------------------- MODULE EmbeddingRuntime --------------------------
(***************************************************************************)
(* EmbeddingRuntime (providers/embedding.py): callers of one event loop    *)
(* share a bounded queue, one micro-batching worker per mode, the encoder  *)
(* threads, an LRU cache and a table of work in flight that coalesces      *)
(* equal requests.  A step ends where the code awaits; the cache lock is   *)
(* never held across an await.                                             *)
(***************************************************************************)
EXTENDS Naturals, Sequences, FiniteSets, SequencesExt

CONSTANTS
  Callers,      \* concurrent _resolve_vector tasks
  QueryKeys,    \* cache keys of mode QUERY
  DocKeys,      \* cache keys of mode DOCUMENT
  Capacity,     \* max_queue_size
  MaxBatch,     \* max_batch_size
  Concurrency,  \* encoder_concurrency
  CacheSize,    \* cache_size
  MaxItems      \* bound on the work items created

ASSUME EmbeddingAssumption ==
  /\ Capacity \in Nat \ {0} /\ MaxBatch \in Nat \ {0} /\ Concurrency \in Nat \ {0}
  /\ CacheSize \in Nat /\ MaxItems \in Nat
  /\ QueryKeys \cap DocKeys = {}

VARIABLES
  embCaller,    \* the callers
  item,      \* the work items created so far, in order: their key and future
  queue,     \* _queues: per mode the items not yet taken
  worker,    \* _batch_worker of each mode: what it does and its batch
  inflight,  \* _inflight: the item of a key, 0 for none
  cache,     \* _cache: keys, least recently used first
  free,      \* permits left in _capacity
  phase,     \* of close
  lamed      \* a close failed after it had ended the workers

embVars == <<embCaller, item, queue, worker, inflight, cache, free, phase, lamed>>

Keys == QueryKeys \cup DocKeys
Modes == {"query", "document"}
Mode(k) == IF k \in QueryKeys THEN "query" ELSE "document"

Futures == {"pending", "result", "error", "cancelled"}
Answers == {"none", "result", "error", "cancelled", "refused"}

EmbInit ==
  /\ embCaller = [c \in Callers |-> [at |-> "idle", key |-> "", fut |-> 0, answer |-> "none"]]
  /\ item = << >>
  /\ queue = [m \in Modes |-> << >>]
  /\ worker = [m \in Modes |-> [at |-> "get", batch |-> << >>]]
  /\ inflight = [k \in Keys |-> 0]
  /\ cache = << >>
  /\ free = Capacity
  /\ phase = "open"
  /\ lamed = FALSE

Accepting == phase = "open"
Cached(k) == \E i \in 1 .. Len(cache) : cache[i] = k
\* move_to_end.
Touched(k) == Append(SelectSeq(cache, LAMBDA x : x # k), k)

EmbAnswered(c, answer) ==
  embCaller' = [embCaller EXCEPT ![c] = [at |-> "idle", key |-> "", fut |-> 0, answer |-> answer]]

WaitFor(c, i) == embCaller' = [embCaller EXCEPT ![c] = [@ EXCEPT !.at = "wait", !.fut = i]]

-----------------------------------------------------------------------------
(* Callers *)

\* embed_query or embed_documents: a closed runtime refuses; otherwise a task is created.
Start(c, k) ==
  /\ embCaller[c].at = "idle"
  /\ IF Accepting
     THEN embCaller' = [embCaller EXCEPT ![c] = [at |-> "lookup", key |-> k, fut |-> 0, answer |-> "none"]]
     ELSE EmbAnswered(c, "refused")
  /\ UNCHANGED <<item, queue, worker, inflight, cache, free, phase, lamed>>

\* The first look at the cache and at the work in flight.
Lookup(c) ==
  LET k == embCaller[c].key
  IN  /\ embCaller[c].at = "lookup"
      /\ IF Cached(k) THEN EmbAnswered(c, "result") /\ cache' = Touched(k)
         ELSE /\ IF inflight[k] # 0 THEN WaitFor(c, inflight[k])
                 ELSE embCaller' = [embCaller EXCEPT ![c].at = "acquire"]
              /\ UNCHANGED cache
      /\ UNCHANGED <<item, queue, worker, inflight, free, phase, lamed>>

NewItem(k) ==
  /\ item' = Append(item, [key |-> k, future |-> "pending"])
  /\ inflight' = [inflight EXCEPT ![k] = Len(item) + 1]
  /\ queue' = [queue EXCEPT ![Mode(k)] = Append(@, Len(item) + 1)]

\* Faulty variant of Enqueue: no second look after the wait for capacity.
EnqueueBlindly(c) ==
  LET k == embCaller[c].key
  IN  /\ embCaller[c].at = "acquire" /\ free > 0 /\ Len(item) < MaxItems
      /\ Accepting
      /\ NewItem(k) /\ free' = free - 1 /\ WaitFor(c, Len(item) + 1)
      /\ UNCHANGED <<worker, cache, phase, lamed>>

\* A permit is there: everything is looked at again before the work is queued,
\* and the permit is given back when it is not needed.
Enqueue(c) ==
  LET k == embCaller[c].key
  IN  /\ embCaller[c].at = "acquire" /\ free > 0
      /\ IF ~Accepting THEN EmbAnswered(c, "error") /\ UNCHANGED <<item, queue, inflight, cache, free>>
         ELSE IF Cached(k)
         THEN EmbAnswered(c, "result") /\ cache' = Touched(k) /\ UNCHANGED <<item, queue, inflight, free>>
         ELSE IF inflight[k] # 0
         THEN WaitFor(c, inflight[k]) /\ UNCHANGED <<item, queue, inflight, cache, free>>
         ELSE /\ Len(item) < MaxItems
              /\ NewItem(k) /\ free' = free - 1 /\ WaitFor(c, Len(item) + 1)
              /\ UNCHANGED cache
      /\ UNCHANGED <<worker, phase, lamed>>

\* _await_shared: the future is shielded from this caller's own cancellation.
EmbReceive(c) ==
  /\ embCaller[c].at = "wait" /\ item[embCaller[c].fut].future # "pending"
  /\ EmbAnswered(c, item[embCaller[c].fut].future)
  /\ UNCHANGED <<item, queue, worker, inflight, cache, free, phase, lamed>>

\* The probe, the deadline, or the task of the caller is cancelled.
CancelCaller(c) ==
  /\ embCaller[c].at \in {"lookup", "acquire", "wait"}
  /\ EmbAnswered(c, "cancelled")
  /\ UNCHANGED <<item, queue, worker, inflight, cache, free, phase, lamed>>

-----------------------------------------------------------------------------
(* The batch workers *)

\* The worker takes an item and keeps collecting until its batch is full or the
\* window has passed.
TakeItem(m) ==
  /\ worker[m].at \in {"get", "collect"} /\ queue[m] # << >>
  /\ Len(worker[m].batch) < MaxBatch
  /\ worker' = [worker EXCEPT ![m] = [at |-> "collect", batch |-> Append(@.batch, Head(queue[m]))]]
  /\ queue' = [queue EXCEPT ![m] = Tail(@)]
  /\ UNCHANGED <<embCaller, item, inflight, cache, free, phase, lamed>>

Encoding == {m \in Modes : worker[m].at = "encode"}

\* The encoder gate; the model is loaded and the texts are encoded in a thread.
Encode(m) ==
  /\ worker[m].at = "collect"
  /\ Cardinality(Encoding) < Concurrency
  /\ worker' = [worker EXCEPT ![m].at = "encode"]
  /\ UNCHANGED <<embCaller, item, queue, inflight, cache, free, phase, lamed>>

EmbSettled(batch, future) ==
  [i \in 1 .. Len(item) |->
     IF Contains(batch, i) /\ item[i].future = "pending" THEN [item[i] EXCEPT !.future = future] ELSE item[i]]

\* The entry of a key is dropped only when it is the item's own future.
Unflown(batch) == [k \in Keys |-> IF Contains(batch, inflight[k]) THEN 0 ELSE inflight[k]]

\* The cache after the vectors of a batch were put in: the newest CacheSize keys.
Remembered(batch) ==
  LET keys == [i \in 1 .. Len(batch) |-> item[batch[i]].key]
      all == SelectSeq(cache, LAMBDA k : ~Contains(keys, k)) \o keys
  IN  IF Len(all) <= CacheSize THEN all ELSE SubSeq(all, Len(all) - CacheSize + 1, Len(all))

Resting == [at |-> "get", batch |-> << >>]

BatchDone(m) ==
  LET batch == worker[m].batch
  IN  /\ worker[m].at = "encode"
      /\ item' = EmbSettled(batch, "result")
      /\ inflight' = Unflown(batch)
      /\ cache' = IF m = "query" THEN Remembered(batch) ELSE cache
      /\ worker' = [worker EXCEPT ![m] = Resting]
      /\ free' = free + Len(batch)
      /\ UNCHANGED <<embCaller, queue, phase, lamed>>

\* The model cannot be loaded, the encoder raises, or its vectors are not valid.
BatchFails(m) ==
  LET batch == worker[m].batch
  IN  /\ worker[m].at = "encode"
      /\ item' = EmbSettled(batch, "error")
      /\ inflight' = Unflown(batch)
      /\ worker' = [worker EXCEPT ![m] = Resting]
      /\ free' = free + Len(batch)
      /\ UNCHANGED <<embCaller, queue, cache, phase, lamed>>

-----------------------------------------------------------------------------
(* close *)

EmbBeginClose ==
  /\ phase = "open" /\ phase' = "closing"
  /\ UNCHANGED <<embCaller, item, queue, worker, inflight, cache, free, lamed>>

\* A cancelled worker cancels the futures of its batch and returns the permits.
EndWorker(m) ==
  LET batch == worker[m].batch
  IN  /\ phase = "closing" /\ worker[m].at # "ended"
      /\ item' = EmbSettled(batch, "cancelled")
      /\ inflight' = Unflown(batch)
      /\ worker' = [worker EXCEPT ![m] = [at |-> "ended", batch |-> << >>]]
      /\ free' = free + Len(batch)
      /\ UNCHANGED <<embCaller, queue, cache, phase, lamed>>

\* Once both workers have ended: the items nobody took are cancelled, and the
\* tables are cleared.
DrainQueues ==
  LET left == queue["query"] \o queue["document"]
  IN  /\ phase = "closing" /\ \A m \in Modes : worker[m].at = "ended"
      /\ item' = EmbSettled(left, "cancelled")
      /\ free' = free + Len(left)
      /\ queue' = [m \in Modes |-> << >>]
      /\ inflight' = [k \in Keys |-> 0]
      /\ cache' = << >>
      /\ phase' = "shutdown"
      /\ UNCHANGED <<embCaller, worker, lamed>>

\* The executor shuts down, or fails to: then the runtime accepts calls again,
\* but nothing starts its workers a second time.
EndClose ==
  /\ phase = "shutdown"
  /\ \/ phase' = "closed" /\ UNCHANGED lamed
     \/ phase' = "open" /\ lamed' = TRUE
  /\ UNCHANGED <<embCaller, item, queue, worker, inflight, cache, free>>

-----------------------------------------------------------------------------

EmbCallerStep(c) == Lookup(c) \/ Enqueue(c) \/ EmbReceive(c)
WorkerStep(m) == Encode(m) \/ BatchDone(m) \/ BatchFails(m) \/ (worker[m].at = "get" /\ TakeItem(m))
CloseStep == DrainQueues \/ EndClose \/ \E m \in Modes : EndWorker(m)

EmbNext ==
  \/ \E c \in Callers, k \in Keys : Start(c, k)
  \/ \E c \in Callers : EmbCallerStep(c) \/ CancelCaller(c)
  \/ \E m \in Modes : TakeItem(m) \/ Encode(m) \/ BatchDone(m) \/ BatchFails(m)
  \/ EmbBeginClose
  \/ CloseStep

\* The event loop runs every task; an encoder thread ends; capacity is granted
\* in turn, so a caller for whom there is a permit again and again gets one.
EmbFairness ==
  /\ \A c \in Callers : WF_embVars(Lookup(c) \/ EmbReceive(c)) /\ SF_embVars(Enqueue(c))
  /\ \A m \in Modes : SF_embVars(WorkerStep(m))
  /\ WF_embVars(CloseStep)

EmbSpec == EmbInit /\ [][EmbNext]_embVars /\ EmbFairness

-----------------------------------------------------------------------------
(* Properties *)

\* Type invariant of the runtime; the cache holds query keys only, each once.
EmbTypeOK ==
  /\ embCaller \in [Callers -> [at : {"idle", "lookup", "acquire", "wait"}, key : Keys \cup {""},
                             fut : 0 .. MaxItems, answer : Answers]]
  /\ item \in Seq([key : Keys, future : Futures])
  /\ worker \in [Modes -> [at : {"get", "collect", "encode", "ended"}, batch : Seq(1 .. MaxItems)]]
  /\ queue \in [Modes -> Seq(1 .. MaxItems)] /\ inflight \in [Keys -> 0 .. MaxItems]
  /\ cache \in Seq(QueryKeys) /\ IsInjective(cache) /\ Len(cache) <= CacheSize
  /\ free \in 0 .. Capacity /\ phase \in {"open", "closing", "shutdown", "closed"} /\ lamed \in BOOLEAN

\* The items a worker still has to deal with.
Held == queue["query"] \o queue["document"] \o worker["query"].batch \o worker["document"].batch

\* Every permit is either free or belongs to one item in a queue or a batch:
\* whatever is cancelled, coalesced, failed or closed, capacity neither leaks
\* nor is released twice.
CapacityConserved == free + Len(Held) = Capacity

\* The table of work in flight is exactly the unsettled items: work that can
\* still be joined will be settled, and two items of one key never run at once.
InflightIsExact ==
  /\ \A k \in Keys : inflight[k] # 0 =>
       /\ item[inflight[k]].key = k /\ item[inflight[k]].future = "pending"
       /\ Contains(Held, inflight[k])
  /\ \A i \in 1 .. Len(item) : item[i].future = "pending" => inflight[item[i].key] = i

\* Permits and futures are accounted for, whatever is coalesced, cancelled,
\* failed or closed in between.
WorkIsAccounted == EmbTypeOK /\ CapacityConserved /\ InflightIsExact

\* Every caller gets an answer, also across a close, unless an earlier close
\* failed half way.
EveryCallerAnswered ==
  \A c \in Callers : embCaller[c].at # "idle" ~> embCaller[c].at = "idle" \/ lamed \/ Len(item) = MaxItems

=============================================================================
