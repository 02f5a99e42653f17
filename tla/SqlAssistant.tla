----------------------------- MODULE SqlAssistant -----------------------------
(***************************************************************************)
(* The read-only SQL assistant.  SqlAssistantRuntime keeps one catalog with *)
(* a time to live under a lock; PostgresSqlAssistantAdapter runs every load *)
(* and every query in a repeatable-read transaction on a pooled connection, *)
(* checks role and relations again in that transaction, and has a watcher   *)
(* thread cancel the statement of a cancelled or overdue request.           *)
(* Administrators change grants and tables of the database at any time.     *)
(***************************************************************************)
EXTENDS Absence, Integers, FiniteSets, FiniteSetsExt

CONSTANTS
  SqlThreads,        \* tool worker threads, one request each
  Tables,         \* relations the allowlist patterns can match
  Listed,         \* those the allowlist names one by one; the rest match schema.*
  Queries,        \* relations of the queries that are asked
  Conns,          \* connections of the pool
  Ttl,            \* catalog_cache_ttl_seconds
  SqlMaxTime,        \* bound on the clock
  MaxChanges,     \* bound on changes of the database
  MaxRows,        \* rows of an answer
  FetchSize,      \* rows of one fetchmany
  CancelIsQuick   \* a cancel request is done before the watcher's join times out

ASSUME SqlAssumption ==
  /\ Listed \subseteq Tables /\ Queries \subseteq SUBSET Tables
  /\ {Ttl, MaxRows, FetchSize} \subseteq Nat \ {0}
  /\ CancelIsQuick \in BOOLEAN

VARIABLES
  db,       \* relation: "valid", "closed" (fails a check) or "gone"
  role,     \* the login has the expected identity and no dangerous right
  extra,    \* the login may read a relation outside the allowlist
  changes,
  clock,
  owner,    \* runtime: new, starting, started, failed, closing, closed
  pool,     \* the adapter: "new", "open", "closed"
  catalog,  \* cached snapshot: rels, at (loaded_at), read (when it was really read)
  catLock,  \* holder of _catalog_lock
  sqlReq       \* the request of each thread

sqlVars == <<db, role, extra, changes, clock, owner, pool, catalog, catLock, sqlReq>>

Errors == {"denied", "security", "timeout", "cancelled", "busy", "unavailable",
           "closed", "plan", "limit"}

NoRequest ==
  [pc |-> "idle", kind |-> None, want |-> {}, deadline |-> None, cancelled |-> FALSE,
   now |-> 0, cat |-> None, conn |-> None, watch |-> "off", reason |-> None,
   killed |-> None, target |-> None, total |-> 0, fetched |-> 0, out |-> None, seen |-> {}]

Existing == {r \in Tables : db[r] # "gone"}
Valid == {r \in Tables : db[r] = "valid"}

SqlInit ==
  /\ db = [r \in Tables |-> "valid"]
  /\ role = TRUE /\ extra = FALSE /\ changes = 0
  /\ clock = 0
  /\ owner = "new" /\ pool = "new"
  /\ catalog = None /\ catLock = None
  /\ sqlReq = [t \in SqlThreads |-> NoRequest]

-----------------------------------------------------------------------------
(* What a transaction checks in its snapshot *)

\* _validate_environment: identity, role attributes, memberships, schema rights.
EnvironmentOk == role

\* _load_relation_records of all relations, with the columns of each.
CatalogOk == ~extra /\ Existing = Valid /\ Listed \subseteq Existing /\ Existing # {}

\* _load_relation_records with selected: the relations of one compiled query.
SelectedOk(rels) == rels # {} => ~extra /\ rels \subseteq Valid

SqlBusy == {sqlReq[t].conn : t \in SqlThreads}
Overdue(t) == sqlReq[t].deadline # None /\ clock >= sqlReq[t].deadline

\* _guard_cancelled: the error of a cancelled or overdue request, None otherwise.
SqlGuard(t) ==
  IF sqlReq[t].cancelled THEN "cancelled" ELSE IF Overdue(t) THEN "timeout" ELSE None

-----------------------------------------------------------------------------
(* The owner of the runtime: CapabilityResources starts and closes it *)

\* start, first half: the pool opens and one transaction checks the role.
StartAdapter ==
  /\ owner = "new"
  /\ \/ owner' = "starting" /\ pool' = "open" /\ EnvironmentOk
     \/ owner' = "failed" /\ pool' = "closed"
  /\ UNCHANGED <<db, role, extra, changes, clock, catalog, catLock, sqlReq>>

\* start, second half: the first catalog; any failure closes the adapter for good.
StartCatalog ==
  /\ owner = "starting"
  /\ \/ /\ EnvironmentOk /\ CatalogOk
        /\ catalog' = [rels |-> Existing, at |-> clock, read |-> clock]
        /\ owner' = "started" /\ UNCHANGED pool
     \/ /\ owner' = "failed" /\ pool' = "closed" /\ UNCHANGED catalog
  /\ UNCHANGED <<db, role, extra, changes, clock, catLock, sqlReq>>

\* close holds the lifecycle lock, closes the adapter and waits for the catalog lock.
CloseAdapter ==
  /\ owner = "started"
  /\ owner' = "closing" /\ pool' = "closed"
  /\ UNCHANGED <<db, role, extra, changes, clock, catalog, catLock, sqlReq>>

CloseCatalog ==
  /\ owner = "closing" /\ catLock = None
  /\ owner' = "closed" /\ catalog' = None
  /\ UNCHANGED <<db, role, extra, changes, clock, pool, catLock, sqlReq>>

-----------------------------------------------------------------------------
(* A request *)

SqlGoes(t, r) == sqlReq' = [sqlReq EXCEPT ![t] = r]

\* A watcher that is in the middle of a cancel request is not stopped.
Stopped(watch) == IF watch = "cancelling" THEN watch ELSE "off"

\* The request fails; the connection returns to the pool and the watcher stops.
Ends(t, error) ==
  SqlGoes(t, [NoRequest EXCEPT !.pc = "done", !.out = error,
             !.watch = Stopped(sqlReq[t].watch), !.target = sqlReq[t].target])

\* contextmanager _cancellation_watch, finally: stop the watcher and join it.
Joined(t) == CancelIsQuick => sqlReq[t].watch # "cancelling"

\* describe_schema, without deadline or probe, or query with its entry guard.
Begin(t) ==
  /\ sqlReq[t].pc = "idle" /\ owner \in {"started", "closing", "closed"}
  /\ \E kind \in {"describe", "query"}, want \in Queries \cup {{}}, d \in {None, clock + 1} :
       /\ IF kind = "describe" THEN d = None /\ want = {} ELSE want \in Queries
       /\ SqlGoes(t, [NoRequest EXCEPT !.pc = "ensure", !.kind = kind, !.want = want,
                     !.deadline = d, !.seen = Valid])
  /\ UNCHANGED <<db, role, extra, changes, clock, owner, pool, catalog, catLock>>

\* _ensure_started, behind the lifecycle lock, and the reading of now after it.
EnsureStarted(t) ==
  /\ sqlReq[t].pc = "ensure" /\ owner # "closing"
  /\ IF sqlReq[t].kind = "query" /\ SqlGuard(t) # None THEN Ends(t, SqlGuard(t))
     ELSE IF owner = "closed" THEN Ends(t, "closed")
     ELSE SqlGoes(t, [sqlReq[t] EXCEPT !.pc = "catalog", !.now = clock])
  /\ UNCHANGED <<db, role, extra, changes, clock, owner, pool, catalog, catLock>>

Fresh(t) == catalog # None /\ sqlReq[t].now - catalog.at < Ttl

\* _catalog_snapshot: a hit, or the lock is kept for the load.
TakeCatalog(t) ==
  /\ sqlReq[t].pc = "catalog" /\ catLock = None
  /\ IF Fresh(t)
     THEN /\ SqlGoes(t, [sqlReq[t] EXCEPT !.pc = "compile", !.cat = catalog])
          /\ UNCHANGED catLock
     ELSE catLock' = t /\ SqlGoes(t, [sqlReq[t] EXCEPT !.pc = "load"])
  /\ UNCHANGED <<db, role, extra, changes, clock, owner, pool, catalog>>

\* _transaction, entry: guard, pool and connection; PoolTimeout when all are busy.
Connects(t, next) ==
  IF pool = "closed" THEN \E e \in {"closed", "unavailable"} : Ends(t, e)
  ELSE IF SqlGuard(t) # None THEN Ends(t, SqlGuard(t))
  ELSE \/ Ends(t, "unavailable")
       \/ Conns \subseteq SqlBusy /\ Ends(t, "busy")
       \/ \E c \in Conns \ SqlBusy :
            SqlGoes(t, [sqlReq[t] EXCEPT !.pc = next, !.conn = c,
                       !.watch = IF next = "read" /\ @ = "off" /\ sqlReq[t].kind = "query"
                                 THEN "on" ELSE @])

\* load_catalog takes a connection while it holds the catalog lock.
ConnectLoad(t) ==
  /\ sqlReq[t].pc = "load"
  /\ Connects(t, "read")
  /\ catLock' = IF sqlReq'[t].pc = "done" THEN None ELSE catLock
  /\ UNCHANGED <<db, role, extra, changes, clock, owner, pool, catalog>>

\* A QueryCanceled in a transaction: the watcher's reason, otherwise a timeout.
Interrupted(t) == IF sqlReq[t].reason # None THEN sqlReq[t].reason ELSE "timeout"

\* load_catalog: what the transaction read becomes the cache, stamped with now.
ReadCatalog(t) ==
  /\ sqlReq[t].pc = "read" /\ Joined(t)
  /\ catLock' = None
  /\ IF sqlReq[t].killed # None \/ sqlReq[t].reason # None
     THEN /\ Ends(t, Interrupted(t))
          /\ UNCHANGED catalog
     ELSE IF EnvironmentOk /\ CatalogOk
     THEN /\ catalog' = [rels |-> Existing, at |-> sqlReq[t].now, read |-> clock]
          /\ SqlGoes(t, [sqlReq[t] EXCEPT !.pc = "compile", !.cat = catalog', !.conn = None,
                        !.watch = Stopped(@)])
     ELSE Ends(t, "security") /\ UNCHANGED catalog
  /\ UNCHANGED <<db, role, extra, changes, clock, owner, pool>>

\* _validate_relations: every relation of the query is one of the catalog.
Compilable(t) == sqlReq[t].want \subseteq sqlReq[t].cat.rels

\* describe_schema answers from the catalog; compile refuses unknown relations.
Compile(t) ==
  /\ sqlReq[t].pc = "compile"
  /\ IF sqlReq[t].kind = "describe"
     THEN SqlGoes(t, [sqlReq[t] EXCEPT !.pc = "done", !.out = "tables", !.want = sqlReq[t].cat.rels, !.cat = None])
     ELSE IF Compilable(t)
     THEN SqlGoes(t, [sqlReq[t] EXCEPT !.pc = "connect", !.cat = None, !.now = 0])
     ELSE Ends(t, "denied")
  /\ UNCHANGED <<db, role, extra, changes, clock, owner, pool, catalog, catLock>>

ConnectQuery(t) ==
  /\ sqlReq[t].pc = "connect"
  /\ Connects(t, "check")
  /\ UNCHANGED <<db, role, extra, changes, clock, owner, pool, catalog, catLock>>

\* Faulty variant of CheckRelations: the catalog's word is taken.
CheckNothing(t) ==
  /\ sqlReq[t].pc = "check"
  /\ IF sqlReq[t].killed # None THEN Ends(t, Interrupted(t))
     ELSE IF EnvironmentOk
     THEN SqlGoes(t, [sqlReq[t] EXCEPT !.pc = "plan", !.watch = IF @ = "off" THEN "on" ELSE @])
     ELSE Ends(t, "security")
  /\ UNCHANGED <<db, role, extra, changes, clock, owner, pool, catalog, catLock>>

\* execute: role and relations again, in the transaction that will run the query.
CheckRelations(t) ==
  /\ sqlReq[t].pc = "check"
  /\ IF sqlReq[t].killed # None THEN Ends(t, Interrupted(t))
     ELSE IF EnvironmentOk /\ SelectedOk(sqlReq[t].want)
     THEN SqlGoes(t, [sqlReq[t] EXCEPT !.pc = "plan", !.watch = IF @ = "off" THEN "on" ELSE @])
     ELSE Ends(t, "security")
  /\ UNCHANGED <<db, role, extra, changes, clock, owner, pool, catalog, catLock>>

\* _explain and _validate_estimate, then the cursor opens on total rows.
Explain(t) ==
  /\ sqlReq[t].pc = "plan"
  /\ IF sqlReq[t].killed # None THEN Joined(t) /\ Ends(t, Interrupted(t))
     ELSE \/ Joined(t) /\ Ends(t, "plan")
          \/ \E n \in 0 .. MaxRows + 1 :
               SqlGoes(t, [sqlReq[t] EXCEPT !.pc = "fetch", !.total = n])
  /\ UNCHANGED <<db, role, extra, changes, clock, owner, pool, catalog, catLock>>

\* fetchmany: at most one row beyond the limit, to tell whether there is one.
Batch(t) == Min({FetchSize, MaxRows + 1 - sqlReq[t].fetched, sqlReq[t].total - sqlReq[t].fetched})

\* _execute_cursor, one turn of the loop; a large row or cell ends the query.
Fetch(t) ==
  /\ sqlReq[t].pc = "fetch"
  /\ IF SqlGuard(t) # None THEN Joined(t) /\ Ends(t, SqlGuard(t))
     ELSE IF sqlReq[t].reason # None \/ sqlReq[t].killed # None
     THEN Joined(t) /\ Ends(t, Interrupted(t))
     ELSE \/ Joined(t) /\ Ends(t, "limit")
          \/ SqlGoes(t, [sqlReq[t] EXCEPT
                        !.fetched = @ + Batch(t),
                        !.pc = IF Batch(t) = 0 \/ sqlReq[t].fetched + Batch(t) > MaxRows
                               THEN "leave" ELSE "fetch"])
  /\ UNCHANGED <<db, role, extra, changes, clock, owner, pool, catalog, catLock>>

\* SqlQueryResult: the rows and whether there are more.
SqlAnswers(t) ==
  SqlGoes(t, [sqlReq[t] EXCEPT !.pc = "done", !.out = "rows", !.conn = None, !.deadline = None,
             !.cancelled = FALSE, !.watch = Stopped(@)])

\* execute, behind the watch: a reason set meanwhile outweighs the result.
SqlLeave(t) ==
  /\ sqlReq[t].pc = "leave" /\ Joined(t)
  /\ IF sqlReq[t].reason # None THEN Ends(t, sqlReq[t].reason) ELSE SqlAnswers(t)
  /\ UNCHANGED <<db, role, extra, changes, clock, owner, pool, catalog, catLock>>

-----------------------------------------------------------------------------
(* The watcher, the server, the Run, the administrators, time *)

\* watch: the reason is set before the cancel request is sent.
WatcherFires(t) ==
  /\ sqlReq[t].watch = "on" /\ SqlGuard(t) # None
  /\ SqlGoes(t, [sqlReq[t] EXCEPT !.watch = "cancelling", !.reason = SqlGuard(t),
                !.target = sqlReq[t].conn])
  /\ UNCHANGED <<db, role, extra, changes, clock, owner, pool, catalog, catLock>>

\* Threads with a statement on connection c.
SqlRunning(c) == {u \in SqlThreads : sqlReq[u].conn = c /\ sqlReq[u].pc \in {"read", "check", "plan", "fetch"}}

\* The server stops what runs on the connection by now, if anything does.
CancelArrives(t) ==
  /\ sqlReq[t].watch = "cancelling"
  /\ \E victims \in {{}, SqlRunning(sqlReq[t].target)} :
       sqlReq' = [u \in SqlThreads |->
                 LET r == IF u \in victims THEN [sqlReq[u] EXCEPT !.killed = t] ELSE sqlReq[u]
                 IN  IF u = t THEN [r EXCEPT !.watch = "off", !.target = None] ELSE r]
  /\ UNCHANGED <<db, role, extra, changes, clock, owner, pool, catalog, catLock>>

\* statement_timeout or lock_timeout.
ServerTimeout(t) ==
  /\ sqlReq[t].pc \in {"read", "check", "plan", "fetch"} /\ sqlReq[t].killed = None
  /\ SqlGoes(t, [sqlReq[t] EXCEPT !.killed = "server"])
  /\ UNCHANGED <<db, role, extra, changes, clock, owner, pool, catalog, catLock>>

\* The Run is cancelled: the probe answers TRUE from now on.
Cancel(t) ==
  /\ sqlReq[t].kind = "query" /\ sqlReq[t].pc # "done" /\ ~sqlReq[t].cancelled
  /\ SqlGoes(t, [sqlReq[t] EXCEPT !.cancelled = TRUE])
  /\ UNCHANGED <<db, role, extra, changes, clock, owner, pool, catalog, catLock>>

\* A grant, a policy, a table or the login changes.
ChangeDatabase ==
  /\ changes < MaxChanges /\ changes' = changes + 1
  /\ \/ \E r \in Tables, v \in {"valid", "closed", "gone"} :
          db' = [db EXCEPT ![r] = v] /\ UNCHANGED <<role, extra>>
     \/ role' = ~role /\ UNCHANGED <<db, extra>>
     \/ extra' = ~extra /\ UNCHANGED <<db, role>>
  /\ sqlReq' = [t \in SqlThreads |->
               [sqlReq[t] EXCEPT !.seen = IF sqlReq[t].pc \in {"idle", "done"} THEN @
                                       ELSE @ \cup {r \in Tables : db'[r] = "valid"}]]
  /\ UNCHANGED <<clock, owner, pool, catalog, catLock>>

SqlTick ==
  /\ clock < SqlMaxTime
  /\ clock' = clock + 1
  /\ UNCHANGED <<db, role, extra, changes, owner, pool, catalog, catLock, sqlReq>>

SqlStep(t) ==
  \/ EnsureStarted(t) \/ ConnectLoad(t) \/ ReadCatalog(t) \/ Compile(t)
  \/ ConnectQuery(t) \/ CheckRelations(t) \/ Explain(t) \/ Fetch(t) \/ SqlLeave(t)

Owner == StartAdapter \/ StartCatalog \/ CloseCatalog

SqlNext ==
  \/ Owner \/ CloseAdapter \/ ChangeDatabase \/ SqlTick
  \/ \E t \in SqlThreads : \/ SqlStep(t) \/ TakeCatalog(t) \/ CancelArrives(t)
                        \/ Begin(t) \/ WatcherFires(t) \/ ServerTimeout(t) \/ Cancel(t)

SqlSpec == SqlInit /\ [][SqlNext]_sqlVars

\* Threads run; the catalog lock is granted to a waiting thread in the end; a
\* cancel request has its own timeout.  Nothing is assumed of time or of closing.
SqlFairness ==
  /\ WF_sqlVars(Owner)
  /\ \A t \in SqlThreads : WF_sqlVars(SqlStep(t)) /\ SF_sqlVars(TakeCatalog(t)) /\ WF_sqlVars(CancelArrives(t))

-----------------------------------------------------------------------------
(* Properties *)

\* The records of the runtime, the adapter and the requests, and one request per connection.
SqlTypeOK ==
  /\ db \in [Tables -> {"valid", "closed", "gone"}]
  /\ {role, extra} \subseteq BOOLEAN
  /\ owner \in {"new", "starting", "started", "failed", "closing", "closed"}
  /\ pool \in {"new", "open", "closed"}
  /\ catalog = None \/ catalog.rels \subseteq Tables
  /\ catLock \in SqlThreads \cup {None}
  /\ \A t \in SqlThreads :
       /\ sqlReq[t].out \in Errors \cup {None, "rows", "tables"}
       /\ sqlReq[t].conn \in Conns \cup {None}
       /\ \A u \in SqlThreads \ {t} : sqlReq[t].conn # None => sqlReq[u].conn # sqlReq[t].conn

\* Rows come only from relations that passed every check at some moment of the
\* request itself: a cached catalog never authorises a query.
CacheNeverAuthorises ==
  \A t \in SqlThreads : sqlReq[t].out = "rows" => sqlReq[t].want \subseteq sqlReq[t].seen

\* A query whose watcher has seen the cancellation or the deadline returns no rows.
NoRowsAfterCancel ==
  \A t \in SqlThreads : sqlReq[t].reason # None => sqlReq[t].out # "rows"

\* The rows of an answer and its truncated flag: all rows up to the limit, and
\* truncated exactly if there is one more, whatever the fetch size.
AllRowsOrTruncated ==
  \A t \in SqlThreads : sqlReq[t].out = "rows" =>
    /\ Min({sqlReq[t].fetched, MaxRows}) = Min({sqlReq[t].total, MaxRows})
    /\ sqlReq[t].fetched > MaxRows <=> sqlReq[t].total > MaxRows

\* What a request is compiled against was read from the database less than the
\* time to live before the request asked for it.
CatalogIsFresh ==
  \A t \in SqlThreads : sqlReq[t].cat # None => sqlReq[t].now - sqlReq[t].cat.read < Ttl

\* Rows are what the database authorises now, complete or marked truncated, and
\* none come after a cancellation.
AnswersAreSound == SqlTypeOK /\ CacheNeverAuthorises /\ NoRowsAfterCancel /\ AllRowsOrTruncated /\ CatalogIsFresh

\* Every request ends, whatever is closed, cancelled or changed meanwhile: the
\* lifecycle lock, the catalog lock and the pool never wait for each other in a circle.
RequestEnds ==
  \A t \in SqlThreads : sqlReq[t].pc # "idle" ~> sqlReq[t].pc = "done"

===============================================================================
