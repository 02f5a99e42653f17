------------------------- MODULE DocumentIndexing -------------------------
(***************************************************************************)
(* The indexing workers (documents/worker.py, documents/publication.py)    *)
(* and the stores they fill and empty for the versions of one document,    *)
(* around the transactions of DocumentCatalog: the parent chunks in        *)
(* PostgreSQL and their Redis cache, the vectors in Milvus, the uploaded   *)
(* object.  A build goes through BuildStages, a cleanup through            *)
(* CleanStages.  Before a stage touches a store the worker asserts its     *)
(* lease in a transaction of its own: the guard and the store operation    *)
(* are two steps, and anything may happen in between.  A query resolves    *)
(* its retrieval scope from the current pointer, searches, and reads the   *)
(* parents through the cache.                                              *)
(***************************************************************************)
EXTENDS DocumentCatalog, TLC

CONSTANTS
  MaxCrashes,   \* bound on the worker processes that die by themselves
  Stalling      \* whether a lease may run out under a worker that still runs

ASSUME IndexingAssumption == MaxCrashes \in Nat /\ Stalling \in BOOLEAN

VARIABLES
  parents,   \* the version's parent chunks are in PostgreSQL
  pcache,    \* the version's parent chunks are in the Redis cache
  vectors,   \* copies of the version's vectors in Milvus (the key is generated,
             \* so writing them twice leaves two), 2 standing for more than one
  object,    \* the version's uploaded object is in the upload directory
  indexWorker,    \* the worker processes
  query,     \* a query: the version its scope names and where it is
  lostWorkers

storeVars == <<parents, pcache, vectors, object>>
indexingVars == <<catalogVars, storeVars, indexWorker, query, lostWorkers>>

BuildStages == <<"parse", "delete_parents", "put_parents", "verify_parents",
                 "delete_vectors", "put_vectors", "verify_vectors", "manifest", "publish">>
CleanStages == <<"clean_vectors", "clean_parents", "clean_object", "finalize">>

StoreStages == {"parse", "delete_parents", "put_parents", "delete_vectors", "put_vectors",
                "clean_vectors", "clean_parents", "clean_object"}

After(stages, stage) == stages[1 + CHOOSE k \in DOMAIN stages : stages[k] = stage]

Following(stage) ==
  IF \E k \in DOMAIN BuildStages : BuildStages[k] = stage
  THEN After(BuildStages, stage) ELSE After(CleanStages, stage)

\* at is a stage, or "error"/"settle" on the way out of a failed build.
\* guarded: the lease was found good for this stage.  fatal: not retryable.
IdleWorker == [at |-> "idle", n |-> 0, fence |-> 0, guarded |-> FALSE, fatal |-> FALSE]
DeadWorker == [IdleWorker EXCEPT !.at = "dead"]

NoQuery == [at |-> "none", n |-> 0]

IndexingInit ==
  /\ CatalogInit
  /\ parents = [n \in Versions |-> FALSE]
  /\ pcache = [n \in Versions |-> FALSE]
  /\ vectors = [n \in Versions |-> 0]
  /\ object = [n \in Versions |-> FALSE]
  /\ indexWorker = [w \in DocWorkers |-> IdleWorker]
  /\ query = NoQuery
  /\ lostWorkers = 0

Token(w) == [worker |-> w, fence |-> indexWorker[w].fence]
Cleaning(w) == indexWorker[w].at \in {"clean_vectors", "clean_parents", "clean_object", "finalize"}

\* What assert_index_lease and update_job check, or for a cleanup update_cleanup_job.
StillOwns(w) ==
  IF Cleaning(w) THEN MayClean(indexWorker[w].n, Token(w))
  ELSE MayWrite(indexWorker[w].n, Token(w)) /\ IsCandidate(indexWorker[w].n)

WorkerGoes(w, stage) ==
  indexWorker' = [indexWorker EXCEPT ![w] = [@ EXCEPT !.at = stage, !.guarded = FALSE]]

WorkerErrs(w, fatal) ==
  indexWorker' = [indexWorker EXCEPT ![w] = [@ EXCEPT !.at = "error", !.guarded = FALSE, !.fatal = fatal]]

WorkerRests(w) == indexWorker' = [indexWorker EXCEPT ![w] = IdleWorker]

-----------------------------------------------------------------------------
(* Uploads and deletions *)

\* The object is stored before the reservation; one that finds its identity
\* already there discards the object again.
UploadDocument(i) ==
  /\ ReserveUpload(i)
  /\ object' = [object EXCEPT ![NewVersion(i)] = TRUE]
  /\ UNCHANGED <<parents, pcache, vectors, indexWorker, query, lostWorkers>>

DeleteDocument ==
  /\ Retire \/ RetireAgain
  /\ UNCHANGED <<storeVars, indexWorker, query, lostWorkers>>

-----------------------------------------------------------------------------
(* A worker takes a job *)

\* run_once alternates which of the two queues it tries first; here either.
TakeIndexJob(w) ==
  /\ indexWorker[w].at = "idle"
  /\ \E n \in Versions :
       /\ ClaimIndexJob(n, w)
       /\ indexWorker' = [indexWorker EXCEPT ![w] =
            [IdleWorker EXCEPT !.at = IF docJob[n].status = "staged" THEN "publish" ELSE "parse",
                               !.n = n, !.fence = docJob'[n].xfence]]
  /\ UNCHANGED <<storeVars, query, lostWorkers>>

TakeCleanupJob(w) ==
  /\ indexWorker[w].at = "idle"
  /\ \E n \in Versions, S \in SUBSET Versions :
       /\ n \notin S
       /\ ClaimCleanupJob(n, w, S)
       /\ indexWorker' = [indexWorker EXCEPT ![w] =
            [IdleWorker EXCEPT !.at = "clean_vectors", !.n = n, !.fence = cleanup'[n].xfence]]
  /\ UNCHANGED <<storeVars, query, lostWorkers>>

\* A claim that only settles jobs it must not hand out.
SettleQueues(w) ==
  /\ indexWorker[w].at = "idle"
  /\ \/ \E n \in Versions : SettleIndexJob(n, w)
     \/ \E S \in SUBSET Versions : SettleCleanupJobs(w, S)
  /\ UNCHANGED <<storeVars, indexWorker, query, lostWorkers>>

-----------------------------------------------------------------------------
(* The stages *)

\* _guard_execution or update_cleanup_job: a refused guard is an error of the
\* build, and ends a cleanup (its retry would be refused as well).
Guard(w) ==
  /\ indexWorker[w].at \in StoreStages
  /\ ~indexWorker[w].guarded
  /\ IF StillOwns(w) THEN indexWorker' = [indexWorker EXCEPT ![w] = [@ EXCEPT !.guarded = TRUE]]
     ELSE IF Cleaning(w) THEN WorkerRests(w)
     ELSE WorkerErrs(w, FALSE)
  /\ UNCHANGED <<catalogVars, storeVars, query, lostWorkers>>

\* upsert_documents commits the rows and fills the cache.
PutParents(n) ==
  /\ parents' = [parents EXCEPT ![n] = TRUE]
  /\ pcache' = [pcache EXCEPT ![n] = TRUE]

\* delete_by_version looks at the cache only for the rows it finds.
DeleteParents(n) ==
  /\ parents' = [parents EXCEPT ![n] = FALSE]
  /\ pcache' = IF parents[n] THEN [pcache EXCEPT ![n] = FALSE] ELSE pcache

PutVectors(n) == vectors' = [vectors EXCEPT ![n] = IF @ = 0 THEN 1 ELSE 2]

DeleteVectors(n) == vectors' = [vectors EXCEPT ![n] = 0]

\* What the store operation of a stage does.
StoreEffect(stage, n) ==
  \/ /\ stage = "parse"
     /\ UNCHANGED storeVars
  \/ /\ stage \in {"delete_parents", "clean_parents"}
     /\ DeleteParents(n)
     /\ UNCHANGED <<vectors, object>>
  \/ /\ stage = "put_parents"
     /\ PutParents(n)
     /\ UNCHANGED <<vectors, object>>
  \/ /\ stage \in {"delete_vectors", "clean_vectors"}
     /\ DeleteVectors(n)
     /\ UNCHANGED <<parents, pcache, object>>
  \/ /\ stage = "put_vectors"
     /\ PutVectors(n)
     /\ UNCHANGED <<parents, pcache, object>>
  \/ /\ stage = "clean_object"
     /\ object' = [object EXCEPT ![n] = FALSE]
     /\ UNCHANGED <<parents, pcache, vectors>>

Operate(w) ==
  /\ indexWorker[w].guarded
  /\ StoreEffect(indexWorker[w].at, indexWorker[w].n)
  /\ WorkerGoes(w, Following(indexWorker[w].at))
  /\ UNCHANGED <<catalogVars, query, lostWorkers>>

\* The operation raises, with or without having taken effect.  A document that
\* cannot be parsed fails for good; everything else is retried.
OperationFails(w) ==
  /\ indexWorker[w].guarded
  /\ ~Cleaning(w)
  /\ StoreEffect(indexWorker[w].at, indexWorker[w].n) \/ UNCHANGED storeVars
  /\ WorkerErrs(w, indexWorker[w].at = "parse")
  /\ UNCHANGED <<catalogVars, query, lostWorkers>>

CleanupFails(w) ==
  /\ indexWorker[w].guarded
  /\ Cleaning(w)
  /\ StoreEffect(indexWorker[w].at, indexWorker[w].n) \/ UNCHANGED storeVars
  /\ WorkerRests(w)
  /\ IF StillOwns(w) THEN ScheduleCleanupRetry(indexWorker[w].n, Token(w)) ELSE UNCHANGED catalogVars
  /\ UNCHANGED <<query, lostWorkers>>

Exact(w) ==
  IF indexWorker[w].at = "verify_parents" THEN parents[indexWorker[w].n] ELSE vectors[indexWorker[w].n] = 1

Verify(w) ==
  /\ indexWorker[w].at \in {"verify_parents", "verify_vectors"}
  /\ IF StillOwns(w) /\ Exact(w) THEN WorkerGoes(w, Following(indexWorker[w].at))
     ELSE WorkerErrs(w, FALSE)
  /\ UNCHANGED <<catalogVars, storeVars, query, lostWorkers>>

\* record_manifest, with or without an answer; without one, or refused, the
\* build ends in a retryable error.
StageManifest(w) ==
  /\ indexWorker[w].at = "manifest"
  /\ \/ RecordManifest(indexWorker[w].n, Token(w)) /\ (WorkerGoes(w, Following("manifest")) \/ WorkerErrs(w, FALSE))
     \/ UNCHANGED catalogVars /\ WorkerErrs(w, FALSE)
  /\ UNCHANGED <<storeVars, query, lostWorkers>>

\* publish, reconciled with the catalog when it gave no answer.
PublishVersion(w) ==
  /\ indexWorker[w].at = "publish"
  /\ \/ Publish(indexWorker[w].n, Token(w)) /\ (WorkerRests(w) \/ WorkerErrs(w, FALSE))
     \/ UNCHANGED catalogVars /\ WorkerErrs(w, FALSE)
  /\ UNCHANGED <<storeVars, query, lostWorkers>>

FinishCleanup(w) ==
  /\ indexWorker[w].at = "finalize"
  /\ WorkerRests(w)
  /\ \/ CompleteCleanupJob(indexWorker[w].n, Token(w))
     \/ ScheduleCleanupRetry(indexWorker[w].n, Token(w))
     \/ ~StillOwns(w) /\ UNCHANGED catalogVars
  /\ UNCHANGED <<storeVars, query, lostWorkers>>

\* _still_owns_index: an execution that lost its job goes quiet.
IndexHandleError(w) ==
  /\ indexWorker[w].at = "error"
  /\ IF StillOwns(w) THEN WorkerGoes(w, "settle") ELSE WorkerRests(w)
  /\ UNCHANGED <<catalogVars, storeVars, query, lostWorkers>>

\* schedule_index_retry or fail.  When the job was lost after _still_owns_index,
\* the refusal is not caught and ends the process.
SettleBuild(w) ==
  /\ indexWorker[w].at = "settle"
  /\ IF ~StillOwns(w)
     THEN indexWorker' = [indexWorker EXCEPT ![w] = DeadWorker] /\ UNCHANGED catalogVars
     ELSE /\ WorkerRests(w)
          /\ IF indexWorker[w].fatal THEN Fail(indexWorker[w].n, Token(w))
             ELSE ScheduleIndexRetry(indexWorker[w].n, Token(w))
  /\ UNCHANGED <<storeVars, query, lostWorkers>>

IndexWorkerStep(w) ==
  \/ TakeIndexJob(w) \/ TakeCleanupJob(w) \/ SettleQueues(w)
  \/ Guard(w) \/ Operate(w) \/ OperationFails(w) \/ CleanupFails(w) \/ Verify(w)
  \/ StageManifest(w) \/ PublishVersion(w) \/ FinishCleanup(w)
  \/ IndexHandleError(w) \/ SettleBuild(w)

IndexCrash(w) ==
  /\ indexWorker[w].at # "dead"
  /\ lostWorkers < MaxCrashes
  /\ lostWorkers' = lostWorkers + 1
  /\ indexWorker' = [indexWorker EXCEPT ![w] = DeadWorker]
  /\ UNCHANGED <<catalogVars, storeVars, query>>

-----------------------------------------------------------------------------
(* Queries *)

\* DocumentRetrievalScope.resolve
ResolveScope ==
  /\ query.at = "none"
  /\ doc.current # 0 /\ ~doc.deleted /\ ver[doc.current].status = "ready"
  /\ query' = [at |-> "scoped", n |-> doc.current]
  /\ UNCHANGED <<catalogVars, storeVars, indexWorker, lostWorkers>>

\* get_documents_by_ids: a chunk found only in PostgreSQL is put in the cache.
ReadParents ==
  /\ query.at = "scoped"
  /\ query' = IF ~pcache[query.n] /\ parents[query.n] THEN [query EXCEPT !.at = "filling"] ELSE NoQuery
  /\ UNCHANGED <<catalogVars, storeVars, indexWorker, lostWorkers>>

FillCache ==
  /\ query.at = "filling"
  /\ pcache' = [pcache EXCEPT ![query.n] = TRUE]
  /\ query' = NoQuery
  /\ UNCHANGED <<catalogVars, parents, vectors, object, indexWorker, lostWorkers>>

\* Redis drops an entry at the end of its time to live, or for lack of memory.
CacheExpires(n) ==
  /\ pcache[n]
  /\ pcache' = [pcache EXCEPT ![n] = FALSE]
  /\ UNCHANGED <<catalogVars, parents, vectors, object, indexWorker, query, lostWorkers>>

-----------------------------------------------------------------------------
(* The database clock *)

\* Heartbeats keep the lease of a running worker alive unless it stalls.
MayRunOut(row) == row.owner # None /\ (Stalling \/ indexWorker[row.owner].at = "dead")

LeaseRunsOut(n) ==
  \/ MayRunOut(docJob[n]) /\ IndexLeaseAges(n)
  \/ MayRunOut(cleanup[n]) /\ CleanupLeaseAges(n)

\* The hour of grace outlasts every query.
GraceEnds(n) == ~(query.n = n) /\ CleanupDue(n)

TimePasses ==
  /\ \E n \in Versions : LeaseRunsOut(n) \/ IndexRetryDue(n) \/ GraceEnds(n)
  /\ UNCHANGED <<storeVars, indexWorker, query, lostWorkers>>

IndexingNext ==
  \/ \E i \in Identities : UploadDocument(i)
  \/ DeleteDocument
  \/ \E w \in DocWorkers : IndexWorkerStep(w) \/ IndexCrash(w)
  \/ ResolveScope \/ ReadParents \/ FillCache
  \/ \E n \in Versions : CacheExpires(n)
  \/ TimePasses

IndexingSpec == IndexingInit /\ [][IndexingNext]_indexingVars

\* A live worker keeps polling and running, time passes, queries end.
IndexingFairness ==
  /\ \A w \in DocWorkers : WF_indexingVars(IndexWorkerStep(w))
  /\ WF_indexingVars(TimePasses)
  /\ WF_indexingVars(ReadParents) /\ WF_indexingVars(FillCache)

-----------------------------------------------------------------------------
(* Properties *)

Intact(n) == parents[n] /\ vectors[n] = 1

\* The current version of a document has its parent chunks and exactly one copy
\* of its vectors, whatever crashed attempts and superseded builds left behind
\* (the exact verification before record_manifest, and the guards).
CurrentIntact == doc.current # 0 => Intact(doc.current)

\* A query that resolved its scope before a newer version was published still
\* finds everything, until the document is deleted (the hour of grace).
QueriedScopeIntact == query.at = "scoped" /\ query.n \notin retired => Intact(query.n)

\* A version that can still be built or rebuilt keeps its uploaded object.
ObjectKept ==
  \A n \in Versions : ver[n].status \in ActiveVersionStatuses => object[n]

\* What can be queried, and what can still be built, is whole in every store.
IndexIsIntact == CurrentIntact /\ QueriedScopeIntact /\ ObjectKept

SomeoneWorks == \E w \in DocWorkers : indexWorker[w].at # "dead"

\* An accepted upload is published, failed or superseded in the end, as long as
\* some worker process lives (leases expire, retries come due, attempts are bounded).
UploadSettles ==
  [](SomeoneWorks) =>
    \A n \in Versions : (docJob[n].status \in LiveJobStatuses) ~> (docJob[n].status \in TerminalJobStatuses)

\* The cleanup of a version completes or is dead-lettered in the end, as long as
\* some worker process lives.
CleanupSettles ==
  [](SomeoneWorks) =>
    \A n \in Versions : (ver[n].status \in TerminalVersionStatuses)
                          ~> (cleanup[n].status \in {"completed", "dead_letter"})

---------------------------------------------------------------------------
(* Instances *)

\* Every worker runs the profile of every upload: a value for CanBuild.
AllBuild == DocWorkers \X Identities

\* Workers, and the profiles of uploads, are then interchangeable.
IndexingSymmetry == Permutations(DocWorkers) \cup Permutations(Identities)

=============================================================================
