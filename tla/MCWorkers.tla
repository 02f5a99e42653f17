------------------------------ MODULE MCWorkers ------------------------------
(* The processes and threads behind the API: the document catalog and its      *)
(* index workers, evaluation workers, starting processes that seed the model   *)
(* profiles, sandbox executions and SQL requests.  A behaviour runs one of     *)
(* them and leaves the others at rest; part says which.                        *)
EXTENDS DocumentIndexing, EvaluationJobs, ModelControl, Sandbox, SqlAssistant

CONSTANT Parts      \* the components to run

VARIABLE part

\* Components at rest: finished, with nothing left to do.
IndexingRest ==
  /\ CatalogInit /\ indexWorker = [w \in DocWorkers |-> DeadWorker]
  /\ parents = [n \in Versions |-> FALSE] /\ pcache = parents /\ object = parents
  /\ vectors = [n \in Versions |-> 0] /\ query = NoQuery /\ lostWorkers = 0
EvalRest ==
  /\ evalJob = [j \in Jobs |-> EvalAbsentJob] /\ cases = [j \in Jobs |-> [c \in Cases |-> "queued"]]
  /\ evalWorker = [w \in EvalWorkers |-> [IdleEvaluator EXCEPT !.at = "stopped"]]
  /\ failures = 0 /\ lostReplies = 0
ModelRest ==
  /\ profile = [q \in Profiles |-> None] /\ assigned = [r \in Roles |-> None]
  /\ rowLock = [q \in Profiles |-> None] /\ roleLock = [r \in Roles |-> None]
  /\ txn = [a \in Actors |-> NoTxn] /\ snapshots = {}
  /\ seed = [s \in Starters |-> [FreshSeed EXCEPT !.st = "ready"]]
SqlRest ==
  /\ db = [r \in Tables |-> "valid"] /\ role = TRUE /\ extra = FALSE /\ changes = 0
  /\ clock = 0 /\ owner = "closed" /\ pool = "closed" /\ catalog = None /\ catLock = None
  /\ sqlReq = [t \in SqlThreads |-> NoRequest]

MCInit ==
  /\ part \in Parts
  /\ IF part = "indexing" THEN IndexingInit ELSE IndexingRest
  /\ IF part = "evaluation" THEN EvalInit ELSE EvalRest
  /\ BoxInit
  /\ IF part = "model" THEN ModelInit ELSE ModelRest
  /\ IF part = "sql" THEN SqlInit ELSE SqlRest

OnlyPart(p) ==
  /\ part = p /\ UNCHANGED part
  /\ IF p \in {"catalog", "indexing"} THEN TRUE ELSE UNCHANGED catalogVars
  /\ IF p = "indexing" THEN TRUE ELSE UNCHANGED <<storeVars, indexWorker, query, lostWorkers>>
  /\ IF p = "evaluation" THEN TRUE ELSE UNCHANGED evalVars
  /\ IF p = "model" THEN TRUE ELSE UNCHANGED modelVars
  /\ IF p = "box" THEN TRUE ELSE UNCHANGED boxVars
  /\ IF p = "sql" THEN TRUE ELSE UNCHANGED sqlVars

MCNext ==
  \/ OnlyPart("catalog") /\ CatalogNext
  \/ OnlyPart("indexing") /\ IndexingNext
  \/ OnlyPart("evaluation") /\ EvalNext
  \/ OnlyPart("model") /\ ModelNext
  \/ OnlyPart("box") /\ BoxNext
  \/ OnlyPart("sql") /\ SqlNext

MCvars == <<part, indexingVars, evalVars, modelVars, boxVars, sqlVars>>
MCSpec == MCInit /\ [][MCNext]_MCvars

\* The fairness each component justifies.
MCFairSpec ==
  MCSpec /\ IndexingFairness /\ EvalFairness /\ ModelFairness /\ BoxFairness /\ SqlFairness

\* Identities, jobs, evaluation workers and threads are interchangeable, so the first
\* upload, job, claim and request are fixed; a job is run with at most one fault; a
\* second job, compared with the first, meets none, a
\* second request finds the catalog of the first, and the cleanup of later versions
\* is claimed once, or not at all beside a second claim of the first.
\* Two snapshots are compared as soon as the second is taken.
Bounds ==
  /\ \A n \in Versions \ {1} : cleanup[n].xfence < 2 /\ (cleanup[n].xfence = 1 => cleanup[1].xfence < 2)
  /\ Cardinality(snapshots) < 2
  /\ failures + lostReplies <= 1
  /\ LET first == CHOOSE w \in EvalWorkers : TRUE IN
     \A j \in Jobs, w \in EvalWorkers \ {first} : evalJob[j].owner = w => evalJob[j].fence > 1
  /\ ver[1].identity \in {None, CHOOSE i \in Identities : TRUE}
  /\ \A j \in Jobs : LET first == CHOOSE k \in Jobs : TRUE IN
       (j # first /\ evalJob[j].status # "absent") =>
          evalJob[first].status = "succeeded" /\ failures = 0 /\ lostReplies = 0
  /\ \A t \in SqlThreads : LET first == CHOOSE u \in SqlThreads : TRUE IN
       (t # first /\ sqlReq[t].pc # "idle") => sqlReq[first].pc = "done" /\ sqlReq[first].out = "tables"

\* Background work ends although workers die: uploads and cleanups settle, jobs end,
\* starting processes become ready, closes return and SQL requests end.
WorkersSettle ==
  /\ UploadSettles /\ CleanupSettles /\ EveryJobEnds
  /\ StartersReady /\ CloseReturns /\ RequestEnds
=============================================================================
