-------------------------- MODULE DocumentCatalog --------------------------
(***************************************************************************)
(* One Document of the catalog: its pointers, its Document Versions, their *)
(* Index Jobs and their cleanup ledger.  Every operation of the class      *)
(* DocumentCatalog is one PostgreSQL transaction that holds the rows it    *)
(* touches FOR UPDATE, hence one action; a call the code refuses with an   *)
(* AppError changes nothing and is not enabled.                            *)
(*                                                                         *)
(* Callers are unconstrained: any worker may present any execution fence   *)
(* it was ever given, and the calls without an execution are possible too. *)
(* DocumentIndexing restricts them to what the indexing worker does.       *)
(*                                                                         *)
(* Time is abstract.  A time stamp is "null", "later" or "due" against the *)
(* database clock, and a lease passes from "fresh" over "ageing" to        *)
(* "expired".  A version is named by its version_number, 0 is SQL NULL.    *)
(* The version statuses parsing and indexing are one, "building": no       *)
(* condition of the code tells them apart.                                 *)
(***************************************************************************)
EXTENDS Absence, Naturals

CONSTANTS
  Identities,   \* (content_sha256, build_fingerprint) of an upload
  DocWorkers,      \* worker identities; a restarted process has a new one
  CanBuild,     \* the pairs (worker, identity) whose build fingerprints agree
  MaxVersions,  \* bound: uploads
  DocMaxAttempts,  \* max_attempts of index and cleanup jobs
  MaxClaims     \* bound: claims of one cleanup job, operator requeues included

ASSUME CatalogAssumption ==
  /\ None \notin DocWorkers
  /\ MaxVersions \in Nat
  /\ DocMaxAttempts \in Nat \ {0}
  /\ MaxClaims \in Nat

VARIABLES
  doc,       \* the documents row
  ver,       \* document_versions
  docJob,       \* index_jobs
  cleanup,   \* document_cleanup_jobs
  retired    \* version ids in the document_retirement_jobs snapshots

catalogVars == <<doc, ver, docJob, cleanup, retired>>

Versions == 1..MaxVersions

CandidateStatuses == {"uploaded", "building", "staged"}
ActiveVersionStatuses == CandidateStatuses \cup {"ready"}
TerminalVersionStatuses == {"failed", "superseded"}

LiveJobStatuses == {"pending", "running", "retry_wait", "staged"}
TerminalJobStatuses == {"completed", "failed", "cancelled", "dead_letter"}

CleanupStatuses == {"pending", "running", "retry_wait", "completed", "dead_letter"}

Stamps == {"null", "later", "due"}
Leases == {"none", "fresh", "ageing", "expired"}
LiveLeases == {"fresh", "ageing"}

Document == [status : {"absent", "indexing", "updating", "ready", "failed", "deleted"},
             current : 0..MaxVersions, pending : 0..MaxVersions,
             fence : Nat, counter : 0..MaxVersions, deleted : BOOLEAN]

Version == [status : ActiveVersionStatuses \cup TerminalVersionStatuses \cup {"absent"},
            identity : Identities \cup {None}, manifest : BOOLEAN,
            cleanup : Stamps, cleaned : BOOLEAN, published : BOOLEAN]

IndexJob == [status : LiveJobStatuses \cup TerminalJobStatuses \cup {"absent"},
             fence : Nat, expected : 0..MaxVersions, owner : DocWorkers \cup {None},
             lease : Leases, xfence : Nat, attempts : Nat, retry : Stamps]

CleanupJob == [status : CleanupStatuses \cup {"absent"}, owner : DocWorkers \cup {None},
               lease : Leases, xfence : Nat, attempts : Nat, retry : Stamps]

\* What a worker presents with its writes; NoExecution is execution=None.
NoExecution == [worker |-> None, fence |-> 0]

AbsentDocument == [status |-> "absent", current |-> 0, pending |-> 0,
                   fence |-> 0, counter |-> 0, deleted |-> FALSE]

AbsentVersion == [status |-> "absent", identity |-> None, manifest |-> FALSE,
                  cleanup |-> "null", cleaned |-> FALSE, published |-> FALSE]

DocAbsentJob == [status |-> "absent", fence |-> 0, expected |-> 0, owner |-> None,
              lease |-> "none", xfence |-> 0, attempts |-> 0, retry |-> "null"]

AbsentCleanup == [status |-> "absent", owner |-> None, lease |-> "none",
                  xfence |-> 0, attempts |-> 0, retry |-> "null"]

CatalogInit ==
  /\ doc = AbsentDocument
  /\ ver = [n \in Versions |-> AbsentVersion]
  /\ docJob = [n \in Versions |-> DocAbsentJob]
  /\ cleanup = [n \in Versions |-> AbsentCleanup]
  /\ retired = {}

-----------------------------------------------------------------------------
(* Guards shared by the operations *)

Holds(row, e) ==
  /\ row.owner = e.worker
  /\ row.xfence = e.fence
  /\ row.lease \in LiveLeases

MayWrite(n, e) ==
  IF e = NoExecution THEN docJob[n].owner = None ELSE Holds(docJob[n], e)

MayClean(n, e) == cleanup[n].status = "running" /\ Holds(cleanup[n], e)

IsCandidate(n) ==
  /\ docJob[n].status \in LiveJobStatuses
  /\ docJob[n].fence = doc.fence
  /\ doc.pending = n
  /\ ~doc.deleted

Unreferenced(n) ==
  /\ ver[n].status \in TerminalVersionStatuses
  /\ n \notin {doc.current, doc.pending}

-----------------------------------------------------------------------------
(* The effects the operations share *)

NewCleanup(stamp) == [AbsentCleanup EXCEPT !.status = "pending", !.retry = stamp]

\* Faulty variant: no ledger row for a version that never had one.
EnsuredCleanupIfAny(n, stamp) == cleanup[n]

EnsuredCleanup(n, stamp) ==
  IF cleanup[n].status = "absent" THEN NewCleanup(stamp)
  ELSE IF /\ cleanup[n].status \in {"pending", "retry_wait"}
          /\ cleanup[n].retry = "null" \/ (stamp = "due" /\ cleanup[n].retry = "later")
       THEN [cleanup[n] EXCEPT !.retry = stamp]
       ELSE cleanup[n]

Enqueued(S, stamp) ==
  [n \in Versions |-> IF n \in S THEN EnsuredCleanup(n, stamp) ELSE cleanup[n]]

Superseded(S, stamp) ==
  [n \in Versions |->
     IF n \in S THEN [ver[n] EXCEPT !.status = "superseded", !.cleanup = stamp] ELSE ver[n]]

DocCancelled(S) ==
  [n \in Versions |->
     IF n \in S /\ docJob[n].status \in LiveJobStatuses
     THEN [docJob[n] EXCEPT !.status = "cancelled", !.owner = None, !.lease = "none"]
     ELSE docJob[n]]

FailedVersion(n) ==
  [ver[n] EXCEPT !.status = "failed", !.cleanup = "due", !.cleaned = FALSE]

WithoutPending ==
  [doc EXCEPT !.pending = 0, !.status = IF doc.current = 0 THEN "failed" ELSE "ready"]

\* The common end of _fail_locked, _dead_letter_locked and update_job's dead_letter.
Terminated(n, status, retry) ==
  LET active == doc.pending = n /\ doc.fence = docJob[n].fence IN
  /\ docJob' = [docJob EXCEPT ![n] = [@ EXCEPT !.status = status, !.owner = None,
                                        !.lease = "none", !.retry = retry]]
  /\ ver' = IF active \/ ver[n].status # "superseded"
            THEN [ver EXCEPT ![n] = FailedVersion(n)] ELSE ver
  /\ doc' = IF active THEN WithoutPending ELSE doc
  /\ cleanup' = Enqueued({n}, "due")
  /\ UNCHANGED retired

-----------------------------------------------------------------------------
(* Upload and publication *)

\* The upload is the current version already.
ReusesCurrent(i) == doc.current # 0 /\ ver[doc.current].identity = i

\* The upload is being built already.
ReusesPending(i) ==
  /\ doc.pending # 0
  /\ ver[doc.pending].identity = i
  /\ ver[doc.pending].status \in ActiveVersionStatuses
  /\ docJob[doc.pending].fence = doc.fence
  /\ docJob[doc.pending].status \in LiveJobStatuses \cup {"completed"}

OrphanedActive(i) ==
  \E n \in Versions \ {doc.current, doc.pending} :
    ver[n].identity = i /\ ver[n].status \in ActiveVersionStatuses

NewVersion(i) == doc.counter + 1

UploadedVersion(i) == [AbsentVersion EXCEPT !.status = "uploaded", !.identity = i]

PendingJob(fence) ==
  [DocAbsentJob EXCEPT !.status = "pending", !.fence = fence, !.expected = doc.current]

ReserveUpload(i) ==
  LET n == NewVersion(i) IN
  /\ ~ReusesCurrent(i) /\ ~ReusesPending(i) /\ ~OrphanedActive(i)
  /\ doc.counter < MaxVersions
  /\ doc' = [doc EXCEPT !.counter = @ + 1, !.fence = @ + 1, !.pending = n, !.deleted = FALSE,
                        !.status = IF doc.current = 0 THEN "indexing" ELSE "updating"]
  /\ ver' = [Superseded({doc.pending}, "due") EXCEPT ![n] = UploadedVersion(i)]
  /\ docJob' = [DocCancelled({doc.pending}) EXCEPT ![n] = PendingJob(doc.fence + 1)]
  /\ cleanup' = Enqueued({doc.pending}, "due")
  /\ UNCHANGED retired

RecordManifest(n, e) ==
  /\ MayWrite(n, e)
  /\ IsCandidate(n)
  /\ ver' = [ver EXCEPT ![n] = [@ EXCEPT !.status = "staged", !.manifest = TRUE]]
  /\ docJob' = [docJob EXCEPT ![n] = [@ EXCEPT !.status = "staged"]]
  /\ UNCHANGED <<doc, cleanup, retired>>

\* publish's checks up to its compare-and-set on the documents row.
Publishable(n, e) ==
  /\ MayWrite(n, e)
  /\ IsCandidate(n)
  /\ ver[n].status = "staged" /\ ver[n].manifest
  /\ doc.current = docJob[n].expected

PublishedVersion(n) ==
  [ver[n] EXCEPT !.status = "ready", !.published = TRUE, !.cleanup = "null", !.cleaned = FALSE]

\* Faulty variant: the replaced version may be cleaned at once.
NoGrace == "due"

\* _VERSION_REPLACEMENT_CLEANUP_GRACE: the replaced version is due an hour later.
ReplacementStamp == "later"

Publish(n, e) ==
  /\ Publishable(n, e)
  /\ doc' = [doc EXCEPT !.current = n, !.pending = 0, !.status = "ready"]
  /\ ver' = [Superseded({doc.current}, ReplacementStamp) EXCEPT ![n] = PublishedVersion(n)]
  /\ docJob' = [docJob EXCEPT ![n] = [@ EXCEPT !.status = "completed", !.owner = None,
                                        !.lease = "none", !.retry = "null"]]
  /\ cleanup' = Enqueued({doc.current}, ReplacementStamp)
  /\ UNCHANGED retired

-----------------------------------------------------------------------------
(* Index jobs *)

Fail(n, e) ==
  /\ MayWrite(n, e)
  /\ docJob[n].status \in LiveJobStatuses
  /\ Terminated(n, "failed", docJob[n].retry)

DeadLetterIndexJob(n, e) ==
  /\ e # NoExecution
  /\ MayWrite(n, e)
  /\ docJob[n].status \in LiveJobStatuses
  /\ Terminated(n, "dead_letter", "null")

\* _JOB_TRANSITIONS, without the terminal targets.
JobTransitions == [pending    |-> {"pending", "running", "retry_wait"},
                   running    |-> {"running", "retry_wait", "staged"},
                   retry_wait |-> {"retry_wait", "pending", "running"},
                   staged     |-> {"staged"}]

UpdateJob(n, e, target) ==
  /\ MayWrite(n, e)
  /\ IsCandidate(n)
  /\ target \in JobTransitions[docJob[n].status]
  /\ target = "staged" => ver[n].status = "staged"
  /\ docJob' = [docJob EXCEPT ![n] = [@ EXCEPT !.status = target]]
  /\ ver' = IF target = "running" THEN [ver EXCEPT ![n] = [@ EXCEPT !.status = "building"]]
            ELSE ver
  /\ UNCHANGED <<doc, cleanup, retired>>

\* update_job(status=cancelled).
CancelIndexJob(n, e) ==
  /\ MayWrite(n, e)
  /\ IsCandidate(n)
  /\ docJob' = DocCancelled({n})
  /\ ver' = Superseded({n}, "due")
  /\ doc' = WithoutPending
  /\ cleanup' = Enqueued({n}, "due")
  /\ UNCHANGED retired

\* update_job(status=dead_letter); pending and staged jobs do not allow it.
DeadLetterByUpdate(n, e) ==
  /\ MayWrite(n, e)
  /\ IsCandidate(n)
  /\ docJob[n].status \in {"running", "retry_wait"}
  /\ Terminated(n, "dead_letter", docJob[n].retry)

\* Faulty variant: only a row without an owner is free.
Unowned(row) == row.owner = None

Unleased(row) == row.owner = None \/ row.lease \in {"none", "expired"}

IndexReady(n, w) ==
  /\ docJob[n].status = "staged" \/ <<w, ver[n].identity>> \in CanBuild
  /\ \/ docJob[n].status \in {"pending", "running"}
     \/ docJob[n].status = "retry_wait" /\ docJob[n].retry = "due"
     \/ docJob[n].status = "staged" /\ docJob[n].retry # "later"
  /\ Unleased(docJob[n])

OwnsIndexJob(w) ==
  \E n \in Versions : /\ docJob[n].owner = w
                      /\ docJob[n].status \in {"running", "staged"}
                      /\ docJob[n].lease \in LiveLeases

\* A claim of a worker that still holds a live lease returns that job.
ResumeIndexJob(n, w) ==
  /\ docJob[n].owner = w /\ docJob[n].status \in {"running", "staged"} /\ docJob[n].lease \in LiveLeases
  /\ docJob[n].status = "staged" \/ <<w, ver[n].identity>> \in CanBuild
  /\ docJob' = [docJob EXCEPT ![n] = [@ EXCEPT !.lease = "fresh"]]
  /\ UNCHANGED <<doc, ver, cleanup, retired>>

CandidateOwned(n) ==
  /\ ~doc.deleted
  /\ doc.pending = n
  /\ doc.fence = docJob[n].fence
  /\ ver[n].status \in ActiveVersionStatuses

\* A worker that died with a staged candidate costs no attempt of the build.
StagedCrashRecovery(n) ==
  /\ docJob[n].status = "staged"
  /\ docJob[n].attempts = DocMaxAttempts
  /\ docJob[n].retry = "null"

Exhausted(n) == docJob[n].attempts >= DocMaxAttempts /\ ~StagedCrashRecovery(n)

DocClaimedJob(n, w) ==
  [docJob[n] EXCEPT !.status = IF @ = "staged" THEN "staged" ELSE "running",
                 !.owner = w, !.xfence = @ + 1, !.attempts = @ + 1,
                 !.lease = "fresh", !.retry = "null"]

\* The claim loop's iterations over other documents touch none of these rows,
\* and of one document at most one job is live (LiveJobIsPending).
ClaimIndexJob(n, w) ==
  /\ ~OwnsIndexJob(w)
  /\ IndexReady(n, w)
  /\ CandidateOwned(n)
  /\ ~Exhausted(n)
  /\ docJob' = [docJob EXCEPT ![n] = DocClaimedJob(n, w)]
  /\ ver' = IF docJob[n].status = "staged" THEN ver
            ELSE [ver EXCEPT ![n] = [@ EXCEPT !.status = "building"]]
  /\ UNCHANGED <<doc, cleanup, retired>>

\* What the claim loop does with a ready job it must not hand out: it cancels
\* one whose version lost the candidacy and dead-letters an exhausted one.
SettleIndexJob(n, w) ==
  /\ ~OwnsIndexJob(w)
  /\ IndexReady(n, w)
  /\ ~CandidateOwned(n) \/ Exhausted(n)
  /\ IF CandidateOwned(n)
     THEN Terminated(n, "dead_letter", "null")
     ELSE LET lost == IF n # doc.current /\ ver[n].status \in ActiveVersionStatuses
                      THEN {n} ELSE {} IN
          /\ docJob' = DocCancelled({n})
          /\ ver' = Superseded(lost, "due")
          /\ cleanup' = Enqueued(lost, "due")
          /\ UNCHANGED <<doc, retired>>

HeartbeatIndexJob(n, e) ==
  /\ e # NoExecution
  /\ MayWrite(n, e)
  /\ IsCandidate(n)
  /\ docJob' = [docJob EXCEPT ![n] = [@ EXCEPT !.lease = "fresh"]]
  /\ UNCHANGED <<doc, ver, cleanup, retired>>

ScheduleIndexRetry(n, e) ==
  /\ e # NoExecution
  /\ MayWrite(n, e)
  /\ IsCandidate(n)
  /\ IF docJob[n].attempts >= DocMaxAttempts
     THEN Terminated(n, "dead_letter", "null")
     ELSE /\ docJob' = [docJob EXCEPT ![n] =
                       [@ EXCEPT !.status = IF docJob[n].status = "staged" THEN "staged" ELSE "retry_wait",
                                 !.retry = "later", !.owner = None, !.lease = "none"]]
          /\ UNCHANGED <<doc, ver, cleanup, retired>>

-----------------------------------------------------------------------------
(* Deletion of the document *)

Retire ==
  LET S == {doc.current, doc.pending} \ {0} IN
  /\ doc.status # "absent"
  /\ ~doc.deleted
  /\ doc' = [doc EXCEPT !.current = 0, !.pending = 0, !.fence = @ + 1,
                        !.status = "deleted", !.deleted = TRUE]
  /\ ver' = Superseded(S, "due")
  /\ docJob' = DocCancelled({doc.pending})
  /\ cleanup' = Enqueued(S, "due")
  /\ retired' = retired \cup S

Uncleaned == {n \in Versions : ver[n].status \in TerminalVersionStatuses /\ ~ver[n].cleaned}

\* A repeated delete: every version not yet cleaned joins the new snapshot, and
\* those whose cleanup has not begun lose their grace.
RetireAgain ==
  LET waiting == {n \in Uncleaned : cleanup[n].status \in {"absent", "pending"}} IN
  /\ doc.deleted
  /\ ver' = [n \in Versions |->
               IF n \in waiting THEN [ver[n] EXCEPT !.cleanup = "due"] ELSE ver[n]]
  /\ cleanup' = Enqueued(waiting, "due")
  /\ retired' = retired \cup Uncleaned
  /\ UNCHANGED <<doc, docJob>>

-----------------------------------------------------------------------------
(* Cleanup jobs *)

CleanupReady(n) ==
  /\ \/ cleanup[n].status = "pending" /\ cleanup[n].retry # "later" /\ cleanup[n].owner = None
     \/ cleanup[n].status = "retry_wait" /\ cleanup[n].retry = "due" /\ cleanup[n].owner = None
     \/ cleanup[n].status = "running" /\ Unleased(cleanup[n])
  /\ ver[n].cleanup = "due"
  /\ ~ver[n].cleaned

OwnsCleanupJob(w) ==
  \E n \in Versions : cleanup[n].status = "running" /\ cleanup[n].owner = w
                      /\ cleanup[n].lease \in LiveLeases

ResumeCleanupJob(n, w) ==
  /\ cleanup[n].status = "running" /\ cleanup[n].owner = w /\ cleanup[n].lease \in LiveLeases
  /\ cleanup' = [cleanup EXCEPT ![n] = [@ EXCEPT !.lease = "fresh"]]
  /\ UNCHANGED <<doc, ver, docJob, retired>>

Cleanable(n) == Unreferenced(n) /\ cleanup[n].attempts < DocMaxAttempts

DeadCleanup(n) ==
  [cleanup[n] EXCEPT !.status = "dead_letter", !.owner = None, !.lease = "none", !.retry = "null"]

ClaimedCleanup(n, w) ==
  [cleanup[n] EXCEPT !.status = "running", !.owner = w, !.xfence = @ + 1,
                     !.attempts = @ + 1, !.lease = "fresh", !.retry = "null"]

\* One call dead-letters the ready jobs S it meets first and hands out n.
\* SKIP LOCKED hides any other ready job from it.
ClaimCleanupJob(n, w, S) ==
  /\ ~OwnsCleanupJob(w)
  /\ \A m \in S : CleanupReady(m) /\ ~Cleanable(m)
  /\ CleanupReady(n) /\ Cleanable(n)
  /\ cleanup[n].xfence < MaxClaims
  /\ cleanup' = [m \in Versions |-> IF m = n THEN ClaimedCleanup(n, w)
                                    ELSE IF m \in S THEN DeadCleanup(m) ELSE cleanup[m]]
  /\ UNCHANGED <<doc, ver, docJob, retired>>

\* A claim that finds only jobs to dead-letter.
SettleCleanupJobs(w, S) ==
  /\ ~OwnsCleanupJob(w)
  /\ S # {}
  /\ \A m \in S : CleanupReady(m) /\ ~Cleanable(m)
  /\ cleanup' = [m \in Versions |-> IF m \in S THEN DeadCleanup(m) ELSE cleanup[m]]
  /\ UNCHANGED <<doc, ver, docJob, retired>>

HeartbeatCleanupJob(n, e) ==
  /\ MayClean(n, e)
  /\ cleanup' = [cleanup EXCEPT ![n] = [@ EXCEPT !.lease = "fresh"]]
  /\ UNCHANGED <<doc, ver, docJob, retired>>

ScheduleCleanupRetry(n, e) ==
  /\ MayClean(n, e)
  /\ cleanup' = [cleanup EXCEPT ![n] =
                   IF cleanup[n].attempts >= DocMaxAttempts THEN DeadCleanup(n)
                   ELSE [@ EXCEPT !.status = "retry_wait", !.retry = "later",
                                  !.owner = None, !.lease = "none"]]
  /\ UNCHANGED <<doc, ver, docJob, retired>>

DeadLetterCleanupJob(n, e) ==
  /\ MayClean(n, e)
  /\ cleanup' = [cleanup EXCEPT ![n] = DeadCleanup(n)]
  /\ UNCHANGED <<doc, ver, docJob, retired>>

CompletedCleanup(n) ==
  [cleanup[n] EXCEPT !.status = "completed", !.owner = None, !.lease = "none", !.retry = "null"]

Finalized(n) ==
  /\ ver' = [ver EXCEPT ![n] = [@ EXCEPT !.cleaned = TRUE]]
  /\ cleanup' = [cleanup EXCEPT ![n] = CompletedCleanup(n)]
  /\ UNCHANGED <<doc, docJob, retired>>

CompleteCleanupJob(n, e) ==
  /\ MayClean(n, e)
  /\ Unreferenced(n)
  /\ Finalized(n)

\* record_cleanup without an error: the ledger of a cleanup no worker claimed.
RecordCleanup(n) ==
  /\ Unreferenced(n)
  /\ cleanup[n].status \in {"pending", "retry_wait"}
  /\ Finalized(n)

RequeueCleanupJob(n) ==
  /\ cleanup[n].status = "dead_letter"
  /\ Unreferenced(n) /\ ~ver[n].cleaned
  /\ cleanup' = [cleanup EXCEPT ![n] = [@ EXCEPT !.status = "pending", !.attempts = 0,
                                                !.owner = None, !.lease = "none", !.retry = "due"]]
  /\ UNCHANGED <<doc, ver, docJob, retired>>

-----------------------------------------------------------------------------
(* The database clock *)

DocOlder(lease) == IF lease = "fresh" THEN "ageing" ELSE "expired"

IndexLeaseAges(n) ==
  /\ docJob[n].lease \in LiveLeases
  /\ docJob' = [docJob EXCEPT ![n] = [@ EXCEPT !.lease = DocOlder(docJob[n].lease)]]
  /\ UNCHANGED <<doc, ver, cleanup, retired>>

CleanupLeaseAges(n) ==
  /\ cleanup[n].lease \in LiveLeases
  /\ cleanup' = [cleanup EXCEPT ![n] = [@ EXCEPT !.lease = DocOlder(cleanup[n].lease)]]
  /\ UNCHANGED <<doc, ver, docJob, retired>>

IndexRetryDue(n) ==
  /\ docJob[n].retry = "later"
  /\ docJob' = [docJob EXCEPT ![n] = [@ EXCEPT !.retry = "due"]]
  /\ UNCHANGED <<doc, ver, cleanup, retired>>

\* next_retry_at of a ledger row and cleanup_after of its version are set to the
\* same instant when the row is created, so the hour ends for both at once.
CleanupDue(n) ==
  /\ cleanup[n].retry = "later"
  /\ cleanup' = [cleanup EXCEPT ![n] = [@ EXCEPT !.retry = "due"]]
  /\ ver' = [ver EXCEPT ![n] = [@ EXCEPT !.cleanup = "due"]]
  /\ UNCHANGED <<doc, docJob, retired>>

Clock ==
  \E n \in Versions : \/ IndexLeaseAges(n)
                      \/ CleanupLeaseAges(n)
                      \/ IndexRetryDue(n)
                      \/ CleanupDue(n)

-----------------------------------------------------------------------------
(* Any caller *)

\* The executions a caller may present for a row: every token ever given for it.
Tokens(row) == [worker : DocWorkers, fence : 1..row.xfence] \cup {NoExecution}

IndexCall ==
  \E n \in Versions : \E e \in Tokens(docJob[n]) :
    \/ RecordManifest(n, e)
    \/ Publish(n, e)
    \/ Fail(n, e)
    \/ DeadLetterIndexJob(n, e)
    \/ \E target \in LiveJobStatuses : UpdateJob(n, e, target)
    \/ CancelIndexJob(n, e)
    \/ DeadLetterByUpdate(n, e)
    \/ HeartbeatIndexJob(n, e)
    \/ ScheduleIndexRetry(n, e)

CleanupCall ==
  \E n \in Versions : \E e \in Tokens(cleanup[n]) :
    \/ HeartbeatCleanupJob(n, e)
    \/ ScheduleCleanupRetry(n, e)
    \/ DeadLetterCleanupJob(n, e)
    \/ CompleteCleanupJob(n, e)

WorkerClaim ==
  \E w \in DocWorkers, n \in Versions :
    \/ ClaimIndexJob(n, w)
    \/ SettleIndexJob(n, w)
    \/ ResumeIndexJob(n, w)
    \/ ResumeCleanupJob(n, w)
    \/ \E S \in SUBSET (Versions \ {n}) : ClaimCleanupJob(n, w, S)

WorkerSettles == \E w \in DocWorkers, S \in SUBSET Versions : SettleCleanupJobs(w, S)

OperatorCall == \E n \in Versions : RecordCleanup(n) \/ RequeueCleanupJob(n)

CatalogNext ==
  \/ \E i \in Identities : ReserveUpload(i)
  \/ IndexCall
  \/ WorkerClaim
  \/ WorkerSettles
  \/ CleanupCall
  \/ OperatorCall
  \/ Retire
  \/ RetireAgain
  \/ Clock

CatalogSpec == CatalogInit /\ [][CatalogNext]_catalogVars

-----------------------------------------------------------------------------
(* Properties *)

\* Every column of the five tables holds a value of its type.
CatalogTypeOK ==
  /\ doc \in Document
  /\ ver \in [Versions -> Version]
  /\ docJob \in [Versions -> IndexJob]
  /\ cleanup \in [Versions -> CleanupJob]
  /\ retired \in SUBSET Versions

\* An unfinished Index Job belongs to the document's pending version, carries
\* the document's publication fence and expects its current version; a pending
\* version always has such a job.  The branches of claim_index_job, fail and
\* publish for a job that lost its candidacy are never needed.
LiveJobIsPending ==
  /\ \A n \in Versions : docJob[n].status \in LiveJobStatuses =>
       /\ doc.pending = n
       /\ docJob[n].fence = doc.fence
       /\ docJob[n].expected = doc.current
       /\ ver[n].status \in CandidateStatuses
       /\ ~doc.deleted
  /\ doc.pending # 0 => docJob[doc.pending].status \in LiveJobStatuses

\* The pointers tell a version's status: ready is the current version, verified
\* and published; uploaded, building and staged is the pending one; and the
\* document's status says which of the two pointers are set.
PointersTellStatus ==
  /\ \A n \in Versions :
       /\ ver[n].status = "ready" <=> n = doc.current
       /\ ver[n].status \in CandidateStatuses <=> n = doc.pending
       /\ n = doc.current => ver[n].manifest /\ ver[n].published
                             /\ docJob[n].status = "completed"
  /\ doc.status = "updating" <=> doc.current # 0 /\ doc.pending # 0
  /\ doc.status = "indexing" <=> doc.current = 0 /\ doc.pending # 0
  /\ doc.status = "ready" <=> doc.current # 0 /\ doc.pending = 0
  /\ doc.status = "deleted" <=> doc.deleted

\* The cleanup ledger has a row for exactly the failed and superseded versions,
\* and a version is marked cleaned exactly when its row is completed: neither
\* current nor pending is ever finalized as cleaned, and no dead version is lost.
LedgerIsComplete ==
  \A n \in Versions :
    /\ cleanup[n].status # "absent" <=> ver[n].status \in TerminalVersionStatuses
    /\ ver[n].cleaned <=> cleanup[n].status = "completed"

\* Only a version that a publication replaced waits for the grace hour, no
\* worker claims its cleanup meanwhile, and a version in a deletion's snapshot
\* never waits (docs/adr/0015, docs/adr/0016).
GraceOnlyForReplaced ==
  \A n \in Versions :
    /\ ver[n].cleanup = "later" =>
         ver[n].published /\ n \notin retired /\ cleanup[n].xfence = 0
    /\ n \in retired => ver[n].cleanup = "due"
    /\ ver[n].cleanup = "null" <=> ver[n].status \notin TerminalVersionStatuses

\* The rows of a document agree: pointers, versions, index jobs and the cleanup
\* ledger, in whatever order uploads, publications, failures, deletions and
\* cleanups commit.
CatalogIsSound == CatalogTypeOK /\ LiveJobIsPending /\ PointersTellStatus /\ LedgerIsComplete /\ GraceOnlyForReplaced

=============================================================================
