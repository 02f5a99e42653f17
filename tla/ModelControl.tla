----------------------------- MODULE ModelControl -----------------------------
(* Model Profiles and role Assignments (backend/model_control): the repository's *)
(* transactions with their row locks, the seeding of environment defaults that   *)
(* the API process and the evaluation worker run when they start, and the Model  *)
(* Snapshots taken for Runs and Evaluation Jobs.                                 *)
EXTENDS Absence, Naturals, FiniteSets

CONSTANTS
    Profiles,       \* ids that create_profile may draw
    ModelAdmins,         \* concurrent administrator requests
    Starters,       \* starting processes
    Roles, Env,     \* the roles the environment names; the model it names for them
    Models,         \* model name with base URL
    ModelMaxVersion,     \* bound on edits of one profile
    MaxSnaps,       \* bound on snapshots
    ModelMaxCrashes,     \* bound on restarts of one process
    Taken,          \* an administrator's profile has the environment's display name
    Gone            \* a deleted row (an id is never drawn twice)

ASSUME ModelBounds == /\ Env \in Models /\ ModelMaxVersion \in Nat /\ MaxSnaps \in Nat
                      /\ Taken \in BOOLEAN /\ Roles \subseteq {"answer", "fast"}

Actors == ModelAdmins \cup Starters

(* MODEL_ROLE_REQUIREMENTS, for a profile's capabilities.                        *)
NeedsStream(r) == r = "answer"
NeedsStructured(r) == r = "fast"

(* What an edit may say; a capability no role needs is left TRUE.                *)
Capabilities == [stream : {"answer" \notin Roles, TRUE}, structured : {"fast" \notin Roles, TRUE}, enabled : BOOLEAN]

VARIABLES
    profile,    \* per id: its row, or None
    assigned,   \* per role: the profile of its row, or None
    rowLock,    \* per profile: the transaction holding FOR UPDATE
    roleLock,   \* per role: the transaction holding FOR UPDATE on the assignment
    txn,        \* per actor: its transaction
    seed,       \* per starting process: where ensure_environment_defaults is
    snapshots   \* what Runs and Jobs have frozen

modelVars == <<profile, assigned, rowLock, roleLock, txn, seed, snapshots>>

NoTxn == [op |-> "none"]
FreshSeed == [st |-> "start", todo |-> {}, target |-> None, name |-> "base", crashes |-> 0]

Exists(p) == profile[p] \notin {None, Gone}
AssignedTo(p) == {r \in Roles : assigned[r] = p}
UsedNames == {profile[p].name : p \in {q \in Profiles : Exists(q)}}
Unassigned == {r \in Roles : assigned[r] = None}

Row(model, name, cap) ==
    [model |-> model, name |-> name, version |-> 1,
     stream |-> cap.stream, structured |-> cap.structured, enabled |-> cap.enabled]
Able == [stream |-> TRUE, structured |-> TRUE, enabled |-> TRUE]

ModelInit ==
    /\ LET p == CHOOSE q \in Profiles : TRUE
           m == CHOOSE n \in Models : n # Env
       IN  profile = [q \in Profiles |-> IF Taken /\ q = p THEN Row(m, "base", Able) ELSE None]
    /\ assigned = [r \in Roles |-> None]
    /\ rowLock = [p \in Profiles |-> None] /\ roleLock = [r \in Roles |-> None]
    /\ txn = [a \in Actors |-> NoTxn]
    /\ seed = [s \in Starters |-> FreshSeed]
    /\ snapshots = {}

-----------------------------------------------------------------------------
(* Transactions.                                                                 *)

(* INSERT of a profile; the unique display name refuses a second one.            *)
Insert(p, model, name, cap) ==
    /\ profile[p] = None /\ name \notin UsedNames
    /\ profile' = [profile EXCEPT ![p] = Row(model, name, cap)]

(* Mutant: the profile is read without FOR UPDATE.                               *)
LockProfileNot(a, p) == Exists(p) /\ UNCHANGED rowLock

(* SELECT ... FOR UPDATE of an existing profile.                                 *)
LockProfile(a, p) == /\ Exists(p) /\ rowLock[p] = None
                     /\ rowLock' = [rowLock EXCEPT ![p] = a]

ModelRelease(a) ==
    /\ rowLock' = [p \in Profiles |-> IF rowLock[p] = a THEN None ELSE rowLock[p]]
    /\ roleLock' = [r \in Roles |-> IF roleLock[r] = a THEN None ELSE roleLock[r]]
    /\ txn' = [txn EXCEPT ![a] = NoTxn]

Fit(row, r) == row.enabled /\ (NeedsStream(r) => row.stream) /\ (NeedsStructured(r) => row.structured)

CreateProfile(a, p, m, cap) ==
    /\ txn[a] = NoTxn
    /\ Insert(p, m, "custom", cap)
    /\ UNCHANGED <<assigned, rowLock, roleLock, txn, seed, snapshots>>

(* update_profile: lock the profile, read its assignments ...                    *)
UpdateLock(a, p, m, cap) ==
    /\ txn[a] = NoTxn /\ LockProfile(a, p) /\ profile[p].version < ModelMaxVersion
    /\ txn' = [txn EXCEPT ![a] = [op |-> "update", p |-> p, m |-> m, cap |-> cap, roles |-> AssignedTo(p)]]
    /\ UNCHANGED <<profile, assigned, roleLock, seed, snapshots>>

Edited(row, t) == [row EXCEPT !.model = t.m, !.stream = t.cap.stream, !.version = @ + 1,
                              !.structured = t.cap.structured, !.enabled = t.cap.enabled]

(* ... refuse what an assigned role needs, and write.                            *)
UpdateCommit(a) ==
    LET t == txn[a]
    IN  /\ t.op = "update"
        /\ IF Exists(t.p) /\ \A r \in t.roles : Fit(t.cap, r)
           THEN profile' = [profile EXCEPT ![t.p] = Edited(@, t)]
           ELSE UNCHANGED profile
        /\ ModelRelease(a)
        /\ UNCHANGED <<assigned, seed, snapshots>>

DeleteLock(a, p) ==
    /\ txn[a] = NoTxn /\ LockProfile(a, p)
    /\ txn' = [txn EXCEPT ![a] = [op |-> "delete", p |-> p, roles |-> AssignedTo(p)]]
    /\ UNCHANGED <<profile, assigned, roleLock, seed, snapshots>>

(* The foreign key (RESTRICT) refuses a delete the check let by.                 *)
DeleteCommit(a) ==
    LET t == txn[a]
    IN  /\ t.op = "delete"
        /\ profile' = IF t.roles = {} /\ AssignedTo(t.p) = {} THEN [profile EXCEPT ![t.p] = Gone] ELSE profile
        /\ ModelRelease(a)
        /\ UNCHANGED <<assigned, seed, snapshots>>

(* assign: lock and check the profile, then lock the assignment's row if any.    *)
AssignLock(a, r, p) ==
    /\ txn[a] = NoTxn /\ LockProfile(a, p)
    /\ IF Fit(profile[p], r) THEN txn' = [txn EXCEPT ![a] = [op |-> "assign", p |-> p, role |-> r]]
       ELSE txn' = [txn EXCEPT ![a] = [op |-> "refused"]]
    /\ UNCHANGED <<profile, assigned, roleLock, snapshots>>

AssignSelect(a) ==
    LET t == txn[a]
    IN  /\ t.op = "assign" /\ roleLock[t.role] = None
        /\ roleLock' = IF assigned[t.role] = None THEN roleLock ELSE [roleLock EXCEPT ![t.role] = a]
        /\ txn' = [txn EXCEPT ![a] = [op |-> "write", p |-> t.p, role |-> t.role, insert |-> assigned[t.role] = None]]
        /\ UNCHANGED <<profile, assigned, rowLock, seed, snapshots>>

(* An INSERT loses against a row committed meanwhile; the profile must exist.    *)
AssignFails(a) ==
    \/ txn[a].op = "refused"
    \/ /\ txn[a].op = "write"
       /\ ~Exists(txn[a].p) \/ (txn[a].insert /\ assigned[txn[a].role] # None)

AssignWrite(a) ==
    /\ txn[a].op = "write" /\ ~AssignFails(a)
    /\ assigned' = [assigned EXCEPT ![txn[a].role] = txn[a].p]
    /\ ModelRelease(a)
    /\ UNCHANGED <<profile, snapshots>>

AssignAborts(a) ==
    /\ AssignFails(a)
    /\ ModelRelease(a)
    /\ UNCHANGED <<profile, assigned, snapshots>>

-----------------------------------------------------------------------------
(* ensure_environment_defaults of a starting process.                            *)

SeedRead(s) ==
    /\ seed[s].st = "start"
    /\ seed' = [seed EXCEPT ![s].st = IF Unassigned = {} THEN "ready" ELSE "find",
                            ![s].todo = Unassigned]
    /\ UNCHANGED <<profile, assigned, rowLock, roleLock, txn, snapshots>>

(* The roles are seeded in the order of role_models.                             *)
Current(s) == IF "answer" \in seed[s].todo THEN "answer" ELSE "fast"

Matching == {p \in Profiles : Exists(p) /\ profile[p].model = Env}

(* find_profile, in one of the orders the creation times may have.               *)
SeedFind(s) ==
    /\ seed[s].st = "find"
    /\ \/ \E p \in Matching : seed' = [seed EXCEPT ![s].st = "assign", ![s].target = p]
       \/ Matching = {} /\ seed' = [seed EXCEPT ![s].st = "name"]
    /\ UNCHANGED <<profile, assigned, rowLock, roleLock, txn, snapshots>>

(* _environment_display_name; the numbered variants of base · role are one name. *)
EnvironmentName(r) == IF "base" \notin UsedNames THEN "base" ELSE r

SeedName(s) ==
    /\ seed[s].st = "name"
    /\ seed' = [seed EXCEPT ![s].st = "create", ![s].name = EnvironmentName(Current(s))]
    /\ UNCHANGED <<profile, assigned, rowLock, roleLock, txn, snapshots>>

SeedCreate(s) ==
    /\ seed[s].st = "create"
    /\ \E p \in Profiles : /\ Insert(p, Env, seed[s].name, Able)
                           /\ seed' = [seed EXCEPT ![s].st = "assign", ![s].target = p]
    /\ UNCHANGED <<assigned, rowLock, roleLock, txn, snapshots>>

(* The name was taken meanwhile: the AppError ends the start.                    *)
SeedConflict(s) ==
    /\ seed[s].st = "create" /\ seed[s].name \in UsedNames
    /\ seed' = [seed EXCEPT ![s].st = "failed"]
    /\ UNCHANGED <<profile, assigned, rowLock, roleLock, txn, snapshots>>

SeedAssign(s) ==
    /\ seed[s].st = "assign"
    /\ \/ AssignLock(s, Current(s), seed[s].target) /\ UNCHANGED seed
       \/ /\ txn[s] = NoTxn /\ ~Exists(seed[s].target)
          /\ seed' = [seed EXCEPT ![s].st = "failed"]
          /\ UNCHANGED <<profile, assigned, rowLock, roleLock, txn, snapshots>>

SeedAssigned(s) ==
    LET left == seed[s].todo \ {txn[s].role}
    IN  /\ AssignWrite(s)
        /\ seed' = [seed EXCEPT ![s].st = IF left = {} THEN "ready" ELSE "find", ![s].todo = left]

SeedAssignFails(s) == AssignAborts(s) /\ seed' = [seed EXCEPT ![s].st = "failed"]

(* The process is started again by its supervisor.                               *)
StarterRestarts(s) ==
    /\ seed[s].st = "failed" /\ seed[s].crashes < ModelMaxCrashes
    /\ seed' = [seed EXCEPT ![s] = [FreshSeed EXCEPT !.crashes = seed[s].crashes + 1]]
    /\ UNCHANGED <<profile, assigned, rowLock, roleLock, txn, snapshots>>

(* runtime_snapshot: one statement joins assignments and profiles.               *)
Snapshot ==
    /\ Cardinality(snapshots) < MaxSnaps
    /\ \E r \in Roles : /\ assigned[r] # None
                        /\ snapshots' = snapshots \cup {[p |-> assigned[r], row |-> profile[assigned[r]]]}
    /\ UNCHANGED <<profile, assigned, rowLock, roleLock, txn, seed>>

AdminStep(a) ==
    \/ \E p \in Profiles, m \in Models, c \in Capabilities : CreateProfile(a, p, m, c) \/ UpdateLock(a, p, m, c)
    \/ \E p \in Profiles : DeleteLock(a, p)
    \/ \E p \in Profiles, r \in Roles : AssignLock(a, r, p) /\ UNCHANGED seed
    \/ UpdateCommit(a) \/ DeleteCommit(a) \/ AssignSelect(a)
    \/ (AssignWrite(a) \/ AssignAborts(a)) /\ UNCHANGED seed

SeedStep(s) ==
    \/ SeedRead(s) \/ SeedFind(s) \/ SeedName(s) \/ SeedCreate(s) \/ SeedConflict(s)
    \/ SeedAssign(s) \/ AssignSelect(s) \/ SeedAssigned(s) \/ SeedAssignFails(s) \/ StarterRestarts(s)

ModelNext == \/ \E a \in ModelAdmins : AdminStep(a)
             \/ \E s \in Starters : SeedStep(s)
             \/ Snapshot

ModelSpec == ModelInit /\ [][ModelNext]_modelVars

(* A process that starts keeps running; its supervisor starts it again.          *)
ModelFairness == \A s \in Starters : WF_modelVars(SeedStep(s))

-----------------------------------------------------------------------------
(* A role that is assigned has a profile that exists, is enabled and can do what *)
(* MODEL_ROLE_REQUIREMENTS asks, so a Run never starts with an unfit model, in   *)
(* whatever order edits, deletes, assignments and seeding are committed.         *)
AssignedIsFit == \A r \in Roles : assigned[r] # None => Exists(assigned[r]) /\ Fit(profile[assigned[r]], r)

(* The id and version in a Model Snapshot name one content: two snapshots with   *)
(* the same id and version froze the same configuration.                         *)
VersionNamesContent ==
    \A x, y \in snapshots : x.p = y.p /\ x.row.version = y.row.version =>
        [x.row EXCEPT !.name = "any"] = [y.row EXCEPT !.name = "any"]

(* A Run is started with a fit model, and its snapshot names what it ran with.   *)
ModelsAreFit == AssignedIsFit /\ VersionNamesContent

(* The API process and the evaluation worker, started at the same time on an     *)
(* empty database, both finish seeding, after restarts if they collide.          *)
StartersReady == \A s \in Starters : <>(seed[s].st = "ready")
=============================================================================
