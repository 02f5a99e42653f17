------------------------------ MODULE WorkersProofs ------------------------------
(***************************************************************************)
(* The sandbox, for any number of worker threads, permits, executions and  *)
(* restarts: permits and executions are counted exactly, and nothing the   *)
(* process created is lost sight of.                                       *)
(***************************************************************************)
EXTENDS Sandbox, FiniteSetTheorems, TLAPS

(* The sandbox *)

\* What a worker at a place has of the gate's permits and of the active executions.
PermitsAt(p) == IF p \in {"idle", "waiting"} THEN 0 ELSE 1
ActiveAt(p) == IF p \in {"idle", "waiting", "gated", "releasing"} THEN 0 ELSE 1

Inside == {w \in BoxWorkers : at[w] \notin {"idle", "waiting"}}
Busy == {w \in BoxWorkers : at[w] \notin {"idle", "waiting", "gated", "releasing"}}

BoxTyped ==
  /\ started \in BOOLEAN /\ closing \in BOOLEAN /\ closed \in BOOLEAN
  /\ adapter \in [started : BOOLEAN, closed : BOOLEAN, pending : BOOLEAN]
  /\ closer \in {"idle", "waiting", "removing"} /\ boxLock \in BoxWorkers \cup {None}
  /\ tracked \subseteq Ids /\ targets \subseteq Ids
  /\ at \in [BoxWorkers -> Places] /\ mine \in [BoxWorkers -> 0..MaxExecutions]
  /\ container \in [Ids -> ContainerStates] /\ used \in 0..MaxExecutions /\ crashes \in Nat

CountInv ==
  /\ permits \in Nat /\ permits + Cardinality(Inside) = MaxConcurrency
  /\ boxActive \in Nat /\ boxActive = Cardinality(Busy)

\* An execution owns the container it created until it has let go of it, and no two own one.
OwnInv ==
  /\ \A w \in BoxWorkers :
        mine[w] # 0 <=> at[w] \in {"creating", "attaching", "removing", "removed", "unremoved"}
  /\ \A w \in BoxWorkers : mine[w] <= used
  /\ \A w, v \in BoxWorkers : mine[w] = mine[v] /\ mine[w] # 0 => w = v

\* The life cycles of the runtime and of its adapter: an adapter that can serve has an
\* owner for everything it tracks; one that is closed, or was never started, tracks nothing;
\* and close() removes with no execution inside, and has in hand all that is tracked.
CleanInv ==
  /\ ~adapter.pending /\ ~adapter.closed => \A i \in tracked : \E w \in BoxWorkers : mine[w] = i
  /\ started => ~closing /\ ~closed /\ ~adapter.closed
  /\ closed => adapter.closed
  /\ adapter.closed \/ (~started /\ ~closing /\ ~closed) => tracked = {} /\ boxActive = 0
  /\ closer # "idle" => closing
  /\ closer = "removing" => boxActive = 0 /\ tracked \subseteq targets \cup failed

BoxInv == BoxTyped /\ CountInv /\ OwnInv /\ CleanInv

\* When no command acts after it is gone: what docker create is doing belongs to the worker
\* that waits for it, what was removed is gone, and what exists is tracked.
DaemonInv ==
  /\ \A i \in Ids : container[i] = "inflight" => \E w \in BoxWorkers : at[w] = "creating" /\ mine[w] = i
  /\ \A w \in BoxWorkers : at[w] = "creating" => container[mine[w]] = "inflight"
  /\ \A w \in BoxWorkers : at[w] = "removed" => container[mine[w]] = "none"
  /\ crashes = 0 => \A i \in Ids : container[i] # "none" => i \in tracked

BoxLocals == <<adapter, tracked, targets, failed, mine, used, crashes, started, closing, closed, closer>>
Owning == {"creating", "attaching", "removing", "removed", "unremoved"}

\* One worker enters or leaves a set of workers.
LEMMA OneMoves ==
  ASSUME NEW w \in BoxWorkers, NEW S \in SUBSET BoxWorkers, NEW T \in SUBSET BoxWorkers,
         \A v \in BoxWorkers \ {w} : v \in S <=> v \in T
  PROVE  /\ Cardinality(S) \in Nat /\ Cardinality(T) \in Nat
         /\ (w \in S <=> w \in T) => Cardinality(T) = Cardinality(S)
         /\ w \notin S /\ w \in T => Cardinality(T) = Cardinality(S) + 1
         /\ w \in S /\ w \notin T => Cardinality(S) = Cardinality(T) + 1
<1>1. IsFiniteSet(S) /\ IsFiniteSet(T)
  BY BoxAssumption, FS_Subset
<1>2. Cardinality(S) \in Nat /\ Cardinality(T) \in Nat
  BY <1>1, FS_CardinalityType
<1>3. (w \in S <=> w \in T) => T = S
  OBVIOUS
<1>4. w \notin S /\ w \in T => T = S \cup {w}
  OBVIOUS
<1>5. w \in S /\ w \notin T => S = T \cup {w}
  OBVIOUS
<1>6. w \notin S => Cardinality(S \cup {w}) = Cardinality(S) + 1
  BY <1>1, FS_AddElement
<1>7. w \notin T => Cardinality(T \cup {w}) = Cardinality(T) + 1
  BY <1>1, FS_AddElement
<1> QED
  BY <1>2, <1>3, <1>4, <1>5, <1>6, <1>7

\* An execution that is inside is counted.
LEMMA BusyIsActive == ASSUME BoxInv, NEW w \in Busy PROVE boxActive > 0
<1>1. IsFiniteSet(Busy)
  BY BoxAssumption, FS_Subset DEF Busy
<1>2. Cardinality(Busy) # 0
  BY <1>1, FS_EmptySet
<1> QED
  BY <1>2 DEF BoxInv, CountInv

\* A worker moves, and permit and count with it.
LEMMA CountsMove ==
  ASSUME BoxInv, NEW w \in BoxWorkers, NEW place \in Places, BoxGoes(w, place), permits' \in Nat,
         permits' = permits + PermitsAt(at[w]) - PermitsAt(place),
         boxActive' = boxActive + ActiveAt(place) - ActiveAt(at[w])
  PROVE  CountInv'
<1>1. /\ at'[w] = place /\ \A v \in BoxWorkers \ {w} : at'[v] = at[v]
      /\ permits \in Nat /\ boxActive \in Nat /\ MaxConcurrency \in Nat
      /\ permits + Cardinality(Inside) = MaxConcurrency /\ boxActive = Cardinality(Busy)
  BY BoxAssumption DEF BoxInv, BoxTyped, CountInv, BoxGoes
<1>2. permits' + Cardinality(Inside') = MaxConcurrency
  <2>1. /\ Inside \in SUBSET BoxWorkers /\ Inside' \in SUBSET BoxWorkers
        /\ \A v \in BoxWorkers \ {w} : v \in Inside <=> v \in Inside'
        /\ w \in Inside <=> PermitsAt(at[w]) = 1
        /\ w \in Inside' <=> PermitsAt(place) = 1
    BY <1>1 DEF Inside, PermitsAt
  <2>2. PermitsAt(at[w]) \in {0, 1} /\ PermitsAt(place) \in {0, 1}
    BY DEF PermitsAt
  <2> DEFINE c == Cardinality(Inside)  d == Cardinality(Inside')  x == PermitsAt(at[w])  y == PermitsAt(place)
  <2>3. /\ c \in Nat /\ d \in Nat /\ (x = y => d = c)
        /\ (x = 0 /\ y = 1 => d = c + 1) /\ (x = 1 /\ y = 0 => c = d + 1)
    BY <2>1, <2>2, OneMoves
  <2>4. permits + c = MaxConcurrency /\ permits' = permits + x - y /\ x \in {0, 1} /\ y \in {0, 1}
    BY <1>1, <2>2
  <2> HIDE DEF c, d, x, y
  <2>5. permits' + d = MaxConcurrency
    BY <1>1, <2>3, <2>4
  <2> QED
    BY <2>5 DEF d
<1>3. boxActive' \in Nat /\ boxActive' = Cardinality(Busy')
  <2>1. /\ Busy \in SUBSET BoxWorkers /\ Busy' \in SUBSET BoxWorkers
        /\ \A v \in BoxWorkers \ {w} : v \in Busy <=> v \in Busy'
        /\ w \in Busy <=> ActiveAt(at[w]) = 1
        /\ w \in Busy' <=> ActiveAt(place) = 1
    BY <1>1 DEF Busy, ActiveAt
  <2>2. ActiveAt(at[w]) \in {0, 1} /\ ActiveAt(place) \in {0, 1}
    BY DEF ActiveAt
  <2> DEFINE c == Cardinality(Busy)  d == Cardinality(Busy')  x == ActiveAt(at[w])  y == ActiveAt(place)
  <2>3. /\ c \in Nat /\ d \in Nat /\ (x = y => d = c)
        /\ (x = 0 /\ y = 1 => d = c + 1) /\ (x = 1 /\ y = 0 => c = d + 1)
    BY <2>1, <2>2, OneMoves
  <2>4. boxActive = c /\ boxActive' = boxActive + y - x /\ x \in {0, 1} /\ y \in {0, 1}
    BY <1>1, <2>2
  <2> HIDE DEF c, d, x, y
  <2>5. boxActive' = d
    BY <2>3, <2>4
  <2> QED
    BY <2>3, <2>5 DEF d
<1> QED
  BY <1>2, <1>3 DEF CountInv

\* A step of a worker that keeps hold of its container, or has none before and after.
LEMMA MoveKeeps ==
  ASSUME BoxInv, NEW w \in BoxWorkers, NEW place \in Places, BoxGoes(w, place), permits' \in Nat,
         at[w] \in Owning <=> place \in Owning,
         permits' = permits + PermitsAt(at[w]) - PermitsAt(place),
         boxActive' = boxActive + ActiveAt(place) - ActiveAt(at[w]),
         ActiveAt(at[w]) = 0 /\ ActiveAt(place) = 1 => LifecycleFree /\ Open,
         UNCHANGED BoxLocals, boxLock' \in BoxWorkers \cup {None}, container' \in [Ids -> ContainerStates]
  PROVE  BoxInv'
<1>1. CountInv'
  BY CountsMove
<1>2. BoxTyped'
  BY DEF BoxInv, BoxTyped, BoxGoes, BoxLocals
<1>3. /\ at'[w] = place /\ \A v \in BoxWorkers \ {w} : at'[v] = at[v]
      /\ mine' = mine /\ used' = used
  BY DEF BoxInv, BoxTyped, BoxGoes, BoxLocals
<1>4. OwnInv'
  BY <1>3 DEF BoxInv, OwnInv, Owning
<1>5. boxActive' # 0 => boxActive # 0 \/ (LifecycleFree /\ Open)
  <2>1. ActiveAt(at[w]) = 1 => boxActive # 0
    <3>1. ActiveAt(at[w]) = 1 => w \in Busy
      BY DEF ActiveAt, Busy
    <3> QED
      BY <3>1, BusyIsActive DEF BoxInv, CountInv
  <2>2. ActiveAt(at[w]) = 0 /\ ActiveAt(place) = 0 => boxActive' = boxActive
    BY DEF BoxInv, CountInv
  <2>3. ActiveAt(at[w]) \in {0, 1} /\ ActiveAt(place) \in {0, 1}
    BY DEF ActiveAt
  <2> QED
    BY <2>1, <2>2, <2>3
<1>6. CleanInv'
  <2>1. UNCHANGED <<adapter, tracked, targets, failed, mine, started, closing, closed, closer>>
    BY DEF BoxLocals
  <2>2. CleanInv
    BY DEF BoxInv
  <2> QED
    BY <1>5, <2>1, <2>2 DEF CleanInv, LifecycleFree, Open
<1> QED
  BY <1>1, <1>2, <1>4, <1>6 DEF BoxInv

\* Removal of container i, in a finally block or by close().
LEMMA RemovedTyped ==
  ASSUME BoxInv, NEW i \in Ids, Removed(i)
  PROVE  /\ container' \in [Ids -> ContainerStates]
         /\ container'[i] = IF container[i] = "inflight" THEN "inflight" ELSE "none"
         /\ \A j \in Ids \ {i} : container'[j] = container[j]
  BY DEF BoxInv, BoxTyped, Removed, ContainerStates

\* The container of a worker that owns one.
LEMMA MineIsId ==
  ASSUME BoxInv, NEW w \in BoxWorkers, at[w] \in Owning
  PROVE  mine[w] \in Ids
  BY BoxAssumption DEF BoxInv, BoxTyped, OwnInv, Owning, Ids

\* The steps of execute that MoveKeeps covers.
LEMMA MovesKeep ==
  ASSUME BoxInv, NEW w \in BoxWorkers,
         \/ Submit(w) \/ GiveUp(w) \/ BoxAcquire(w) \/ Admit(w) \/ Refuse(w) \/ CreateSucceeds(w) \/ CreateFails(w)
         \/ Attach(w) \/ Remove(w) \/ RemoveFails(w) \/ BoxLeave(w) \/ BoxRelease(w)
  PROVE  BoxInv'
<1>0. /\ permits \in Nat /\ boxActive \in Nat /\ container \in [Ids -> ContainerStates]
      /\ boxLock \in BoxWorkers \cup {None}
  BY DEF BoxInv, BoxTyped, CountInv
<1> USE DEF runtime, docker, threads, daemon, BoxLocals
<1>1. CASE Submit(w)
  <2>1. /\ at[w] = "idle" /\ BoxGoes(w, "waiting")
        /\ UNCHANGED <<BoxLocals, permits, boxActive, boxLock, container>>
    BY <1>1 DEF Submit
  <2> QED
    BY <1>0, <2>1, MoveKeeps DEF PermitsAt, ActiveAt, Owning, Places
<1>2. CASE GiveUp(w)
  <2>1. /\ at[w] = "waiting" /\ BoxGoes(w, "idle")
        /\ UNCHANGED <<BoxLocals, permits, boxActive, boxLock, container>>
    BY <1>2 DEF GiveUp
  <2> QED
    BY <1>0, <2>1, MoveKeeps DEF PermitsAt, ActiveAt, Owning, Places
<1>3. CASE BoxAcquire(w)
  <2>1. /\ at[w] = "waiting" /\ BoxGoes(w, "gated") /\ permits > 0 /\ permits' = permits - 1
        /\ UNCHANGED <<BoxLocals, boxActive, boxLock, container>>
    BY <1>3 DEF BoxAcquire
  <2> QED
    BY <1>0, <2>1, MoveKeeps DEF PermitsAt, ActiveAt, Owning, Places
<1>4. CASE Admit(w)
  <2>1. /\ at[w] = "gated" /\ LifecycleFree
        /\ \/ Open /\ boxActive' = boxActive + 1 /\ BoxGoes(w, "admitted") /\ permits' = permits
           \/ permits' = permits + 1 /\ BoxGoes(w, "idle") /\ boxActive' = boxActive
        /\ UNCHANGED <<BoxLocals, boxLock, container>>
    BY <1>4 DEF Admit
  <2>2. CASE Open /\ boxActive' = boxActive + 1 /\ BoxGoes(w, "admitted") /\ permits' = permits
    BY <1>0, <2>1, <2>2, MoveKeeps DEF PermitsAt, ActiveAt, Owning, Places
  <2>3. CASE permits' = permits + 1 /\ BoxGoes(w, "idle") /\ boxActive' = boxActive
    BY <1>0, <2>1, <2>3, MoveKeeps DEF PermitsAt, ActiveAt, Owning, Places
  <2> QED
    BY <2>1, <2>2, <2>3
<1>5. CASE Refuse(w)
  <2>1. /\ at[w] = "admitted" /\ BoxGoes(w, "leaving")
        /\ UNCHANGED <<BoxLocals, permits, boxActive, boxLock, container>>
    BY <1>5 DEF Refuse
  <2> QED
    BY <1>0, <2>1, MoveKeeps DEF PermitsAt, ActiveAt, Owning, Places
<1>6. CASE CreateSucceeds(w) \/ CreateFails(w)
  <2>1. /\ at[w] = "creating" /\ (BoxGoes(w, "attaching") \/ BoxGoes(w, "removing")) /\ boxLock' = None
        /\ \E s \in {"none", "created", "inflight"} : container' = [container EXCEPT ![mine[w]] = s]
        /\ UNCHANGED <<BoxLocals, permits, boxActive>>
    BY <1>6 DEF CreateSucceeds, CreateFails
  <2>2. container' \in [Ids -> ContainerStates]
    BY <1>0, <2>1 DEF ContainerStates
  <2>3. CASE BoxGoes(w, "attaching")
    BY <1>0, <2>1, <2>2, <2>3, MoveKeeps DEF PermitsAt, ActiveAt, Owning, Places
  <2>4. CASE BoxGoes(w, "removing")
    BY <1>0, <2>1, <2>2, <2>4, MoveKeeps DEF PermitsAt, ActiveAt, Owning, Places
  <2> QED
    BY <2>1, <2>3, <2>4
<1>7. CASE Attach(w)
  <2>1. /\ at[w] = "attaching" /\ BoxGoes(w, "removing")
        /\ \/ UNCHANGED container
           \/ \E s \in {"running", "exited"} : container' = [container EXCEPT ![mine[w]] = s]
        /\ UNCHANGED <<BoxLocals, permits, boxActive, boxLock>>
    BY <1>7 DEF Attach
  <2>2. container' \in [Ids -> ContainerStates]
    BY <1>0, <2>1 DEF ContainerStates
  <2> QED
    BY <1>0, <2>1, <2>2, MoveKeeps DEF PermitsAt, ActiveAt, Owning, Places
<1>8. CASE Remove(w) \/ RemoveFails(w)
  <2>1. /\ at[w] = "removing" /\ (BoxGoes(w, "removed") \/ BoxGoes(w, "unremoved"))
        /\ Removed(mine[w]) \/ UNCHANGED container
        /\ UNCHANGED <<BoxLocals, permits, boxActive, boxLock>>
    BY <1>8 DEF Remove, RemoveFails
  <2>2. container' \in [Ids -> ContainerStates]
    <3>1. mine[w] \in Ids
      BY <2>1, MineIsId DEF Owning
    <3> QED
      BY <1>0, <2>1, <3>1, RemovedTyped
  <2>3. CASE BoxGoes(w, "removed")
    BY <1>0, <2>1, <2>2, <2>3, MoveKeeps DEF PermitsAt, ActiveAt, Owning, Places
  <2>4. CASE BoxGoes(w, "unremoved")
    BY <1>0, <2>1, <2>2, <2>4, MoveKeeps DEF PermitsAt, ActiveAt, Owning, Places
  <2> QED
    BY <2>1, <2>3, <2>4
<1>9. CASE BoxLeave(w)
  <2>1. /\ at[w] = "leaving" /\ BoxGoes(w, "releasing") /\ boxActive' = boxActive - 1
        /\ UNCHANGED <<BoxLocals, permits, boxLock, container>>
    BY <1>9 DEF BoxLeave
  <2> QED
    BY <1>0, <2>1, MoveKeeps DEF PermitsAt, ActiveAt, Owning, Places
<1>10. CASE BoxRelease(w)
  <2>1. /\ at[w] = "releasing" /\ BoxGoes(w, "idle") /\ permits' = permits + 1
        /\ UNCHANGED <<BoxLocals, boxActive, boxLock, container>>
    BY <1>10 DEF BoxRelease
  <2> QED
    BY <1>0, <2>1, MoveKeeps DEF PermitsAt, ActiveAt, Owning, Places
<1> QED
  BY <1>1, <1>2, <1>3, <1>4, <1>5, <1>6, <1>7, <1>8, <1>9, <1>10

\* A container is registered: it is tracked from before docker create runs.
LEMMA RegisterKeeps == ASSUME BoxInv, NEW w \in BoxWorkers, Register(w) PROVE BoxInv'
<1> DEFINE n == used + 1
<1>1. /\ at[w] = "admitted" /\ BoxGoes(w, "creating") /\ used < MaxExecutions /\ used' = n
      /\ adapter.started /\ ~adapter.pending /\ ~adapter.closed
      /\ mine' = [mine EXCEPT ![w] = n] /\ tracked' = tracked \cup {n} /\ boxLock' = w
      /\ container' = [container EXCEPT ![n] = "inflight"]
      /\ UNCHANGED <<started, closing, closed, boxActive, permits, closer, adapter, targets, failed, crashes>>
  BY DEF Register, runtime
<1>2. /\ used \in Nat /\ MaxExecutions \in Nat /\ n \in 1..MaxExecutions /\ n \in 0..MaxExecutions /\ n \in Ids
      /\ n # 0 /\ used <= n /\ n <= used' /\ \A v \in BoxWorkers : mine[v] \in Nat /\ mine[v] <= used /\ mine[v] # n
  BY <1>1, BoxAssumption DEF BoxInv, BoxTyped, OwnInv, Ids
<1>3. /\ at'[w] = "creating" /\ \A v \in BoxWorkers \ {w} : at'[v] = at[v]
      /\ mine'[w] = n /\ \A v \in BoxWorkers \ {w} : mine'[v] = mine[v]
      /\ mine[w] = 0
  BY <1>1 DEF BoxInv, BoxTyped, OwnInv, BoxGoes
<1> HIDE DEF n
<1>4. BoxTyped'
  <2>1. at' \in [BoxWorkers -> Places] /\ mine' \in [BoxWorkers -> 0..MaxExecutions] /\ used' \in 0..MaxExecutions
    BY <1>1, <1>2 DEF BoxInv, BoxTyped, BoxGoes, Places
  <2>2. container' \in [Ids -> ContainerStates] /\ tracked' \subseteq Ids
    BY <1>1, <1>2 DEF BoxInv, BoxTyped, ContainerStates
  <2> QED
    BY <1>1, <2>1, <2>2 DEF BoxInv, BoxTyped
<1>5. CountInv'
  <2>1. permits' \in Nat /\ permits \in Nat /\ boxActive \in Nat
    BY <1>1 DEF BoxInv, CountInv
  <2>2. PermitsAt(at[w]) = 1 /\ PermitsAt("creating") = 1 /\ ActiveAt(at[w]) = 1 /\ ActiveAt("creating") = 1
    BY <1>1 DEF PermitsAt, ActiveAt
  <2>3. permits' = permits + 1 - 1 /\ boxActive' = boxActive + 1 - 1
    BY <1>1, <2>1
  <2> QED
    BY <1>1, <2>1, <2>2, <2>3, CountsMove DEF Places
<1>6. OwnInv'
  <2>1. \A v \in BoxWorkers : mine'[v] # 0 <=> at'[v] \in {"creating", "attaching", "removing", "removed", "unremoved"}
    BY <1>2, <1>3 DEF BoxInv, OwnInv
  <2>2. \A v \in BoxWorkers : mine'[v] <= used'
    <3> SUFFICES ASSUME NEW v \in BoxWorkers PROVE mine'[v] <= used'
      OBVIOUS
    <3>1. CASE v = w
      BY <1>2, <1>3, <3>1
    <3>2. CASE v # w
      BY <1>1, <1>2, <1>3, <3>2 DEF n
    <3> QED
      BY <3>1, <3>2
  <2>3. \A u, v \in BoxWorkers : mine'[u] = mine'[v] /\ mine'[u] # 0 => u = v
    BY <1>2, <1>3 DEF BoxInv, OwnInv
  <2> QED
    BY <2>1, <2>2, <2>3 DEF OwnInv
<1>7. CleanInv'
  <2>1. boxActive > 0 /\ boxActive \in Nat
    <3>1. w \in Busy
      BY <1>1 DEF Busy
    <3> QED
      BY <3>1, BusyIsActive DEF BoxInv, CountInv
  <2>2. \A i \in tracked' : \E v \in BoxWorkers : mine'[v] = i
    <3> SUFFICES ASSUME NEW i \in tracked' PROVE \E v \in BoxWorkers : mine'[v] = i
      OBVIOUS
    <3>1. CASE i = n
      BY <1>3, <3>1
    <3>2. CASE i # n
      <4>1. i \in tracked /\ i # 0
        BY <1>1, <3>2, BoxAssumption DEF BoxInv, BoxTyped, Ids
      <4>2. PICK v \in BoxWorkers : mine[v] = i
        BY <1>1, <4>1 DEF BoxInv, CleanInv
      <4> QED
        BY <1>3, <4>1, <4>2
    <3> QED
      BY <3>1, <3>2
  <2>3. CleanInv
    BY DEF BoxInv
  <2> QED
    BY <1>1, <2>1, <2>2, <2>3 DEF CleanInv
<1> QED
  BY <1>4, <1>5, <1>6, <1>7 DEF BoxInv

\* An execution lets go of its container: it forgets one that was removed, and marks the
\* adapter as one with something left to clean when it could not remove it.
LEMMA LetGoKeeps == ASSUME BoxInv, NEW w \in BoxWorkers, Untrack(w) \/ KeepTracked(w) PROVE BoxInv'
<1>1. /\ at[w] \in {"removed", "unremoved"} /\ BoxGoes(w, "leaving") /\ mine' = [mine EXCEPT ![w] = 0]
      /\ \/ adapter' = adapter /\ tracked' = tracked \ {mine[w]}
         \/ adapter' = [adapter EXCEPT !.pending = TRUE, !.started = FALSE] /\ tracked' = tracked
      /\ UNCHANGED <<started, closing, closed, boxActive, permits, closer, boxLock, targets, failed,
                     container, used, crashes>>
  BY DEF Untrack, KeepTracked, runtime, daemon
<1>2. /\ at'[w] = "leaving" /\ \A v \in BoxWorkers \ {w} : at'[v] = at[v]
      /\ mine'[w] = 0 /\ \A v \in BoxWorkers \ {w} : mine'[v] = mine[v]
  BY <1>1 DEF BoxInv, BoxTyped, BoxGoes
<1>3. /\ adapter' \in [started : BOOLEAN, closed : BOOLEAN, pending : BOOLEAN]
      /\ adapter'.closed = adapter.closed /\ (adapter'.pending \/ (adapter' = adapter /\ tracked' = tracked \ {mine[w]}))
  BY <1>1 DEF BoxInv, BoxTyped
<1>4. BoxTyped'
  <2>1. at' \in [BoxWorkers -> Places] /\ mine' \in [BoxWorkers -> 0..MaxExecutions]
    BY <1>1, BoxAssumption DEF BoxInv, BoxTyped, BoxGoes, Places
  <2>2. tracked' \subseteq Ids
    BY <1>1 DEF BoxInv, BoxTyped
  <2> QED
    BY <1>1, <1>3, <2>1, <2>2 DEF BoxInv, BoxTyped
<1>5. CountInv'
  <2>1. permits' \in Nat /\ permits \in Nat /\ boxActive \in Nat
    BY <1>1 DEF BoxInv, CountInv
  <2>2. PermitsAt(at[w]) = 1 /\ PermitsAt("leaving") = 1 /\ ActiveAt(at[w]) = 1 /\ ActiveAt("leaving") = 1
    BY <1>1 DEF PermitsAt, ActiveAt
  <2>3. permits' = permits + 1 - 1 /\ boxActive' = boxActive + 1 - 1
    BY <1>1, <2>1
  <2> QED
    BY <1>1, <2>1, <2>2, <2>3, CountsMove DEF Places
<1>6. OwnInv'
  <2>1. used \in Nat /\ 0 <= used /\ used' = used
    BY <1>1, BoxAssumption DEF BoxInv, BoxTyped
  <2> QED
    BY <1>2, <2>1 DEF BoxInv, OwnInv
<1>7. CleanInv'
  <2>1. boxActive > 0 /\ boxActive \in Nat
    <3>1. w \in Busy
      BY <1>1 DEF Busy
    <3> QED
      BY <3>1, BusyIsActive DEF BoxInv, CountInv
  <2>2. CleanInv /\ tracked' \subseteq tracked
    BY <1>1 DEF BoxInv
  <2>3. ASSUME ~adapter'.pending, ~adapter'.closed, NEW i \in tracked' PROVE \E v \in BoxWorkers : mine'[v] = i
    <3>1. adapter' = adapter /\ i \in tracked /\ i # mine[w]
      BY <1>3, <2>3
    <3>2. PICK v \in BoxWorkers : mine[v] = i
      BY <2>2, <2>3, <3>1 DEF CleanInv
    <3> QED
      BY <1>2, <3>1, <3>2
  <2> QED
    BY <1>1, <1>3, <2>1, <2>2, <2>3 DEF CleanInv
<1> QED
  BY <1>4, <1>5, <1>6, <1>7 DEF BoxInv

\* What the workers hold does not change while they stand still.
LEMMA StillKeeps ==
  ASSUME BoxInv, UNCHANGED <<at, mine, permits, boxActive, used>>, BoxTyped', CleanInv'
  PROVE  BoxInv'
<1>1. CountInv'
  BY DEF BoxInv, CountInv, Inside, Busy
<1>2. OwnInv'
  BY DEF BoxInv, OwnInv
<1> QED
  BY <1>1, <1>2 DEF BoxInv

\* The runtime starts or fails to, and a neighbour prunes what is stopped.
LEMMA StartKeeps == ASSUME BoxInv, BoxStart \/ StartFails \/ NeighbourStarts PROVE BoxInv'
<1> USE DEF runtime, docker, threads, daemon
<1>1. Pruned \in [Ids -> ContainerStates] /\ container \in [Ids -> ContainerStates]
  BY DEF Pruned, BoxInv, BoxTyped, ContainerStates
<1>2. CASE BoxStart
  <2>1. /\ ~closed /\ ~closing /\ ~started /\ ~adapter.closed /\ started' = TRUE /\ container' = Pruned
        /\ adapter' = [adapter EXCEPT !.started = TRUE] /\ closer # "removing"
        /\ UNCHANGED <<closing, closed, boxActive, permits, closer, boxLock, tracked, targets, failed, at, mine,
                       used, crashes>>
    BY <1>2 DEF BoxStart, LifecycleFree
  <2>2. /\ adapter' \in [started : BOOLEAN, closed : BOOLEAN, pending : BOOLEAN]
        /\ adapter'.closed = adapter.closed /\ adapter'.pending = adapter.pending
    BY <2>1 DEF BoxInv, BoxTyped
  <2>3. BoxTyped'
    BY <1>1, <2>1, <2>2 DEF BoxInv, BoxTyped
  <2>4. CleanInv'
    BY <2>1, <2>2 DEF BoxInv, CleanInv
  <2> QED
    BY <2>1, <2>3, <2>4, StillKeeps
<1>3. CASE StartFails
  <2>1. /\ ~closed /\ ~closing /\ ~started /\ container' \in [Ids -> ContainerStates] /\ closer # "removing"
        /\ adapter' = [started |-> FALSE, closed |-> TRUE, pending |-> FALSE]
        /\ UNCHANGED <<started, closing, closed, boxActive, permits, closer, boxLock, tracked, targets, failed, at, mine,
                       used, crashes>>
    BY <1>1, <1>3 DEF StartFails, LifecycleFree
  <2>2. adapter' \in [started : BOOLEAN, closed : BOOLEAN, pending : BOOLEAN] /\ adapter'.closed = TRUE
    BY <2>1
  <2>3. BoxTyped'
    BY <2>1, <2>2 DEF BoxInv, BoxTyped
  <2>4. CleanInv'
    BY <2>1, <2>2 DEF BoxInv, CleanInv
  <2> QED
    BY <2>1, <2>3, <2>4, StillKeeps
<1>4. CASE NeighbourStarts
  <2>1. /\ container' = Pruned
        /\ UNCHANGED <<started, closing, closed, boxActive, permits, closer, adapter, boxLock, tracked, targets, failed,
                       at, mine, used, crashes>>
    BY <1>4 DEF NeighbourStarts
  <2>2. BoxTyped'
    BY <1>1, <2>1 DEF BoxInv, BoxTyped
  <2>3. CleanInv'
    BY <2>1 DEF BoxInv, CleanInv
  <2> QED
    BY <2>1, <2>2, <2>3, StillKeeps
<1> QED
  BY <1>2, <1>3, <1>4

\* close() refuses new executions, takes over what is tracked once nobody is inside, and
\* removes it.
LEMMA CloseKeeps ==
  ASSUME BoxInv, BoxClose \/ AdapterClose \/ CloseEnds \/ \E i \in Ids : CloseRemoves(i) \/ CloseFailsOn(i)
  PROVE  BoxInv'
<1> USE DEF runtime, docker, threads, daemon
<1>1. CASE BoxClose
  <2>1. /\ ~closed /\ closing' = TRUE /\ started' = FALSE /\ closer' = "waiting"
        /\ UNCHANGED <<closed, boxActive, permits, adapter, boxLock, tracked, targets, failed, at, mine, container,
                       used, crashes>>
    BY <1>1 DEF BoxClose
  <2>2. BoxTyped'
    BY <2>1 DEF BoxInv, BoxTyped
  <2>3. CleanInv'
    BY <2>1 DEF BoxInv, CleanInv
  <2> QED
    BY <2>1, <2>2, <2>3, StillKeeps
<1>2. CASE AdapterClose
  <2>1. /\ closer = "waiting" /\ boxActive = 0 /\ closer' = "removing"
        /\ adapter' = IF adapter.closed THEN adapter ELSE [adapter EXCEPT !.pending = TRUE, !.started = FALSE]
        /\ targets' = (IF adapter.closed THEN {} ELSE tracked)
        /\ UNCHANGED <<started, closing, closed, boxActive, permits, boxLock, tracked, at, mine, container, used, crashes>>
    BY <1>2 DEF AdapterClose
  <2>2. /\ adapter' \in [started : BOOLEAN, closed : BOOLEAN, pending : BOOLEAN]
        /\ adapter'.closed = adapter.closed /\ (adapter.closed \/ adapter'.pending)
    BY <2>1 DEF BoxInv, BoxTyped
  <2>3. BoxTyped'
    BY <2>1, <2>2 DEF BoxInv, BoxTyped
  <2>4. CleanInv'
    BY <2>1, <2>2 DEF BoxInv, CleanInv
  <2> QED
    BY <2>1, <2>3, <2>4, StillKeeps
<1>3. CASE CloseEnds
  <2>1. /\ closer = "removing" /\ targets = {} /\ closer' = "idle"
        /\ \/ /\ failed = {} /\ adapter' = [started |-> FALSE, closed |-> TRUE, pending |-> FALSE]
              /\ closing' = FALSE /\ closed' = TRUE
           \/ UNCHANGED <<adapter, closing, closed>>
        /\ UNCHANGED <<started, boxActive, permits, boxLock, tracked, targets, failed, at, mine, container, used, crashes>>
    BY <1>3 DEF CloseEnds
  <2>2. /\ closing /\ ~started /\ boxActive = 0 /\ tracked \subseteq failed
    BY <2>1 DEF BoxInv, CleanInv
  <2>3. CASE UNCHANGED <<adapter, closing, closed>>
    <3>1. BoxTyped'
      BY <2>1, <2>3 DEF BoxInv, BoxTyped
    <3>2. CleanInv'
      BY <2>1, <2>2, <2>3 DEF BoxInv, CleanInv
    <3> QED
      BY <2>1, <3>1, <3>2, StillKeeps
  <2>4. CASE /\ failed = {} /\ adapter' = [started |-> FALSE, closed |-> TRUE, pending |-> FALSE]
             /\ closing' = FALSE /\ closed' = TRUE
    <3>1. adapter' \in [started : BOOLEAN, closed : BOOLEAN, pending : BOOLEAN] /\ adapter'.closed = TRUE /\ tracked = {}
      BY <2>2, <2>4
    <3>2. BoxTyped'
      BY <2>1, <2>4, <3>1 DEF BoxInv, BoxTyped
    <3>3. CleanInv'
      BY <2>1, <2>2, <2>4, <3>1 DEF CleanInv
    <3> QED
      BY <2>1, <3>2, <3>3, StillKeeps
  <2> QED
    BY <2>1, <2>3, <2>4
<1>4. ASSUME NEW i \in Ids, CloseRemoves(i) \/ CloseFailsOn(i) PROVE BoxInv'
  <2>1. /\ closer = "removing" /\ i \in targets /\ (Removed(i) \/ UNCHANGED container) /\ targets' = targets \ {i}
        /\ \/ tracked' = tracked \ {i} /\ failed' = failed
           \/ tracked' = tracked /\ failed' = failed \cup {i}
        /\ UNCHANGED <<started, closing, closed, boxActive, permits, closer, adapter, boxLock, at, mine, used, crashes>>
    BY <1>4 DEF CloseRemoves, CloseFailsOn
  <2>2. container' \in [Ids -> ContainerStates]
    BY <2>1, RemovedTyped DEF BoxInv, BoxTyped
  <2>3. tracked' \subseteq tracked /\ (tracked \subseteq targets \cup failed => tracked' \subseteq targets' \cup failed')
    BY <2>1
  <2>4. BoxTyped'
    BY <2>1, <2>2, <2>3 DEF BoxInv, BoxTyped
  <2>5. CleanInv'
    BY <2>1, <2>3 DEF BoxInv, CleanInv
  <2> QED
    BY <2>1, <2>4, <2>5, StillKeeps
<1> QED
  BY <1>1, <1>2, <1>3, <1>4

\* The daemon's own steps.
LEMMA DaemonKeeps == ASSUME BoxInv, NEW i \in Ids, Exits(i) \/ LateCreate(i) PROVE BoxInv'
<1>1. /\ \E s \in {"exited", "created"} : container' = [container EXCEPT ![i] = s]
      /\ UNCHANGED <<started, closing, closed, boxActive, permits, closer, adapter, boxLock, tracked, targets, failed,
                     at, mine, used, crashes>>
  BY DEF Exits, LateCreate, runtime, docker, threads
<1>2. container' \in [Ids -> ContainerStates]
  BY <1>1 DEF BoxInv, BoxTyped, ContainerStates
<1>3. BoxTyped'
  BY <1>1, <1>2 DEF BoxInv, BoxTyped
<1>4. CleanInv'
  BY <1>1 DEF BoxInv, CleanInv
<1> QED
  BY <1>1, <1>3, <1>4, StillKeeps

\* A process that starts, for the first time or after a crash, holds nothing.
LEMMA FreshProcess ==
  ASSUME started = FALSE, closing = FALSE, closed = FALSE, boxActive = 0, permits = MaxConcurrency, closer = "idle",
         adapter = FreshAdapter, boxLock = None, tracked = {}, targets = {},
         at = [w \in BoxWorkers |-> "idle"], mine = [w \in BoxWorkers |-> 0],
         container \in [Ids -> ContainerStates], used \in 0..MaxExecutions, crashes \in Nat
  PROVE  BoxInv
<1>1. BoxTyped
  <2>1. started \in BOOLEAN /\ closing \in BOOLEAN /\ closed \in BOOLEAN
    OBVIOUS
  <2>2. adapter \in [started : BOOLEAN, closed : BOOLEAN, pending : BOOLEAN]
    BY DEF FreshAdapter
  <2>3. at \in [BoxWorkers -> Places] /\ mine \in [BoxWorkers -> 0..MaxExecutions]
    BY BoxAssumption DEF Places
  <2> QED
    BY <2>1, <2>2, <2>3 DEF BoxTyped
<1>2. CountInv
  <2>1. Inside = {} /\ Busy = {}
    BY DEF Inside, Busy
  <2>2. Cardinality({}) = 0
    BY FS_EmptySet
  <2> QED
    BY <2>1, <2>2, BoxAssumption DEF CountInv
<1>3. OwnInv
  BY BoxAssumption DEF OwnInv
<1>4. CleanInv
  BY DEF CleanInv, FreshAdapter
<1> QED
  BY <1>1, <1>2, <1>3, <1>4 DEF BoxInv

LEMMA BoxInitial == BoxInit => BoxInv
<1> SUFFICES ASSUME BoxInit PROVE BoxInv
  OBVIOUS
<1>1. container \in [Ids -> ContainerStates] /\ used \in 0..MaxExecutions /\ crashes \in Nat
  BY BoxAssumption DEF BoxInit, ContainerStates
<1> QED
  BY <1>1, FreshProcess DEF BoxInit

LEMMA CrashKeeps == ASSUME BoxInv, BoxCrash PROVE BoxInv'
<1>1. container' \in [Ids -> ContainerStates]
  <2>1. PICK done \in BOOLEAN :
          container' = [i \in Ids |-> IF container[i] = "inflight" /\ ~LateCreates
                                      THEN IF done THEN "created" ELSE "none" ELSE container[i]]
    BY DEF BoxCrash
  <2> QED
    BY <2>1 DEF BoxInv, BoxTyped, ContainerStates
<1>2. used' \in 0..MaxExecutions /\ crashes' \in Nat
  BY BoxAssumption DEF BoxInv, BoxTyped, BoxCrash
<1>3. /\ started' = FALSE /\ closing' = FALSE /\ closed' = FALSE /\ boxActive' = 0 /\ permits' = MaxConcurrency
      /\ closer' = "idle" /\ adapter' = FreshAdapter /\ boxLock' = None /\ tracked' = {} /\ targets' = {}
      /\ at' = [w \in BoxWorkers |-> "idle"] /\ mine' = [w \in BoxWorkers |-> 0]
  BY DEF BoxCrash
<1>4. BoxTyped'
  <2>1. started' \in BOOLEAN /\ closing' \in BOOLEAN /\ closed' \in BOOLEAN
    BY <1>3
  <2>2. adapter' \in [started : BOOLEAN, closed : BOOLEAN, pending : BOOLEAN]
    BY <1>3 DEF FreshAdapter
  <2>3. at' \in [BoxWorkers -> Places] /\ mine' \in [BoxWorkers -> 0..MaxExecutions]
    BY <1>3, BoxAssumption DEF Places
  <2> QED
    BY <1>1, <1>2, <1>3, <2>1, <2>2, <2>3 DEF BoxTyped
<1>5. CountInv'
  <2>1. Inside' = {} /\ Busy' = {}
    BY <1>3 DEF Inside, Busy
  <2>2. Cardinality({}) = 0
    BY FS_EmptySet
  <2> QED
    BY <1>3, <2>1, <2>2, BoxAssumption DEF CountInv
<1>6. OwnInv'
  BY <1>2, <1>3, BoxAssumption DEF OwnInv
<1>7. CleanInv'
  BY <1>3 DEF CleanInv, FreshAdapter
<1> QED
  BY <1>4, <1>5, <1>6, <1>7 DEF BoxInv

\* BoxInv is kept by every step of the sandbox.
LEMMA BoxStepKeeps == BoxInv /\ [BoxNext]_boxVars => BoxInv'
<1> SUFFICES ASSUME BoxInv, [BoxNext]_boxVars PROVE BoxInv'
  OBVIOUS
<1>1. CASE UNCHANGED boxVars
  <2>1. BoxTyped' /\ CleanInv' /\ UNCHANGED <<at, mine, permits, boxActive, used>>
    BY <1>1 DEF boxVars, runtime, docker, threads, daemon, BoxInv, BoxTyped, CleanInv
  <2> QED
    BY <2>1, StillKeeps
<1>2. CASE BoxNext
  BY <1>2, StartKeeps, MovesKeep, RegisterKeeps, LetGoKeeps, CloseKeeps, DaemonKeeps, CrashKeeps, Zenon
     DEF BoxNext, Work, Closing
<1> QED
  BY <1>1, <1>2

LEMMA BoxInvariant == BoxSpec => []BoxInv
  BY BoxInitial, BoxStepKeeps, PTL DEF BoxSpec

\* A step outside docker create, run, rm and prune: containers and tracking are left alone.
LEMMA QuietKeepsDaemon ==
  ASSUME BoxInv, DaemonInv, UNCHANGED <<container, mine, crashes>>, tracked \subseteq tracked',
         \A w \in BoxWorkers : /\ at[w] = "creating" <=> at'[w] = "creating"
                               /\ at'[w] = "removed" => at[w] = "removed"
  PROVE  DaemonInv'
<1>1. \A i \in Ids : container'[i] = "inflight" => \E w \in BoxWorkers : at'[w] = "creating" /\ mine'[w] = i
  BY DEF DaemonInv
<1>2. \A w \in BoxWorkers : /\ at'[w] = "removed" => container'[mine'[w]] = "none"
                            /\ at'[w] = "creating" => container'[mine'[w]] = "inflight"
  BY DEF DaemonInv
<1>3. crashes' = 0 => \A i \in Ids : container'[i] # "none" => i \in tracked'
  BY DEF DaemonInv
<1> QED
  BY <1>1, <1>2, <1>3 DEF DaemonInv

\* The daemon changes the containers of nobody who has seen his removed, and begins no create.
LEMMA ContainersKeepDaemon ==
  ASSUME BoxInv, DaemonInv, UNCHANGED <<at, mine, tracked, crashes>>,
         \A i \in Ids : /\ container'[i] # "none" => container[i] # "none"
                        /\ container'[i] = "inflight" <=> container[i] = "inflight"
  PROVE  DaemonInv'
<1>1. \A w \in BoxWorkers : at[w] \in {"removed", "creating"} => mine[w] \in Ids
  BY MineIsId DEF Owning
<1>2. \A w \in BoxWorkers : /\ at'[w] = "removed" => container'[mine'[w]] = "none"
                            /\ at'[w] = "creating" => container'[mine'[w]] = "inflight"
  BY <1>1 DEF DaemonInv
<1>3. \A i \in Ids : container'[i] = "inflight" => \E w \in BoxWorkers : at'[w] = "creating" /\ mine'[w] = i
  BY DEF DaemonInv
<1>4. crashes' = 0 => \A i \in Ids : container'[i] # "none" => i \in tracked'
  BY DEF DaemonInv
<1> QED
  BY <1>2, <1>3, <1>4 DEF DaemonInv

\* The owner w of container n works on it and moves on.
LEMMA OwnerKeepsDaemon ==
  ASSUME BoxInv, DaemonInv, NEW w \in BoxWorkers, at[w] \in Owning, NEW place \in Places, BoxGoes(w, place),
         UNCHANGED <<mine, tracked, crashes>>, place # "creating",
         \A i \in Ids \ {mine[w]} : container'[i] = container[i],
         container'[mine[w]] # "inflight",
         container'[mine[w]] # "none" => container[mine[w]] # "none",
         place = "removed" => container'[mine[w]] = "none"
  PROVE  DaemonInv'
<1>1. /\ at'[w] = place /\ \A v \in BoxWorkers \ {w} : at'[v] = at[v]
      /\ mine[w] \in Ids /\ mine[w] # 0
  BY MineIsId DEF BoxInv, BoxTyped, BoxGoes, OwnInv, Owning
<1>2. ASSUME NEW i \in Ids, container'[i] = "inflight"
      PROVE  \E v \in BoxWorkers : at'[v] = "creating" /\ mine'[v] = i
  <2>1. i # mine[w] /\ container[i] = "inflight"
    BY <1>2
  <2>2. PICK v \in BoxWorkers : at[v] = "creating" /\ mine[v] = i
    BY <2>1 DEF DaemonInv
  <2> QED
    BY <1>1, <2>1, <2>2
<1>3. ASSUME NEW v \in BoxWorkers, at'[v] = "removed" PROVE container'[mine'[v]] = "none"
  <2>1. CASE v = w
    BY <1>1, <1>3, <2>1
  <2>2. CASE v # w
    <3>1. at[v] = "removed" /\ container[mine[v]] = "none"
      BY <1>1, <1>3, <2>2 DEF DaemonInv
    <3>2. mine[v] \in Ids /\ mine[v] # mine[w]
      BY <1>1, <2>2, <3>1, MineIsId DEF BoxInv, OwnInv, Owning
    <3> QED
      BY <3>1, <3>2
  <2> QED
    BY <2>1, <2>2
<1>4. ASSUME NEW v \in BoxWorkers, at'[v] = "creating" PROVE container'[mine'[v]] = "inflight"
  <2>1. v # w /\ at[v] = "creating" /\ container[mine[v]] = "inflight"
    BY <1>1, <1>4 DEF DaemonInv
  <2>2. mine[v] \in Ids /\ mine[v] # mine[w]
    BY <1>1, <2>1, MineIsId DEF BoxInv, OwnInv, Owning
  <2> QED
    BY <2>1, <2>2
<1>5. crashes' = 0 => \A i \in Ids : container'[i] # "none" => i \in tracked'
  BY DEF DaemonInv
<1> QED
  BY <1>2, <1>3, <1>4, <1>5 DEF DaemonInv

\* Only the worker that waits for docker create sees a container in flight.
LEMMA InflightIsCreating ==
  ASSUME BoxInv, DaemonInv, NEW w \in BoxWorkers, at[w] \in Owning, at[w] # "creating"
  PROVE  container[mine[w]] # "inflight"
<1>1. mine[w] \in Ids /\ mine[w] # 0
  BY MineIsId DEF BoxInv, OwnInv, Owning
<1>2. ASSUME container[mine[w]] = "inflight" PROVE FALSE
  <2>1. PICK v \in BoxWorkers : at[v] = "creating" /\ mine[v] = mine[w]
    BY <1>1, <1>2 DEF DaemonInv
  <2> QED
    BY <1>1, <2>1 DEF BoxInv, OwnInv
<1> QED
  BY <1>2

\* The steps of a worker on its own container.
LEMMA WorkKeepsDaemon ==
  ASSUME BoxInv, DaemonInv, ~LateCreates, NEW w \in BoxWorkers,
         CreateSucceeds(w) \/ CreateFails(w) \/ Attach(w) \/ Remove(w) \/ RemoveFails(w)
  PROVE  DaemonInv'
<1> USE DEF runtime, docker, threads, daemon
<1>0. container \in [Ids -> ContainerStates]
  BY DEF BoxInv, BoxTyped
<1>1. CASE CreateSucceeds(w) \/ CreateFails(w)
  <2>1. /\ at[w] = "creating" /\ \E place \in {"attaching", "removing"} : BoxGoes(w, place)
        /\ \E s \in {"none", "created"} : container' = [container EXCEPT ![mine[w]] = s]
        /\ UNCHANGED <<mine, crashes>> /\ tracked' = tracked
    BY <1>1 DEF CreateSucceeds, CreateFails
  <2>2. mine[w] \in Ids
    BY <2>1, MineIsId DEF Owning
  <2>3. container[mine[w]] = "inflight"
    BY <2>1 DEF DaemonInv
  <2> QED
    BY <1>0, <2>1, <2>2, <2>3, OwnerKeepsDaemon DEF Owning, Places
<1>2. CASE Attach(w)
  <2>1. /\ at[w] = "attaching" /\ BoxGoes(w, "removing")
        /\ \/ UNCHANGED container
           \/ /\ container[mine[w]] = "created"
              /\ \E s \in {"running", "exited"} : container' = [container EXCEPT ![mine[w]] = s]
        /\ UNCHANGED <<mine, tracked, crashes>>
    BY <1>2 DEF Attach
  <2>2. mine[w] \in Ids /\ container[mine[w]] # "inflight"
    BY <2>1, MineIsId, InflightIsCreating DEF Owning
  <2> QED
    BY <1>0, <2>1, <2>2, OwnerKeepsDaemon DEF Owning, Places
<1>3. CASE Remove(w) \/ RemoveFails(w)
  <2>1. /\ at[w] = "removing"
        /\ \/ Removed(mine[w]) /\ (BoxGoes(w, "removed") \/ BoxGoes(w, "unremoved"))
           \/ UNCHANGED container /\ BoxGoes(w, "unremoved")
        /\ UNCHANGED <<mine, tracked, crashes>>
    BY <1>3 DEF Remove, RemoveFails
  <2>2. mine[w] \in Ids /\ container[mine[w]] # "inflight"
    BY <2>1, MineIsId, InflightIsCreating DEF Owning
  <2>3. Removed(mine[w]) => /\ container'[mine[w]] = "none"
                            /\ \A j \in Ids \ {mine[w]} : container'[j] = container[j]
    BY <2>2, RemovedTyped
  <2> QED
    BY <2>1, <2>2, <2>3, OwnerKeepsDaemon DEF Owning, Places
<1> QED
  BY <1>1, <1>2, <1>3

\* A new container is in flight, tracked and owned.
LEMMA RegisterKeepsDaemon == ASSUME BoxInv, DaemonInv, NEW w \in BoxWorkers, Register(w) PROVE DaemonInv'
<1> DEFINE n == used + 1
<1>1. /\ at[w] = "admitted" /\ BoxGoes(w, "creating") /\ used < MaxExecutions
      /\ mine' = [mine EXCEPT ![w] = n] /\ tracked' = tracked \cup {n}
      /\ container' = [container EXCEPT ![n] = "inflight"] /\ UNCHANGED crashes
  BY DEF Register
<1>2. n \in Ids /\ \A v \in BoxWorkers : mine[v] # n
  BY <1>1, BoxAssumption DEF BoxInv, BoxTyped, OwnInv, Ids
<1> HIDE DEF n
<1>3. /\ at'[w] = "creating" /\ \A v \in BoxWorkers \ {w} : at'[v] = at[v]
      /\ mine'[w] = n /\ \A v \in BoxWorkers \ {w} : mine'[v] = mine[v]
      /\ container'[n] = "inflight" /\ \A i \in Ids \ {n} : container'[i] = container[i]
  BY <1>1, <1>2 DEF BoxInv, BoxTyped, BoxGoes
<1>4. ASSUME NEW i \in Ids, container'[i] = "inflight"
      PROVE  \E v \in BoxWorkers : at'[v] = "creating" /\ mine'[v] = i
  <2>1. CASE i = n
    BY <1>3, <2>1
  <2>2. CASE i # n
    <3>1. PICK v \in BoxWorkers : at[v] = "creating" /\ mine[v] = i
      BY <1>3, <1>4, <2>2 DEF DaemonInv
    <3> QED
      BY <1>1, <1>3, <3>1
  <2> QED
    BY <2>1, <2>2
<1>5. ASSUME NEW v \in BoxWorkers
      PROVE  /\ at'[v] = "removed" => container'[mine'[v]] = "none"
             /\ at'[v] = "creating" => container'[mine'[v]] = "inflight"
  <2>1. CASE v = w
    BY <1>3, <2>1
  <2>2. CASE v # w
    <3>1. at[v] \in {"removed", "creating"} => mine[v] \in Ids
      BY MineIsId DEF Owning
    <3> QED
      BY <1>2, <1>3, <2>2, <3>1 DEF DaemonInv
  <2> QED
    BY <2>1, <2>2
<1>6. crashes' = 0 => \A i \in Ids : container'[i] # "none" => i \in tracked'
  BY <1>1, <1>3 DEF DaemonInv
<1> QED
  BY <1>4, <1>5, <1>6 DEF DaemonInv

\* A worker that lets go of its container leaves it tracked, or knows that it is gone.
LEMMA LetGoKeepsDaemon ==
  ASSUME BoxInv, DaemonInv, NEW w \in BoxWorkers, Untrack(w) \/ KeepTracked(w)
  PROVE  DaemonInv'
<1>1. /\ at[w] \in {"removed", "unremoved"} /\ BoxGoes(w, "leaving") /\ mine' = [mine EXCEPT ![w] = 0]
      /\ (at[w] = "removed" /\ tracked' = tracked \ {mine[w]}) \/ tracked' = tracked
      /\ UNCHANGED <<container, crashes>>
  BY DEF Untrack, KeepTracked, daemon
<1>2. /\ at'[w] = "leaving" /\ \A v \in BoxWorkers \ {w} : at'[v] = at[v]
      /\ \A v \in BoxWorkers \ {w} : mine'[v] = mine[v]
  BY <1>1 DEF BoxInv, BoxTyped, BoxGoes
<1>3. ASSUME NEW i \in Ids, container'[i] = "inflight"
      PROVE  \E v \in BoxWorkers : at'[v] = "creating" /\ mine'[v] = i
  <2>1. PICK v \in BoxWorkers : at[v] = "creating" /\ mine[v] = i
    BY <1>1, <1>3 DEF DaemonInv
  <2> QED
    BY <1>1, <1>2, <2>1
<1>4. \A v \in BoxWorkers : /\ at'[v] = "removed" => container'[mine'[v]] = "none"
                            /\ at'[v] = "creating" => container'[mine'[v]] = "inflight"
  <2> SUFFICES ASSUME NEW v \in BoxWorkers, at'[v] \in {"removed", "creating"}
               PROVE  /\ at'[v] = "removed" => container'[mine'[v]] = "none"
                      /\ at'[v] = "creating" => container'[mine'[v]] = "inflight"
    OBVIOUS
  <2>1. at'[v] = at[v] /\ mine'[v] = mine[v] /\ container' = container
    BY <1>1, <1>2
  <2>2. /\ at[v] = "removed" => container[mine[v]] = "none"
        /\ at[v] = "creating" => container[mine[v]] = "inflight"
    BY DEF DaemonInv
  <2> QED
    BY <2>1, <2>2
<1>5. crashes' = 0 => \A i \in Ids : container'[i] # "none" => i \in tracked'
  <2>1. at[w] = "removed" => container[mine[w]] = "none"
    BY DEF DaemonInv
  <2> QED
    BY <1>1, <2>1 DEF DaemonInv
<1> QED
  BY <1>3, <1>4, <1>5 DEF DaemonInv

\* close() forgets a container once it is gone; no create is under way meanwhile.
LEMMA CloseKeepsDaemon ==
  ASSUME BoxInv, DaemonInv, NEW i \in Ids, CloseRemoves(i) \/ CloseFailsOn(i)
  PROVE  DaemonInv'
<1>1. /\ closer = "removing" /\ UNCHANGED <<at, mine, crashes>>
      /\ \/ Removed(i) /\ tracked' = tracked \ {i}
         \/ (Removed(i) \/ UNCHANGED container) /\ tracked' = tracked
  BY DEF CloseRemoves, CloseFailsOn, threads
<1>2. boxActive = 0
  BY <1>1 DEF BoxInv, CleanInv
<1>3. \A w \in BoxWorkers : at[w] \notin Owning
  <2> SUFFICES ASSUME NEW w \in BoxWorkers, at[w] \in Owning PROVE FALSE
    OBVIOUS
  <2>1. w \in Busy
    BY DEF Owning, Busy
  <2> QED
    BY <1>2, <2>1, BusyIsActive
<1>4. \A j \in Ids : container[j] # "inflight"
  BY <1>3 DEF DaemonInv, Owning
<1>5. /\ \A j \in Ids : container'[j] # "inflight" /\ (container'[j] # "none" => container[j] # "none")
      /\ Removed(i) => container'[i] = "none"
  BY <1>1, <1>4, RemovedTyped
<1>6. \A w \in BoxWorkers : at'[w] \notin {"creating", "removed"}
  BY <1>1, <1>3 DEF Owning
<1>7. crashes' = 0 => \A j \in Ids : container'[j] # "none" => j \in tracked'
  BY <1>1, <1>5 DEF DaemonInv
<1> QED
  BY <1>5, <1>6, <1>7 DEF DaemonInv

\* DaemonInv is kept by every step, as long as no command takes effect after it is gone.
LEMMA DaemonStepKeeps == ASSUME ~LateCreates, BoxInv, DaemonInv, [BoxNext]_boxVars PROVE DaemonInv'
<1> USE DEF runtime, docker, threads, daemon
<1>1. CASE UNCHANGED boxVars
  BY <1>1, QuietKeepsDaemon DEF boxVars
<1>2. ASSUME NEW w \in BoxWorkers,
             Submit(w) \/ GiveUp(w) \/ BoxAcquire(w) \/ Admit(w) \/ Refuse(w) \/ BoxLeave(w) \/ BoxRelease(w)
      PROVE  DaemonInv'
  <2>1. /\ at[w] \in {"idle", "waiting", "gated", "admitted", "leaving", "releasing"}
        /\ \E place \in {"idle", "waiting", "gated", "admitted", "leaving", "releasing"} : BoxGoes(w, place)
        /\ UNCHANGED <<container, mine, tracked, crashes>>
    BY <1>2, Zenon DEF Submit, GiveUp, BoxAcquire, Admit, Refuse, BoxLeave, BoxRelease
  <2>2. \A v \in BoxWorkers : at[v] = "creating" <=> at'[v] = "creating"
    BY <2>1 DEF BoxInv, BoxTyped, BoxGoes
  <2>3. \A v \in BoxWorkers : at'[v] = "removed" => at[v] = "removed"
    BY <2>1 DEF BoxInv, BoxTyped, BoxGoes
  <2> QED
    BY <2>1, <2>2, <2>3, QuietKeepsDaemon
<1>3. CASE BoxStart \/ StartFails \/ NeighbourStarts
  <2>1. UNCHANGED <<at, mine, tracked, crashes>> /\ (container' = Pruned \/ UNCHANGED container)
    BY <1>3 DEF BoxStart, StartFails, NeighbourStarts
  <2>2. \A i \in Ids : /\ container'[i] # "none" => container[i] # "none"
                       /\ container'[i] = "inflight" <=> container[i] = "inflight"
    BY <2>1 DEF Pruned
  <2> QED
    BY <2>1, <2>2, ContainersKeepDaemon
<1>4. CASE BoxClose \/ AdapterClose \/ CloseEnds
  <2>1. UNCHANGED <<at, mine, tracked, crashes, container>>
    BY <1>4 DEF BoxClose, AdapterClose, CloseEnds
  <2> QED
    BY <2>1, QuietKeepsDaemon
<1>5. ASSUME NEW i \in Ids, Exits(i) \/ LateCreate(i) PROVE DaemonInv'
  <2>1. /\ UNCHANGED <<at, mine, tracked, crashes>> /\ container[i] = "running"
        /\ container' = [container EXCEPT ![i] = "exited"]
    BY <1>5 DEF Exits, LateCreate
  <2>2. \A j \in Ids : /\ container'[j] # "none" => container[j] # "none"
                       /\ container'[j] = "inflight" <=> container[j] = "inflight"
    BY <2>1 DEF BoxInv, BoxTyped
  <2> QED
    BY <2>1, <2>2, ContainersKeepDaemon
<1>6. CASE BoxCrash
  <2>1. PICK done \in BOOLEAN :
          container' = [i \in Ids |-> IF container[i] = "inflight" /\ ~LateCreates
                                      THEN IF done THEN "created" ELSE "none" ELSE container[i]]
    BY <1>6 DEF BoxCrash
  <2>2. \A i \in Ids : container'[i] # "inflight"
    BY <2>1
  <2>3. \A w \in BoxWorkers : at'[w] = "idle"
    BY <1>6 DEF BoxCrash
  <2>4. crashes' # 0
    BY <1>6 DEF BoxCrash, BoxInv, BoxTyped
  <2> QED
    BY <2>2, <2>3, <2>4 DEF DaemonInv
<1> QED
  BY <1>1, <1>2, <1>3, <1>4, <1>5, <1>6, WorkKeepsDaemon, RegisterKeepsDaemon, LetGoKeepsDaemon, CloseKeepsDaemon, Zenon
     DEF BoxNext, Work, Closing

\* Permits and the count of active executions are those of the threads inside, on every
\* path out of execute and through restarts (SandboxRuntime.execute, _acquire).
THEOREM BoxCountsExact == BoxSpec => [](SandboxTypeOK /\ CountsAreExact)
<1>1. BoxInv => SandboxTypeOK /\ CountsAreExact
  <2> SUFFICES ASSUME BoxInv PROVE SandboxTypeOK /\ CountsAreExact
    OBVIOUS
  <2>1. CountsAreExact
    BY DEF BoxInv, CountInv, CountsAreExact, Inside, Busy
  <2>2. IsFiniteSet(Inside) /\ Busy \subseteq Inside
    BY BoxAssumption, FS_Subset DEF Inside, Busy
  <2>3. Cardinality(Inside) \in Nat /\ Cardinality(Busy) <= Cardinality(Inside)
    BY <2>2, FS_Subset, FS_CardinalityType
  <2>4. permits \in 0..MaxConcurrency /\ boxActive \in 0..MaxConcurrency
    BY <2>3, BoxAssumption DEF BoxInv, CountInv
  <2> QED
    BY <2>1, <2>4 DEF BoxInv, BoxTyped, SandboxTypeOK
<1> QED
  BY <1>1, BoxInvariant, PTL

\* A runtime that reports ready has an execution behind every container it tracks, even
\* when docker acts on a create after its command is gone (readiness, _cleanup_pending).
THEOREM ReadyIsCleanHolds == BoxSpec => []ReadyIsClean
<1>1. BoxInv => ReadyIsClean
  BY DEF BoxInv, CleanInv, ReadyIsClean, Ready
<1> QED
  BY <1>1, BoxInvariant, PTL

\* When no create takes effect after its command is gone, nothing the process created is
\* lost sight of, whatever fails to be removed, and a closed runtime leaves nothing behind
\* (DockerSandboxAdapter.execute and close).
THEOREM BoxIsAccountedHolds == ASSUME ~LateCreates PROVE BoxSpec => []BoxIsAccounted
<1>1. BoxInit => DaemonInv
  BY DEF BoxInit, DaemonInv
<1>2. BoxInv /\ DaemonInv /\ [BoxNext]_boxVars => DaemonInv'
  BY DaemonStepKeeps
<1>3. BoxInv /\ DaemonInv => NoUntrackedOrphan /\ ClosedIsClean
  <2> SUFFICES ASSUME BoxInv, DaemonInv PROVE NoUntrackedOrphan /\ ClosedIsClean
    OBVIOUS
  <2>1. NoUntrackedOrphan
    BY DEF DaemonInv, NoUntrackedOrphan
  <2>2. closed => boxActive = 0 /\ tracked = {}
    BY DEF BoxInv, CleanInv
  <2>3. ClosedIsClean
    BY <2>2 DEF DaemonInv, ClosedIsClean
  <2> QED
    BY <2>1, <2>3
<1>4. SandboxTypeOK /\ CountsAreExact /\ ReadyIsClean /\ NoUntrackedOrphan /\ ClosedIsClean => BoxIsAccounted
  BY DEF BoxIsAccounted
<1> QED
  BY <1>1, <1>2, <1>3, <1>4, BoxInvariant, BoxCountsExact, ReadyIsCleanHolds, PTL DEF BoxSpec

=====
